------------------------------ MODULE Sessions ------------------------------
(***************************************************************************)
(* Registration, sign-in and refresh tokens of one person                  *)
(* (apps/api/src/modules/auth) and the tabs of their browser               *)
(* (apps/web/lib/api.ts).  The refresh token is in a cookie all tabs       *)
(* share, the access token in the memory of each.  The statements of a     *)
(* call are awaited one by one; a call's first read is part of its start.  *)
(*                                                                         *)
(* A password is known by its number: 0 is a random one nobody knows.      *)
(***************************************************************************)
EXTENDS Naturals, Sequences

CONSTANTS
  Tabs,         \* tabs of the browser
  Visitors,     \* calls that may be in flight at once
  NoTab,        \* no tab
  MaxSessions,  \* bound: refresh tokens
  MaxResets,    \* bound: password resets an administrator starts
  MaxVisits,    \* bound: calls
  MaxLost       \* bound: crashes, lost answers and mails

VARIABLES
  person,    \* the row of users
  letter,    \* email_verification_tokens: the person's token
  links,     \* password_reset_tokens
  sessions,  \* refresh_tokens by creation time
  cookie,    \* the refresh token the browser holds; 0: none
  access,    \* tabs with an access token that has not expired
  visit,     \* the calls in flight
  mixed,     \* history: have two calls ever been in flight at once?
  visits,    \* calls so far
  lost       \* crashes, lost answers and mails so far

browser == <<cookie, access>>
vars == <<person, letter, links, sessions, browser, visit, mixed, visits, lost>>

Passwords == 0..(MaxResets + 1)
Person  == [exists : BOOLEAN, verified : BOOLEAN, sso : BOOLEAN, password : Passwords,
            status : {"active", "suspended", "deleted"}]

(* from: the refresh token this one was rotated from; 0: a sign-in.        *)
Session == [state : {"live", "revoked", "expired"}, from : 0..MaxSessions, password : Passwords]

Step  == {"idle", "user", "letter", "mail", "use", "verify", "create", "link", "issue", "answer",
          "token", "owner", "revoke", "end", "clear", "account", "set", "spend", "revokeAll"}
Visit == [pc : Step, tab : Tabs \union {NoTab}, token : 0..MaxSessions, password : Passwords,
          link : 0..MaxResets]
Idle  == [pc |-> "idle", tab |-> NoTab, token |-> 0, password |-> 0, link |-> 0]

(* Rows, the browser and calls have their types. *)
TypeOK ==
  /\ person \in Person
  /\ letter \in {"none", "stored", "mailed", "used", "late"}
  /\ links \in [1..MaxResets -> {"none", "open", "used", "late"}]
  /\ sessions \in Seq(Session) /\ Len(sessions) <= MaxSessions
  /\ cookie \in 0..MaxSessions
  /\ access \in SUBSET Tabs
  /\ visit \in [Visitors -> Visit]
  /\ mixed \in BOOLEAN
  /\ visits \in 0..MaxVisits
  /\ lost \in 0..MaxLost

Init ==
  /\ person = [exists |-> FALSE, verified |-> FALSE, sso |-> FALSE, password |-> 0,
               status |-> "active"]
  /\ letter = "none"
  /\ links = [l \in 1..MaxResets |-> "none"]
  /\ sessions = <<>>
  /\ cookie = 0 /\ access = {}
  /\ visit = [v \in Visitors |-> Idle]
  /\ mixed = FALSE
  /\ visits = 0
  /\ lost = 0

-----------------------------------------------------------------------------
(* Helpers *)

IsIdle(v) == visit[v].pc = "idle"
At(v, step) == visit[v].pc = step
Goto(v, step) == visit' = [visit EXCEPT ![v].pc = step]
Return(v) == visit' = [visit EXCEPT ![v] = Idle]
Begin(v, c) ==
  /\ IsIdle(v)
  /\ visits < MaxVisits
  /\ visits' = visits + 1
  /\ visit' = [visit EXCEPT ![v] = c]
  /\ mixed' = (mixed \/ \E w \in Visitors \ {v} : ~IsIdle(w))
Lose == lost < MaxLost /\ lost' = lost + 1

rows == <<person, letter, links, sessions>>

-----------------------------------------------------------------------------
(* register: the account, the token of its letter, the letter.             *)

Register(v) ==
  /\ ~person.exists
  /\ Begin(v, [Idle EXCEPT !.pc = "user"])
  /\ UNCHANGED <<rows, browser, lost>>

(* The address is unique: the second of two insertions fails. *)
InsertUser(v) ==
  /\ At(v, "user")
  /\ IF person.exists
       THEN UNCHANGED person /\ Return(v)
       ELSE /\ person' = [person EXCEPT !.exists = TRUE, !.password = 1]
            /\ Goto(v, "letter")
  /\ UNCHANGED <<letter, links, sessions, browser, mixed, visits, lost>>

InsertLetter(v) ==
  /\ At(v, "letter")
  /\ letter' = "stored"
  /\ Goto(v, "mail")
  /\ UNCHANGED <<person, links, sessions, browser, mixed, visits, lost>>

SendVerificationEmail(v) ==
  /\ At(v, "mail")
  /\ letter' = IF letter = "stored" THEN "mailed" ELSE letter
  /\ Return(v)
  /\ UNCHANGED <<person, links, sessions, browser, mixed, visits, lost>>

(* verifyEmail: the token is used, then the address is verified.           *)
VerifyEmail(v) ==
  /\ letter = "mailed"
  /\ Begin(v, [Idle EXCEPT !.pc = "use"])
  /\ UNCHANGED <<rows, browser, lost>>

UseLetter(v) ==
  /\ At(v, "use")
  /\ letter' = "used"
  /\ Goto(v, "verify")
  /\ UNCHANGED <<person, links, sessions, browser, mixed, visits, lost>>

MarkVerified(v) ==
  /\ At(v, "verify")
  /\ person' = [person EXCEPT !.verified = TRUE]
  /\ Return(v)
  /\ UNCHANGED <<letter, links, sessions, browser, mixed, visits, lost>>

LetterExpires ==
  /\ letter = "mailed"
  /\ letter' = "late"
  /\ UNCHANGED <<person, links, sessions, browser, visit, mixed, visits, lost>>

-----------------------------------------------------------------------------
(* login, with the password as it is now *)

Login(v, t) ==
  /\ person.exists /\ person.password # 0
  /\ person.status = "active" /\ person.verified
  /\ Begin(v, [Idle EXCEPT !.pc = "issue", !.tab = t, !.password = person.password])
  /\ UNCHANGED <<rows, browser, lost>>

(* The callback of a sign-in with Google or Microsoft; the account's       *)
(* status is not looked at.  An anonymised account has another address.    *)
SsoCallback(v, t) ==
  /\ person.status # "deleted"
  /\ Begin(v, [Idle EXCEPT !.pc = IF person.exists THEN "link" ELSE "create", !.tab = t])
  /\ UNCHANGED <<rows, browser, lost>>

LinkSsoUser(v) ==
  /\ At(v, "link")
  /\ person' = [person EXCEPT !.sso = TRUE, !.verified = TRUE]
  /\ visit' = [visit EXCEPT ![v].pc = "issue", ![v].password = person.password]
  /\ UNCHANGED <<letter, links, sessions, browser, mixed, visits, lost>>

CreateSsoUser(v) ==
  /\ At(v, "create")
  /\ IF person.exists
       THEN UNCHANGED person /\ Return(v)
       ELSE /\ person' = [person EXCEPT !.exists = TRUE, !.verified = TRUE, !.sso = TRUE]
            /\ Goto(v, "issue")
  /\ UNCHANGED <<letter, links, sessions, browser, mixed, visits, lost>>

(* issueSession: a row, an access token, and the answer to the tab.        *)
IssueSession(v) ==
  LET c == visit[v] IN
  /\ At(v, "issue")
  /\ Len(sessions) < MaxSessions
  /\ sessions' = Append(sessions, [state |-> "live", from |-> c.token, password |-> c.password])
  /\ visit' = [visit EXCEPT ![v].pc = "answer", ![v].token = Len(sessions) + 1]
  /\ UNCHANGED <<person, letter, links, browser, mixed, visits, lost>>

SendSession(v) ==
  /\ At(v, "answer")
  /\ cookie' = visit[v].token
  /\ access' = access \union {visit[v].tab}
  /\ Return(v)
  /\ UNCHANGED <<rows, mixed, visits, lost>>

-----------------------------------------------------------------------------
(* refresh *)

AccessExpires(t) ==
  /\ t \in access
  /\ access' = access \ {t}
  /\ UNCHANGED <<rows, cookie, visit, mixed, visits, lost>>

(* tryRefresh: one refresh of a tab at a time, with the cookie. *)
TryRefresh(v, t) ==
  /\ t \notin access
  /\ cookie # 0
  /\ \A w \in Visitors : visit[w].tab # t
  /\ Begin(v, [Idle EXCEPT !.pc = "token", !.tab = t, !.token = cookie])
  /\ UNCHANGED <<rows, browser, lost>>

ReadToken(v) ==
  /\ At(v, "token")
  /\ IF sessions[visit[v].token].state = "live" THEN Goto(v, "owner") ELSE Return(v)
  /\ UNCHANGED <<rows, browser, mixed, visits, lost>>

ReadOwner(v) ==
  /\ At(v, "owner")
  /\ IF person.status = "active"
       THEN visit' = [visit EXCEPT ![v].pc = "revoke", ![v].password = person.password]
       ELSE Return(v)
  /\ UNCHANGED <<rows, browser, mixed, visits, lost>>

Mutant_RevokeToken_Keep(v) ==
  /\ At(v, "revoke")
  /\ Goto(v, "issue")
  /\ UNCHANGED <<rows, browser, mixed, visits, lost>>

(* The token is revoked, by id, and a new one issued. *)
RevokeToken(v) ==
  /\ At(v, "revoke")
  /\ sessions' = [sessions EXCEPT ![visit[v].token].state = "revoked"]
  /\ Goto(v, "issue")
  /\ UNCHANGED <<person, letter, links, browser, mixed, visits, lost>>

RefreshTokenExpires(k) ==
  /\ sessions[k].state = "live"
  /\ sessions' = [sessions EXCEPT ![k].state = "expired"]
  /\ UNCHANGED <<person, letter, links, browser, visit, mixed, visits, lost>>

-----------------------------------------------------------------------------
(* logout: the token is revoked, and the answer clears the cookie.         *)

Logout(v, t) ==
  /\ cookie # 0
  /\ Begin(v, [Idle EXCEPT !.pc = "end", !.tab = t, !.token = cookie])
  /\ UNCHANGED <<rows, browser, lost>>

EndSession(v) ==
  /\ At(v, "end")
  /\ sessions' = [sessions EXCEPT ![visit[v].token].state = "revoked"]
  /\ Goto(v, "clear")
  /\ UNCHANGED <<person, letter, links, browser, mixed, visits, lost>>

ClearCookie(v) ==
  /\ At(v, "clear")
  /\ cookie' = 0
  /\ access' = access \ {visit[v].tab}
  /\ Return(v)
  /\ UNCHANGED <<rows, mixed, visits, lost>>

-----------------------------------------------------------------------------
(* forcePasswordReset (admin): a token is made and mailed; older ones stay *)
(* as they are.                                                            *)
ForcePasswordReset(l) ==
  /\ person.exists
  /\ links[l] = "none"
  /\ links' = [links EXCEPT ![l] = "open"]
  /\ UNCHANGED <<person, letter, sessions, browser, visit, mixed, visits, lost>>

LinkExpires(l) ==
  /\ links[l] = "open"
  /\ links' = [links EXCEPT ![l] = "late"]
  /\ UNCHANGED <<person, letter, sessions, browser, visit, mixed, visits, lost>>

(* resetPasswordWithToken: the password, the token, the sessions.          *)
ResetPasswordWithToken(v, l) ==
  /\ links[l] = "open"
  /\ Begin(v, [Idle EXCEPT !.pc = "account", !.link = l])
  /\ UNCHANGED <<rows, browser, lost>>

ReadAccount(v) ==
  /\ At(v, "account")
  /\ IF person.status = "deleted" THEN Return(v) ELSE Goto(v, "set")
  /\ UNCHANGED <<rows, browser, mixed, visits, lost>>

SetPassword(v) ==
  /\ At(v, "set")
  /\ person' = [person EXCEPT !.password = visit[v].link + 1]
  /\ Goto(v, "spend")
  /\ UNCHANGED <<letter, links, sessions, browser, mixed, visits, lost>>

SpendLink(v) ==
  /\ At(v, "spend")
  /\ links' = [links EXCEPT ![visit[v].link] = "used"]
  /\ Goto(v, "revokeAll")
  /\ UNCHANGED <<person, letter, sessions, browser, mixed, visits, lost>>

RevokeSessions(v) ==
  /\ At(v, "revokeAll")
  /\ sessions' = [k \in DOMAIN sessions |-> [sessions[k] EXCEPT !.state = "revoked"]]
  /\ Return(v)
  /\ UNCHANGED <<person, letter, links, browser, mixed, visits, lost>>

-----------------------------------------------------------------------------
(* Administration and data requests change the status of the account.      *)
SuspendOrRestore ==
  /\ person.exists /\ person.status # "deleted"
  /\ person' = [person EXCEPT !.status = IF @ = "active" THEN "suspended" ELSE "active"]
  /\ UNCHANGED <<letter, links, sessions, browser, visit, mixed, visits, lost>>

(* anonymiseUser; the refresh tokens stay. *)
Anonymise ==
  /\ person.exists /\ person.status # "deleted"
  /\ person' = [person EXCEPT !.status = "deleted", !.password = 0, !.verified = FALSE,
                              !.sso = FALSE]
  /\ UNCHANGED <<letter, links, sessions, browser, visit, mixed, visits, lost>>

(* The process dies, or its answer or mail is lost. *)
Drop(v) ==
  /\ ~IsIdle(v)
  /\ Lose
  /\ Return(v)
  /\ UNCHANGED <<rows, browser, mixed, visits>>

-----------------------------------------------------------------------------
AuthRequest ==
  \E v \in Visitors :
    \/ Register(v) \/ VerifyEmail(v)
    \/ \E t \in Tabs : Login(v, t) \/ SsoCallback(v, t) \/ TryRefresh(v, t) \/ Logout(v, t)
    \/ \E l \in 1..MaxResets : ResetPasswordWithToken(v, l)

VisitStep(v) ==
  \/ InsertUser(v) \/ InsertLetter(v) \/ SendVerificationEmail(v)
  \/ UseLetter(v) \/ MarkVerified(v)
  \/ LinkSsoUser(v) \/ CreateSsoUser(v) \/ IssueSession(v) \/ SendSession(v)
  \/ ReadToken(v) \/ ReadOwner(v) \/ RevokeToken(v)
  \/ EndSession(v) \/ ClearCookie(v)
  \/ ReadAccount(v) \/ SetPassword(v) \/ SpendLink(v) \/ RevokeSessions(v)

Surroundings ==
  \/ LetterExpires \/ SuspendOrRestore \/ Anonymise
  \/ \E t \in Tabs : AccessExpires(t)
  \/ \E k \in DOMAIN sessions : RefreshTokenExpires(k)
  \/ \E l \in 1..MaxResets : ForcePasswordReset(l) \/ LinkExpires(l)

Next ==
  \/ AuthRequest \/ Surroundings
  \/ \E v \in Visitors : VisitStep(v) \/ Drop(v)

Spec == Init /\ [][Next]_vars

-----------------------------------------------------------------------------
(* Properties *)

(* A refresh token that was rotated is of no more use. *)
RotatedAreDead ==
  \A k \in DOMAIN sessions :
    sessions[k].from # 0 =>
      /\ sessions[k].from < k
      /\ sessions[sessions[k].from].state # "live"

(* Whoever has a session has shown that the address is theirs. *)
SessionsAreVerified ==
  sessions # <<>> => person.exists /\ (person.verified \/ person.status = "deleted")

(* What a call in flight relies on. *)
VisitOK(v) ==
  LET c == visit[v] IN
  /\ c.token \in 0..Len(sessions)
  /\ c.pc \in {"token", "owner", "revoke", "end", "answer"} => c.token # 0
  /\ c.pc = "issue" /\ c.token # 0 => sessions[c.token].state # "live"
  /\ c.pc \in {"letter", "mail", "use", "verify", "link", "issue"} => person.exists
  /\ c.pc = "issue" => person.verified \/ person.status = "deleted"
  /\ c.pc \in {"account", "set", "spend", "revokeAll"} => c.link # 0 /\ person.exists
  /\ c.pc \in {"create", "link", "token", "owner", "revoke", "issue", "answer"} => c.tab \in Tabs
  /\ c.pc = "create" => c.password = 0
  /\ c.pc = "link" => c.token = 0

(* Rows and calls, whatever overlaps. *)
IInv ==
  /\ TypeOK
  /\ cookie <= Len(sessions)
  /\ (\E l \in 1..MaxResets : links[l] # "none") => person.exists
  /\ letter # "none" => person.exists
  /\ ~person.exists => person.password = 0
  /\ RotatedAreDead /\ SessionsAreVerified
  /\ \A v \in Visitors : VisitOK(v)

(* Safety, as long as calls do not overlap: a refresh token is rotated at  *)
(* most once, so one sign-in is one live session at most.                  *)
OneSuccessor ==
  ~mixed => \A j, k \in DOMAIN sessions :
              sessions[j].from # 0 /\ sessions[j].from = sessions[k].from => j = k

(* Safety, as long as calls neither overlap nor are cut short: once a      *)
(* password reset is done, no session of an older password lives on.       *)
ResetEndsSessions ==
  ~mixed /\ lost = 0 /\ person.status # "deleted"
    /\ (\A v \in Visitors : visit[v].pc \notin {"spend", "revokeAll"}) =>
    \A k \in DOMAIN sessions :
      sessions[k].state = "live" => sessions[k].password = person.password

(* What a call relies on when it is the only one: that nothing came of the *)
(* token it found live, and that the password it read is still the one.    *)
Alone == ~mixed => \A v, w \in Visitors : ~IsIdle(v) /\ ~IsIdle(w) => v = w
VisitAlone(v) ==
  LET c == visit[v] IN
  ~mixed =>
    /\ c.token # 0 /\ c.pc \in {"owner", "revoke", "issue"} =>
         \A k \in DOMAIN sessions : sessions[k].from # c.token
    /\ person.status # "deleted" /\ c.pc \in {"revoke", "issue"} => c.password = person.password

(* The inductive invariant. *)
SessionsInv ==
  /\ IInv /\ OneSuccessor /\ ResetEndsSessions
  /\ Alone /\ \A v \in Visitors : VisitAlone(v)
=============================================================================
