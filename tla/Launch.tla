------------------------------- MODULE Launch -------------------------------
(***************************************************************************)
(* LTI launches (apps/api/src/modules/lti): registrations of platforms,    *)
(* the OIDC login that opens a launch, the launch that verifies the        *)
(* platform's token, finds or creates the learner's account and enrols it, *)
(* and the one-time ticket the web client exchanges for a session.         *)
(* Tickets live in the memory of the process and die with it.              *)
(***************************************************************************)
EXTENDS Naturals, FiniteSets

CONSTANTS
  Platforms,   \* rows of lti_registrations
  States,      \* OIDC states: rows of lti_launches
  Emails,      \* accounts, by their e-mail address
  Subjects,    \* the platforms' names for learners (claim sub)
  Tickets,
  Pilots,      \* calls that may be in flight at once
  NoPlatform, NoState, NoEmail, NoSubject, NoTicket,
  MaxTurns,    \* bound: calls made
  MaxTroubles  \* bound: restarts

VARIABLES
  platforms,  \* lti_registrations
  launches,   \* lti_launches
  accounts,   \* users: the subject linked to each address, and its status
  onCourse,   \* enrolments in the course of the launches' custom slug
  tickets,    \* the tickets in memory
  pilot,      \* the calls in flight
  signedIn,   \* history: sessions issued per ticket
  tangled,    \* history: have two calls ever been in flight at once?
  turns,      \* calls so far
  troubles    \* restarts so far

history == <<signedIn, tangled, turns, troubles>>
vars == <<platforms, launches, accounts, onCourse, tickets, pilot, history>>

LaunchRow == [status : {"none", "open", "late", "used"}, platform : Platforms \union {NoPlatform},
              user : Emails \union {NoEmail}, course : BOOLEAN]
Account == [status : {"none", "active", "suspended"}, subject : Subjects \union {NoSubject}]
Ticket == [status : {"none", "open", "late", "spent"}, user : Emails \union {NoEmail},
           state : States \union {NoState}]
Step == {"idle", "verify", "use", "subject", "email", "insert", "link", "record", "enrol",
         "ticket", "account"}
Pilot == [pc : Step, state : States \union {NoState}, platform : Platforms \union {NoPlatform},
          subject : Subjects \union {NoSubject}, email : Emails \union {NoEmail},
          course : BOOLEAN, relink : BOOLEAN, ticket : Tickets \union {NoTicket}]
NoLaunch == [status |-> "none", platform |-> NoPlatform, user |-> NoEmail, course |-> FALSE]
Idle == [pc |-> "idle", state |-> NoState, platform |-> NoPlatform, subject |-> NoSubject,
         email |-> NoEmail, course |-> FALSE, relink |-> FALSE, ticket |-> NoTicket]

(* Rows, tickets and calls have their types. *)
TypeOK ==
  /\ platforms \in [Platforms -> {"none", "active", "inactive", "deleted"}]
  /\ launches \in [States -> LaunchRow] /\ accounts \in [Emails -> Account]
  /\ onCourse \in SUBSET Emails /\ tickets \in [Tickets -> Ticket]
  /\ pilot \in [Pilots -> Pilot] /\ signedIn \in [Tickets -> Nat] /\ tangled \in BOOLEAN
  /\ turns \in 0..MaxTurns /\ troubles \in 0..MaxTroubles

(* Any address may have an account already, made by sign-up. *)
Init ==
  /\ platforms = [p \in Platforms |-> "none"]
  /\ launches = [s \in States |-> NoLaunch]
  /\ accounts \in [Emails -> [status : {"none", "active"}, subject : {NoSubject}]]
  /\ onCourse = {}
  /\ tickets = [t \in Tickets |-> [status |-> "none", user |-> NoEmail, state |-> NoState]]
  /\ pilot = [c \in Pilots |-> Idle]
  /\ signedIn = [t \in Tickets |-> 0] /\ tangled = FALSE
  /\ turns = 0 /\ troubles = 0

-----------------------------------------------------------------------------
(* Helpers *)

At(c, step) == pilot[c].pc = step
Goto(c, step) == pilot' = [pilot EXCEPT ![c].pc = step]
Return(c) == pilot' = [pilot EXCEPT ![c] = Idle]
Begin(c, p) ==
  /\ At(c, "idle") /\ turns < MaxTurns
  /\ turns' = turns + 1
  /\ pilot' = [pilot EXCEPT ![c] = p]
  /\ tangled' = (tangled \/ \E d \in Pilots \ {c} : ~At(d, "idle"))

-----------------------------------------------------------------------------
(* The administrator's registrations: created active or not, switched,     *)
(* deleted with their launches.                                            *)

CreateRegistration(p, status) ==
  /\ platforms[p] = "none"
  /\ platforms' = [platforms EXCEPT ![p] = status]
  /\ UNCHANGED <<launches, accounts, onCourse, tickets, pilot, history>>

UpdateRegistration(p, status) ==
  /\ platforms[p] \notin {"none", "deleted", status}
  /\ platforms' = [platforms EXCEPT ![p] = status]
  /\ UNCHANGED <<launches, accounts, onCourse, tickets, pilot, history>>

DeleteRegistration(p) ==
  /\ platforms[p] \notin {"none", "deleted"}
  /\ platforms' = [platforms EXCEPT ![p] = "deleted"]
  /\ launches' = [s \in States |-> IF launches[s].platform = p THEN [NoLaunch EXCEPT
                                        !.status = "used"] ELSE launches[s]]
  /\ UNCHANGED <<accounts, onCourse, tickets, pilot, history>>

-----------------------------------------------------------------------------
(* startLoginInitiation: a launch with a new state, open for ten minutes.  *)

StartLoginInitiation(p, s) ==
  /\ platforms[p] = "active" /\ launches[s].status = "none"
  /\ launches' = [launches EXCEPT ![s] = [NoLaunch EXCEPT !.status = "open", !.platform = p]]
  /\ UNCHANGED <<platforms, accounts, onCourse, tickets, pilot, history>>

TenMinutes(s) ==
  /\ launches[s].status = "open"
  /\ launches' = [launches EXCEPT ![s].status = "late"]
  /\ UNCHANGED <<platforms, accounts, onCourse, tickets, pilot, history>>

-----------------------------------------------------------------------------
(* completeLaunch *)

(* The launch of this state must be open: not used, not late.  The token's *)
(* claims: a subject, perhaps an e-mail, perhaps a known course.           *)
CompleteLaunch(c, s, subject, email, course) ==
  /\ launches[s].status = "open"
  /\ Begin(c, [Idle EXCEPT !.pc = "verify", !.state = s, !.platform = launches[s].platform,
                 !.subject = subject, !.email = email, !.course = course])
  /\ UNCHANGED <<platforms, launches, accounts, onCourse, tickets, signedIn, troubles>>

(* Signature, issuer, audience and nonce: the token passes or it does not; *)
(* the registration must still be there (active or not).                   *)
VerifyToken(c) ==
  /\ At(c, "verify")
  /\ \/ platforms[pilot[c].platform] # "deleted" /\ Goto(c, "use")
     \/ Return(c)
  /\ UNCHANGED <<platforms, launches, accounts, onCourse, tickets, history>>

Mutant_MarkUsed_Later(c) ==
  /\ At(c, "use")
  /\ Goto(c, "subject")
  /\ UNCHANGED <<platforms, launches, accounts, onCourse, tickets, history>>

MarkUsed(c) ==
  /\ At(c, "use")
  /\ launches' = [launches EXCEPT ![pilot[c].state].status = "used"]
  /\ Goto(c, "subject")
  /\ UNCHANGED <<platforms, accounts, onCourse, tickets, history>>

(* An account linked to the subject (one of them), or the next question.   *)
FindBySubject(c) ==
  LET linked == {e \in Emails : accounts[e].subject = pilot[c].subject} IN
  /\ At(c, "subject")
  /\ \/ \E e \in linked :
          pilot' = [pilot EXCEPT ![c].pc = "link", ![c].email = e, ![c].relink = FALSE]
     \/ linked = {} /\ Goto(c, "email")
  /\ UNCHANGED <<platforms, launches, accounts, onCourse, tickets, history>>

(* Without an e-mail nobody can be provisioned. *)
FindByEmail(c) ==
  LET e == pilot[c].email IN
  /\ At(c, "email")
  /\ IF e = NoEmail THEN Return(c)
     ELSE IF accounts[e].status = "none" THEN Goto(c, "insert")
     ELSE pilot' = [pilot EXCEPT ![c].pc = "link", ![c].relink = TRUE]
  /\ UNCHANGED <<platforms, launches, accounts, onCourse, tickets, history>>

(* The insert fails if the address was taken meanwhile. *)
InsertLearner(c) ==
  LET e == pilot[c].email IN
  /\ At(c, "insert")
  /\ IF accounts[e].status = "none"
       THEN /\ accounts' = [accounts EXCEPT ![e] = [status |-> "active",
                                                     subject |-> pilot[c].subject]]
            /\ Goto(c, "link")
       ELSE UNCHANGED accounts /\ Return(c)
  /\ UNCHANGED <<platforms, launches, onCourse, tickets, history>>

(* An account found by its address takes the subject, whatever it was      *)
(* linked to before.                                                       *)
LinkSubject(c) ==
  /\ At(c, "link")
  /\ accounts' = IF pilot[c].relink
                   THEN [accounts EXCEPT ![pilot[c].email].subject = pilot[c].subject]
                   ELSE accounts
  /\ Goto(c, "record")
  /\ UNCHANGED <<platforms, launches, onCourse, tickets, history>>

(* The launch's row is told user and course (a deleted one is not there).  *)
RecordLaunch(c) ==
  LET s == pilot[c].state IN
  /\ At(c, "record")
  /\ launches' = IF launches[s].platform = NoPlatform THEN launches
                 ELSE [launches EXCEPT ![s].user = pilot[c].email, ![s].course = pilot[c].course]
  /\ Goto(c, IF pilot[c].course THEN "enrol" ELSE "ticket")
  /\ UNCHANGED <<platforms, accounts, onCourse, tickets, history>>

EnrolLearner(c) ==
  /\ At(c, "enrol")
  /\ onCourse' = onCourse \union {pilot[c].email}
  /\ Goto(c, "ticket")
  /\ UNCHANGED <<platforms, launches, accounts, tickets, history>>

(* issueLaunchTicket: a minute to exchange it. *)
IssueTicket(c, t) ==
  /\ At(c, "ticket") /\ tickets[t].status = "none"
  /\ tickets' = [tickets EXCEPT ![t] = [status |-> "open", user |-> pilot[c].email,
                                        state |-> pilot[c].state]]
  /\ Return(c)
  /\ UNCHANGED <<platforms, launches, accounts, onCourse, history>>

OneMinute(t) ==
  /\ tickets[t].status = "open"
  /\ tickets' = [tickets EXCEPT ![t].status = "late"]
  /\ UNCHANGED <<platforms, launches, accounts, onCourse, pilot, history>>

-----------------------------------------------------------------------------
(* exchangeLaunchTicket and the session behind it *)

(* The ticket is gone before the first statement is awaited. *)
ExchangeTicket(c, t) ==
  /\ tickets[t].status = "open"
  /\ tickets' = [tickets EXCEPT ![t].status = "spent"]
  /\ Begin(c, [Idle EXCEPT !.pc = "account", !.ticket = t])
  /\ UNCHANGED <<platforms, launches, accounts, onCourse, signedIn, troubles>>

(* A session for an active account. *)
CheckAccount(c) ==
  LET t == pilot[c].ticket IN
  /\ At(c, "account")
  /\ signedIn' = IF accounts[tickets[t].user].status = "active"
                   THEN [signedIn EXCEPT ![t] = @ + 1] ELSE signedIn
  /\ Return(c)
  /\ UNCHANGED <<platforms, launches, accounts, onCourse, tickets, tangled, turns, troubles>>

-----------------------------------------------------------------------------
SuspendAccount(e) ==
  /\ accounts[e].status = "active"
  /\ accounts' = [accounts EXCEPT ![e].status = "suspended"]
  /\ UNCHANGED <<platforms, launches, onCourse, tickets, pilot, history>>

(* The process restarts: calls and tickets are lost. *)
Restart ==
  /\ troubles < MaxTroubles
  /\ troubles' = troubles + 1
  /\ pilot' = [c \in Pilots |-> Idle]
  /\ tickets' = [t \in Tickets |-> IF tickets[t].status = "open"
                                     THEN [tickets[t] EXCEPT !.status = "late"] ELSE tickets[t]]
  /\ UNCHANGED <<platforms, launches, accounts, onCourse, signedIn, tangled, turns>>

LtiRequest ==
  \/ \E p \in Platforms, status \in {"active", "inactive"} :
       CreateRegistration(p, status) \/ UpdateRegistration(p, status)
  \/ \E p \in Platforms : DeleteRegistration(p) \/ \E s \in States : StartLoginInitiation(p, s)
  \/ \E c \in Pilots, s \in States, subject \in Subjects, email \in Emails \union {NoEmail},
        course \in BOOLEAN : CompleteLaunch(c, s, subject, email, course)
  \/ \E c \in Pilots, t \in Tickets : ExchangeTicket(c, t)

PilotStep(c) ==
  \/ VerifyToken(c) \/ MarkUsed(c) \/ FindBySubject(c) \/ FindByEmail(c) \/ InsertLearner(c)
  \/ LinkSubject(c) \/ RecordLaunch(c) \/ EnrolLearner(c)
  \/ (\E t \in Tickets : IssueTicket(c, t)) \/ CheckAccount(c)

Next ==
  \/ LtiRequest \/ Restart
  \/ \E c \in Pilots : PilotStep(c)
  \/ \E s \in States : TenMinutes(s)
  \/ \E t \in Tickets : OneMinute(t)
  \/ \E e \in Emails : SuspendAccount(e)

Spec == Init /\ [][Next]_vars

-----------------------------------------------------------------------------
(* Properties *)

(* A ticket buys one session; and as long as calls do not overlap, a state *)
(* buys one ticket.                                                        *)
OneSessionPerLaunch ==
  /\ \A t \in Tickets : signedIn[t] <= 1
  /\ ~tangled => \A t, u \in Tickets :
       t # u /\ tickets[t].state # NoState => tickets[t].state # tickets[u].state

(* As long as calls do not overlap, a subject is linked to one account.    *)
OneAccountPerSubject ==
  ~tangled => \A d, e \in Emails :
    d # e /\ accounts[d].subject # NoSubject => accounts[d].subject # accounts[e].subject

(* Whoever holds a ticket of a launch into the course is enrolled in it,   *)
(* and has an account.                                                     *)
TicketsAreGood ==
  \A t \in Tickets :
    tickets[t].status # "none" =>
      /\ accounts[tickets[t].user].status # "none"
      /\ LET l == launches[tickets[t].state] IN
         ~tangled /\ l.platform # NoPlatform =>
           l.status = "used" /\ l.user = tickets[t].user
             /\ (l.course => tickets[t].user \in onCourse)

(* What a ticket and a call rely on.  A ticket not yet spent has bought    *)
(* nothing; a call has a launch that is used from its second step on, a    *)
(* person once it has found one, a ticket nobody else exchanges.  Only     *)
(* accounts that are there are linked.                                     *)
Launching == {"verify", "use"}
Known == {"link", "record", "enrol", "ticket"}
Linked == \A e \in Emails : accounts[e].status = "none" => accounts[e].subject = NoSubject
TicketOK(t) ==
  LET k == tickets[t] IN
  /\ k.status = "none" => k.state = NoState
  /\ k.status # "none" => /\ k.state \in States /\ launches[k.state].status = "used"
                          /\ k.user \in Emails
  /\ k.status \in {"none", "open"} => signedIn[t] = 0
PilotOK(c) ==
  LET p == pilot[c] IN
  /\ p.pc \in Launching => /\ p.state \in States /\ launches[p.state].status # "none"
  /\ p.pc \in {"subject", "email", "insert"} \union Known =>
       p.state \in States /\ launches[p.state].status = "used"
  /\ p.pc \in {"insert"} \union Known => p.email \in Emails
  /\ p.pc \in Known => accounts[p.email].status # "none"
  /\ p.pc \in Launching \union {"subject", "email", "insert"} =>
       ~p.relink /\ p.subject # NoSubject
  /\ p.pc = "account" =>
       /\ p.ticket \in Tickets /\ tickets[p.ticket].status = "spent" /\ signedIn[p.ticket] = 0
       /\ \A d \in Pilots \ {c} : At(d, "account") => pilot[d].ticket # p.ticket

(* ... and when it is the only call: that its launch bought no ticket yet, *)
(* that the subject not found is still nobody's, and that what it recorded *)
(* of the launch stands.                                                   *)
Alone == ~tangled => \A c, d \in Pilots : ~At(c, "idle") /\ ~At(d, "idle") => c = d
PilotAlone(c) ==
  LET p == pilot[c] IN
  ~tangled =>
    /\ p.pc \in Launching \union {"subject", "email", "insert"} \union Known =>
         \A t \in Tickets : tickets[t].status # "none" => tickets[t].state # p.state
    /\ p.pc \in {"email", "insert"} \/ (p.pc = "link" /\ p.relink) =>
         \A e \in Emails : accounts[e].subject # p.subject
    /\ p.pc \in {"enrol", "ticket"} /\ launches[p.state].platform # NoPlatform =>
         launches[p.state].user = p.email /\ launches[p.state].course = p.course
    /\ p.pc = "ticket" /\ p.course => p.email \in onCourse

(* Types, one session per launch, one account per subject, good tickets:   *)
(* with what they rest on, the inductive invariant.                        *)
LaunchInv ==
  /\ TypeOK /\ OneSessionPerLaunch /\ OneAccountPerSubject /\ TicketsAreGood
  /\ Linked /\ \A t \in Tickets : TicketOK(t)
  /\ Alone /\ \A c \in Pilots : PilotOK(c) /\ PilotAlone(c)
=============================================================================
