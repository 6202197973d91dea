-------------------------------- MODULE Saml --------------------------------
(***************************************************************************)
(* SAML sign-in (apps/api/src/modules/saml): providers and their metadata, *)
(* the lazy refresh that re-reads the stored metadata, and the assertion   *)
(* that creates or merges an account, raises its role and issues a         *)
(* session.  A metadata document is a version; what is extracted from it   *)
(* (issuer, address of the login page, certificate) is the version of the  *)
(* document it came from.  A login is sent to the address extracted.       *)
(*                                                                         *)
(* The certificate is shown to administrators and read by nothing else:    *)
(* parseSamlResponse verifies no signature, so that any assertion at all   *)
(* may be posted here, in anybody's name and with any role.                *)
(* Roles are ranks.                                                        *)
(***************************************************************************)
EXTENDS Integers

CONSTANTS
  IdPs,       \* rows of saml_providers
  Members,    \* users, by e-mail address
  Visits,     \* calls that may be in flight at once
  NoIdP, NoMember,
  MaxVersion, \* bound: metadata documents uploaded
  MaxSignIns, \* bound: assertions posted and providers patched
  MaxOrders   \* bound: steps of the administrator on accounts

VARIABLES
  idps,      \* saml_providers
  members,   \* users
  visit,     \* the calls in flight
  refresh,   \* metadata refreshes in flight: -1 none, else the version read, 0 before
  due,       \* history: the role a member has by the administrator and the assertions
  improper,  \* history: sessions issued to an account that was not active
  mixed,     \* history: have two calls ever been in flight at once?
  signIns,   \* calls so far
  orders     \* the administrator's steps so far

history == <<due, improper, mixed, signIns, orders>>
vars == <<idps, members, visit, refresh, history>>

Roles == 0..2    \* ROLE_RANK: learner, instructor, admin
Versions == 0..MaxVersion
IdP == [status : {"none", "active", "paused", "deleted"}, xml : Versions,
        extract : Versions, stale : BOOLEAN]
Member == [status : {"none", "active", "suspended"}, role : Roles]
Step == {"idle", "update", "user", "insert", "merge", "check"}
Visit == [pc : Step, idp : IdPs \union {NoIdP}, who : Members \union {NoMember},
          asserted : Roles, role : Roles, status : {"none", "active", "suspended"},
          patch : {"active", "paused", "xml"}, xml : Versions]
Idle == [pc |-> "idle", idp |-> NoIdP, who |-> NoMember, asserted |-> 0, role |-> 0,
         status |-> "none", patch |-> "xml", xml |-> 0]

(* Providers, accounts and calls have their types. *)
TypeOK ==
  /\ idps \in [IdPs -> IdP] /\ members \in [Members -> Member]
  /\ visit \in [Visits -> Visit] /\ refresh \in [IdPs -> -1..MaxVersion]
  /\ due \in [Members -> Roles] /\ improper \in BOOLEAN /\ mixed \in BOOLEAN
  /\ signIns \in 0..MaxSignIns /\ orders \in 0..MaxOrders

(* Members may have an account already, made by sign-up. *)
Init ==
  /\ idps = [p \in IdPs |-> [status |-> "none", xml |-> 0, extract |-> 0, stale |-> FALSE]]
  /\ members \in [Members -> [status : {"none", "active"}, role : {0}]]
  /\ visit = [v \in Visits |-> Idle] /\ refresh = [p \in IdPs |-> -1]
  /\ due = [m \in Members |-> 0] /\ improper = FALSE /\ mixed = FALSE
  /\ signIns = 0 /\ orders = 0

-----------------------------------------------------------------------------
(* Helpers *)

At(v, step) == visit[v].pc = step
Goto(v, step) == visit' = [visit EXCEPT ![v].pc = step]
Return(v) == visit' = [visit EXCEPT ![v] = Idle]
Busy == (\E v \in Visits : ~At(v, "idle")) \/ (\E p \in IdPs : refresh[p] # -1)
Begin(v, c) ==
  /\ At(v, "idle") /\ signIns < MaxSignIns
  /\ signIns' = signIns + 1
  /\ visit' = [visit EXCEPT ![v] = c]
  /\ mixed' = (mixed \/ Busy)
Exists(p) == idps[p].status \in {"active", "paused"}
Newest == CHOOSE x \in Versions : /\ \A p \in IdPs : idps[p].xml <= x
                                  /\ (x = 0 \/ \E p \in IdPs : idps[p].xml = x)

-----------------------------------------------------------------------------
(* createSamlProvider: one statement, document and extract.                *)

CreateSamlProvider(p, status) ==
  /\ idps[p].status = "none" /\ Newest + 1 \in Versions
  /\ idps' = [idps EXCEPT ![p] = [status |-> status, xml |-> Newest + 1,
                                  extract |-> Newest + 1, stale |-> FALSE]]
  /\ UNCHANGED <<members, visit, refresh, history>>

(* updateSamlProvider: read (it must be there), then write what the patch  *)
(* names: the status, or a new document with all that is extracted from it.*)
UpdateSamlProvider(v, p, patch) ==
  /\ Exists(p) /\ (patch = "xml" => Newest + 1 \in Versions)
  /\ Begin(v, [Idle EXCEPT !.pc = "update", !.idp = p, !.patch = patch,
                 !.xml = IF patch = "xml" THEN Newest + 1 ELSE 0])
  /\ UNCHANGED <<idps, members, refresh, due, improper, orders>>

Mutant_WriteProvider_XmlOnly(v) ==
  LET c == visit[v] IN
  /\ At(v, "update")
  /\ idps' = IF ~Exists(c.idp) THEN idps
             ELSE IF c.patch = "xml" THEN [idps EXCEPT ![c.idp].xml = c.xml]
             ELSE [idps EXCEPT ![c.idp].status = c.patch]
  /\ Return(v)
  /\ UNCHANGED <<members, refresh, history>>

WriteProvider(v) ==
  LET c == visit[v] IN
  /\ At(v, "update")
  /\ idps' = IF ~Exists(c.idp) THEN idps
             ELSE IF c.patch = "xml"
               THEN [idps EXCEPT ![c.idp].xml = c.xml, ![c.idp].extract = c.xml,
                                 ![c.idp].stale = FALSE]
             ELSE [idps EXCEPT ![c.idp].status = c.patch]
  /\ Return(v)
  /\ UNCHANGED <<members, refresh, history>>

DeleteSamlProvider(p) ==
  /\ Exists(p)
  /\ idps' = [idps EXCEPT ![p].status = "deleted"]
  /\ UNCHANGED <<members, visit, refresh, history>>

-----------------------------------------------------------------------------
(* refreshIdpMetadata: read the row, extract from the document read, write.*)
(* (Bound: one refresh of a provider at a time.)                           *)
StartRefresh(p) ==
  /\ Exists(p) /\ refresh[p] = -1
  /\ refresh' = [refresh EXCEPT ![p] = 0]
  /\ mixed' = (mixed \/ Busy)
  /\ UNCHANGED <<idps, members, visit, due, improper, signIns, orders>>

ReadProvider(p) ==
  /\ refresh[p] = 0
  /\ refresh' = [refresh EXCEPT ![p] = IF Exists(p) THEN idps[p].xml ELSE -1]
  /\ UNCHANGED <<idps, members, visit, history>>

WriteExtract(p) ==
  /\ refresh[p] > 0
  /\ idps' = IF Exists(p) THEN [idps EXCEPT ![p].extract = refresh[p], ![p].stale = FALSE]
             ELSE idps
  /\ refresh' = [refresh EXCEPT ![p] = -1]
  /\ UNCHANGED <<members, visit, history>>

(* 24 hours after the last refresh. *)
GrowStale(p) ==
  /\ Exists(p) /\ ~idps[p].stale
  /\ idps' = [idps EXCEPT ![p].stale = TRUE]
  /\ UNCHANGED <<members, visit, refresh, history>>

(* refreshStaleProvidersIfDue: the active ones that are stale, behind the  *)
(* sign-in that noticed.                                                   *)
Due == {p \in IdPs : idps[p].status = "active" /\ idps[p].stale /\ refresh[p] = -1}

-----------------------------------------------------------------------------
(* provisionSamlUser *)

(* The provider must be active.  *)
ProvisionSamlUser(v, p, m, asserted) ==
  /\ idps[p].status = "active"
  /\ Begin(v, [Idle EXCEPT !.pc = "user", !.idp = p, !.who = m, !.asserted = asserted])
  /\ refresh' = [q \in IdPs |-> IF q \in Due THEN 0 ELSE refresh[q]]
  /\ UNCHANGED <<idps, members, due, improper, orders>>

ReadUser(v) ==
  LET user == members[visit[v].who] IN
  /\ At(v, "user")
  /\ IF user.status = "none"
       THEN Goto(v, "insert")
       ELSE visit' = [visit EXCEPT ![v].pc = "merge", ![v].role = user.role,
                                   ![v].status = user.status]
  /\ UNCHANGED <<idps, members, refresh, history>>

(* A new account has the role asserted; the insert fails if the address    *)
(* was taken meanwhile.                                                    *)
InsertUser(v) ==
  LET c == visit[v] IN
  /\ At(v, "insert")
  /\ IF members[c.who].status = "none"
       THEN /\ members' = [members EXCEPT ![c.who] = [status |-> "active", role |-> c.asserted]]
            /\ due' = [due EXCEPT ![c.who] = c.asserted]
            /\ visit' = [visit EXCEPT ![v].pc = "check", ![v].status = "active"]
       ELSE UNCHANGED <<members, due>> /\ Return(v)
  /\ UNCHANGED <<idps, refresh, improper, mixed, signIns, orders>>

PickMaxRole(current, asserted) == IF asserted > current THEN asserted ELSE current

(* The higher of the role read and the role asserted. *)
MergeUser(v) ==
  LET c == visit[v] IN
  /\ At(v, "merge")
  /\ members' = [members EXCEPT ![c.who].role = PickMaxRole(c.role, c.asserted)]
  /\ due' = [due EXCEPT ![c.who] = PickMaxRole(@, c.asserted)]
  /\ Goto(v, "check")
  /\ UNCHANGED <<idps, refresh, improper, mixed, signIns, orders>>

(* A session, unless the status read with the row is suspended or deleted. *)
IssueSession(v) ==
  LET c == visit[v] IN
  /\ At(v, "check")
  /\ improper' = (improper \/ (c.status = "active" /\ members[c.who].status # "active"))
  /\ Return(v)
  /\ UNCHANGED <<idps, members, refresh, due, mixed, signIns, orders>>

-----------------------------------------------------------------------------
(* The administrator (module Accounts) between the steps: a role, a        *)
(* suspension or its end.                                                  *)
Administer(m, status, role) ==
  /\ members[m].status # "none" /\ orders < MaxOrders
  /\ members' = [members EXCEPT ![m] = [status |-> status, role |-> role]]
  /\ due' = [due EXCEPT ![m] = role]
  /\ orders' = orders + 1
  /\ mixed' = (mixed \/ Busy)
  /\ UNCHANGED <<idps, visit, refresh, improper, signIns>>

SamlRequest ==
  \/ \E p \in IdPs, status \in {"active", "paused"} : CreateSamlProvider(p, status)
  \/ \E p \in IdPs : DeleteSamlProvider(p) \/ StartRefresh(p)
  \/ \E v \in Visits, p \in IdPs :
       \/ \E patch \in {"active", "paused", "xml"} : UpdateSamlProvider(v, p, patch)
       \/ \E m \in Members, asserted \in Roles : ProvisionSamlUser(v, p, m, asserted)

VisitStep(v) ==
  WriteProvider(v) \/ ReadUser(v) \/ InsertUser(v) \/ MergeUser(v) \/ IssueSession(v)

Next ==
  \/ SamlRequest
  \/ \E v \in Visits : VisitStep(v)
  \/ \E p \in IdPs : ReadProvider(p) \/ WriteExtract(p) \/ GrowStale(p)
  \/ \E m \in Members, status \in {"active", "suspended"}, role \in Roles :
       Administer(m, status, role)

Spec == Init /\ [][Next]_vars

-----------------------------------------------------------------------------
(* Properties *)

(* As long as calls do not overlap, what is kept of a provider's metadata, *)
(* the address logins are sent to with it, is of the document on file,     *)
(* whatever patches and refreshes came before.                             *)
ExtractIsCurrent == ~mixed => \A p \in IdPs : idps[p].extract = idps[p].xml

(* As long as calls do not overlap, a member's role is the one the         *)
(* administrator gave, raised by the assertions since, never lowered.      *)
RoleIsDue ==
  ~mixed => \A m \in Members : members[m].status # "none" => members[m].role = due[m]

(* As long as calls do not overlap, no session for a suspended account.    *)
SessionsAreProper == ~mixed => ~improper

(* What refreshes and calls rely on: providers and members that are there; *)
(* and as long as calls do not overlap, that nobody changes the document   *)
(* or the account that was read.                                           *)
RefreshOK(p) ==
  /\ refresh[p] # -1 => idps[p].status # "none"
  /\ ~mixed /\ refresh[p] > 0 => refresh[p] = idps[p].xml
Alone == ~mixed => \A v, w \in Visits : ~At(v, "idle") /\ ~At(w, "idle") => v = w
VisitOK(v) ==
  LET c == visit[v] IN
  /\ c.pc = "update" => c.idp \in IdPs /\ (~mixed => \A p \in IdPs : refresh[p] = -1)
  /\ c.pc \in {"user", "insert", "merge", "check"} => c.who \in Members
  /\ ~mixed /\ c.pc \in {"merge", "check"} =>
       c.status # "none" /\ c.status = members[c.who].status
  /\ ~mixed /\ c.pc = "merge" => c.role = members[c.who].role

(* Types, current extracts, roles as due, proper sessions: with what       *)
(* they rest on, the inductive invariant.                                  *)
SamlInv ==
  /\ TypeOK /\ ExtractIsCurrent /\ RoleIsDue /\ SessionsAreProper
  /\ \A p \in IdPs : RefreshOK(p)
  /\ Alone /\ \A v \in Visits : VisitOK(v)
=============================================================================
