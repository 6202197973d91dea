------------------------------ MODULE Accounts ------------------------------
(***************************************************************************)
(* Administration of accounts (apps/api/src/modules/admin) and requests of *)
(* data subjects (apps/api/src/modules/gdpr).  Both write users.status: an *)
(* administrator changes roles, suspends and deletes, a confirmed deletion *)
(* request anonymises.  A call awaits its statements one by one; its own   *)
(* authentication, at the beginning, is one of them.                       *)
(*                                                                         *)
(* Learners and instructors are the same here: what counts is who is an    *)
(* administrator.  The ZIP of an export is known by its request.           *)
(***************************************************************************)
EXTENDS Naturals, FiniteSets, Sequences

CONSTANTS
  Users,         \* accounts
  Handlers,      \* calls that may be in flight at once
  Nobody,        \* no user
  MaxRequests,   \* bound: rows of data_requests
  MaxTasks,      \* bound: calls
  MaxMishaps     \* bound: crashes, failures of storage or mail

ASSUME AccountsAssumption ==
  /\ IsFiniteSet(Users)
  /\ Nobody \notin Users
  /\ MaxRequests \in Nat /\ MaxTasks \in Nat /\ MaxMishaps \in Nat

VARIABLES
  account,    \* users: role and status
  demoted,    \* users who may still have a token that claims they administer
  requests,   \* data_requests by creation time
  archive,    \* requests whose ZIP the storage holds
  task,       \* the calls in flight
  crossed,    \* history: have two calls ever been in flight at once?
  erased,     \* history: how an account was first anonymised
  started,    \* calls so far
  mishaps     \* crashes and failures so far

people == <<account, demoted, erased>>
data == <<requests, archive>>
vars == <<people, data, task, crossed, started, mishaps>>

Roles    == {"learner", "admin"}
Statuses == {"active", "suspended", "deleted"}
Account  == [role : Roles, status : Statuses]
Kinds    == {"export", "delete"}

(* late: requested more than 24 hours ago.  mailed: the link has reached   *)
(* the user's inbox.  The token is there as long as the status is pending. *)
Request == [user : Users, type : Kinds, late : BOOLEAN, mailed : BOOLEAN,
            status : {"pending", "processing", "completed", "failed"}]

Keep == "keep"   \* a field the patch leaves out
Step == {"idle", "target", "count", "role", "status", "bulk", "victim", "exports", "purge",
         "look", "insert", "mail", "link", "consume", "pack", "erase", "complete", "fail"}
Task == [pc : Step, actor : Users \union {Nobody}, target : Users \union {Nobody},
         ids : SUBSET Users, role : Roles \union {Keep}, status : Statuses \union {Keep},
         seen : Account, kind : Kinds, req : 0..MaxRequests]
Idle == [pc |-> "idle", actor |-> Nobody, target |-> Nobody, ids |-> {}, role |-> Keep,
         status |-> Keep, seen |-> [role |-> "learner", status |-> "active"],
         kind |-> "export", req |-> 0]

(* Accounts, requests and calls have their types. *)
TypeOK ==
  /\ account \in [Users -> Account]
  /\ demoted \in SUBSET Users
  /\ requests \in Seq(Request) /\ Len(requests) <= MaxRequests
  /\ archive \in SUBSET (1..MaxRequests)
  /\ task \in [Handlers -> Task]
  /\ crossed \in BOOLEAN
  /\ erased \in [Users -> {"no", "request", "admin"}]
  /\ started \in 0..MaxTasks
  /\ mishaps \in 0..MaxMishaps

Init ==
  /\ account \in [Users -> [role : Roles, status : {"active"}]]
  /\ \E u \in Users : account[u].role = "admin"
  /\ demoted = {}
  /\ requests = <<>>
  /\ archive = {}
  /\ task = [h \in Handlers |-> Idle]
  /\ crossed = FALSE
  /\ erased = [u \in Users |-> "no"]
  /\ started = 0
  /\ mishaps = 0

-----------------------------------------------------------------------------
(* Helpers *)

IsIdle(h) == task[h].pc = "idle"
At(h, step) == task[h].pc = step
Goto(h, step) == task' = [task EXCEPT ![h].pc = step]
Return(h) == task' = [task EXCEPT ![h] = Idle]
Begin(h, t) ==
  /\ IsIdle(h)
  /\ started < MaxTasks
  /\ started' = started + 1
  /\ task' = [task EXCEPT ![h] = t]
  /\ crossed' = (crossed \/ \E k \in Handlers \ {h} : ~IsIdle(k))
Mishap == mishaps < MaxMishaps /\ mishaps' = mishaps + 1

ActiveAdmins == {u \in Users : account[u].role = "admin" /\ account[u].status = "active"}

-----------------------------------------------------------------------------
(* plugins/auth.ts: the status is the row's, the role is the one the       *)
(* access token was signed with, at most 15 minutes ago.                   *)

Authenticated(u) == account[u].status = "active"
Admin(u) == Authenticated(u) /\ (account[u].role = "admin" \/ u \in demoted)

TokenExpires(u) ==
  /\ u \in demoted
  /\ demoted' = demoted \ {u}
  /\ UNCHANGED <<account, erased, data, task, crossed, started, mishaps>>

-----------------------------------------------------------------------------
(* updateUserRoleStatus *)

UpdateUser(h, actor, target, role, status) ==
  /\ Admin(actor)
  /\ Begin(h, [Idle EXCEPT !.pc = "target", !.actor = actor, !.target = target,
                           !.role = role, !.status = status])
  /\ UNCHANGED <<people, data, mishaps>>

ChangesRole(t, seen) == t.role \notin {Keep, seen.role}

(* Nobody takes their own admin role; another's goes on to be counted.     *)
ReadTarget(h) ==
  LET t == task[h]
      row == account[t.target]
      demotes == row.role = "admin" /\ ChangesRole(t, row)
  IN /\ At(h, "target")
     /\ IF row.status = "deleted" \/ (ChangesRole(t, row) /\ t.role # "admin" /\ t.target = t.actor)
          THEN Return(h)
          ELSE task' = [task EXCEPT ![h].seen = row,
                                    ![h].pc = IF demotes THEN "count"
                                              ELSE IF ChangesRole(t, row) THEN "role"
                                              ELSE "status"]
     /\ UNCHANGED <<people, data, crossed, started, mishaps>>

Mutant_CountAdmins_Anyone(h) ==
  /\ At(h, "count")
  /\ Goto(h, "role")
  /\ UNCHANGED <<people, data, crossed, started, mishaps>>

(* The last active administrator is not demoted. *)
CountAdmins(h) ==
  /\ At(h, "count")
  /\ IF Cardinality(ActiveAdmins) <= 1 THEN Return(h) ELSE Goto(h, "role")
  /\ UNCHANGED <<people, data, crossed, started, mishaps>>

SetRole(h) ==
  /\ At(h, "role")
  /\ account' = [account EXCEPT ![task[h].target].role = task[h].role]
  /\ demoted' = IF task[h].role = "admin" THEN demoted ELSE demoted \union {task[h].target}
  /\ Goto(h, "status")
  /\ UNCHANGED <<erased, data, crossed, started, mishaps>>

(* An administrator, by the row that was read, is suspended by nobody else. *)
SetStatus(h) ==
  LET t == task[h] IN
  /\ At(h, "status")
  /\ IF \/ t.status \in {Keep, t.seen.status}
        \/ t.status = "suspended" /\ t.seen.role = "admin" /\ t.target # t.actor
       THEN UNCHANGED account
       ELSE account' = [account EXCEPT ![t.target].status = t.status]
  /\ Return(h)
  /\ UNCHANGED <<demoted, erased, data, crossed, started, mishaps>>

-----------------------------------------------------------------------------
(* bulkSuspendUsers: one statement, never the actor or an administrator.   *)

BulkSuspendUsers(h, actor, ids) ==
  /\ Admin(actor)
  /\ ids # {}
  /\ Begin(h, [Idle EXCEPT !.pc = "bulk", !.actor = actor, !.ids = ids \ {actor}])
  /\ UNCHANGED <<people, data, mishaps>>

SuspendAll(h) ==
  LET suspended == {u \in task[h].ids : account[u].role # "admin"} IN
  /\ At(h, "bulk")
  /\ account' = [u \in Users |-> IF u \in suspended THEN [account[u] EXCEPT !.status = "suspended"]
                                 ELSE account[u]]
  /\ Return(h)
  /\ UNCHANGED <<demoted, erased, data, crossed, started, mishaps>>

-----------------------------------------------------------------------------
(* deleteUserViaGdpr *)

DeleteUserViaGdpr(h, actor, target) ==
  /\ Admin(actor)
  /\ target # actor
  /\ Begin(h, [Idle EXCEPT !.pc = "victim", !.actor = actor, !.target = target])
  /\ UNCHANGED <<people, data, mishaps>>

ReadVictim(h) ==
  /\ At(h, "victim")
  /\ IF account[task[h].target].role = "admin" THEN Return(h) ELSE Goto(h, "exports")
  /\ UNCHANGED <<people, data, crossed, started, mishaps>>

HasCompletedExport(u) ==
  \E r \in DOMAIN requests :
    requests[r].user = u /\ requests[r].type = "export" /\ requests[r].status = "completed"

Mutant_RequireExport_AnyStatus(h) ==
  /\ At(h, "exports")
  /\ IF \E r \in DOMAIN requests : requests[r].user = task[h].target /\ requests[r].type = "export"
       THEN Goto(h, "purge") ELSE Return(h)
  /\ UNCHANGED <<people, data, crossed, started, mishaps>>

RequireExport(h) ==
  /\ At(h, "exports")
  /\ IF HasCompletedExport(task[h].target) THEN Goto(h, "purge") ELSE Return(h)
  /\ UNCHANGED <<people, data, crossed, started, mishaps>>

(* The row is kept, its personal data is replaced. *)
AnonymiseUser(u, who) ==
  /\ account' = [account EXCEPT ![u].status = "deleted"]
  /\ erased' = [erased EXCEPT ![u] = IF @ = "no" THEN who ELSE @]

Purge(h) ==
  /\ At(h, "purge")
  /\ AnonymiseUser(task[h].target, "admin")
  /\ Return(h)
  /\ UNCHANGED <<demoted, data, crossed, started, mishaps>>

-----------------------------------------------------------------------------
(* requestDataAction, by the user or by an administrator for them *)

RequestDataAction(h, actor, user, kind) ==
  /\ \/ actor = user /\ Authenticated(user)
     \/ Admin(actor)
  /\ Begin(h, [Idle EXCEPT !.pc = "look", !.actor = actor, !.target = user, !.kind = kind])
  /\ UNCHANGED <<people, data, mishaps>>

Pending(u, kind) ==
  {r \in DOMAIN requests : /\ requests[r].user = u /\ requests[r].type = kind
                           /\ requests[r].status = "pending" /\ ~requests[r].late}

(* A confirmation still valid is not sent again ... *)
LookForPending(h) ==
  /\ At(h, "look")
  /\ IF Pending(task[h].target, task[h].kind) # {} THEN Return(h) ELSE Goto(h, "insert")
  /\ UNCHANGED <<people, data, crossed, started, mishaps>>

(* ... and else a request is made ... *)
InsertRequest(h) ==
  LET t == task[h] IN
  /\ At(h, "insert")
  /\ Len(requests) < MaxRequests
  /\ requests' = Append(requests, [user |-> t.target, type |-> t.kind, late |-> FALSE,
                                   mailed |-> FALSE, status |-> "pending"])
  /\ task' = [task EXCEPT ![h].pc = "mail", ![h].req = Len(requests) + 1]
  /\ UNCHANGED <<people, archive, crossed, started, mishaps>>

(* ... and its link mailed, to no one if the account is anonymised.        *)
SendConfirmationEmail(h) ==
  LET t == task[h] IN
  /\ At(h, "mail")
  /\ requests' = [requests EXCEPT ![t.req].mailed = (account[t.target].status # "deleted")]
  /\ Return(h)
  /\ UNCHANGED <<people, archive, crossed, started, mishaps>>

(* A mail that fails is logged and forgotten. *)
ConfirmationEmailFails(h) ==
  /\ At(h, "mail")
  /\ Mishap
  /\ Return(h)
  /\ UNCHANGED <<people, data, crossed, started>>

LinkExpires(r) ==
  /\ requests[r].status = "pending" /\ ~requests[r].late
  /\ requests' = [requests EXCEPT ![r].late = TRUE]
  /\ UNCHANGED <<people, archive, task, crossed, started, mishaps>>

-----------------------------------------------------------------------------
(* confirmDataRequest: whoever has the link, with or without a session. *)

ConfirmDataRequest(h, r) ==
  /\ requests[r].mailed
  /\ Begin(h, [Idle EXCEPT !.pc = "link", !.target = requests[r].user,
                           !.kind = requests[r].type, !.req = r])
  /\ UNCHANGED <<people, data, mishaps>>

Subject(h) == task[h].target
Current(h) == requests[task[h].req]
SetRequest(h, s) == requests' = [requests EXCEPT ![task[h].req].status = s]

Mutant_ReadRequest_Again(h) ==
  /\ At(h, "link")
  /\ IF ~Current(h).late THEN Goto(h, "consume") ELSE Return(h)
  /\ UNCHANGED <<people, data, crossed, started, mishaps>>

ReadRequest(h) ==
  /\ At(h, "link")
  /\ IF Current(h).status = "pending" /\ ~Current(h).late THEN Goto(h, "consume") ELSE Return(h)
  /\ UNCHANGED <<people, data, crossed, started, mishaps>>

(* The token is consumed before the work is done. *)
ConsumeToken(h) ==
  /\ At(h, "consume")
  /\ SetRequest(h, "processing")
  /\ Goto(h, IF task[h].kind = "export" THEN "pack" ELSE "erase")
  /\ UNCHANGED <<people, archive, crossed, started, mishaps>>

BuildAndStoreExport(h) ==
  /\ At(h, "pack")
  /\ archive' = archive \union {task[h].req}
  /\ Goto(h, "complete")
  /\ UNCHANGED <<people, requests, crossed, started, mishaps>>

Erase(h) ==
  /\ At(h, "erase")
  /\ AnonymiseUser(Subject(h), "request")
  /\ Goto(h, "complete")
  /\ UNCHANGED <<demoted, data, crossed, started, mishaps>>

(* What throws on the way is caught, and the request fails. *)
ProcessingThrows(h) ==
  /\ task[h].pc \in {"pack", "erase", "complete"}
  /\ Mishap
  /\ Goto(h, "fail")
  /\ UNCHANGED <<people, data, crossed, started>>

CompleteRequest(h) ==
  /\ At(h, "complete")
  /\ SetRequest(h, "completed")
  /\ Return(h)
  /\ UNCHANGED <<people, archive, crossed, started, mishaps>>

FailRequest(h) ==
  /\ At(h, "fail")
  /\ SetRequest(h, "failed")
  /\ Return(h)
  /\ UNCHANGED <<people, archive, crossed, started, mishaps>>

(* downloadExport, by the user of the request. *)
DownloadExport(u, r) ==
  IF /\ requests[r].user = u /\ requests[r].type = "export"
     /\ requests[r].status = "completed" /\ r \in archive
    THEN "200" ELSE "404"

(* The process dies. *)
Crash(h) ==
  /\ ~IsIdle(h)
  /\ Mishap
  /\ Return(h)
  /\ UNCHANGED <<people, data, crossed, started>>

-----------------------------------------------------------------------------
AdminRequest ==
  \E h \in Handlers, actor \in Users :
    \/ \E target \in Users :
         \/ \E role \in Roles \union {Keep}, status \in {"active", "suspended", Keep} :
              UpdateUser(h, actor, target, role, status)
         \/ DeleteUserViaGdpr(h, actor, target)
    \/ \E ids \in SUBSET Users : BulkSuspendUsers(h, actor, ids)

GdprRequest ==
  \E h \in Handlers :
    \/ \E actor, user \in Users, kind \in Kinds : RequestDataAction(h, actor, user, kind)
    \/ \E r \in DOMAIN requests : ConfirmDataRequest(h, r)

TaskStep(h) ==
  \/ ReadTarget(h) \/ CountAdmins(h) \/ SetRole(h) \/ SetStatus(h)
  \/ SuspendAll(h)
  \/ ReadVictim(h) \/ RequireExport(h) \/ Purge(h)
  \/ LookForPending(h) \/ InsertRequest(h) \/ SendConfirmationEmail(h)
  \/ ReadRequest(h) \/ ConsumeToken(h) \/ BuildAndStoreExport(h) \/ Erase(h)
  \/ CompleteRequest(h) \/ FailRequest(h)

Failure(h) == ConfirmationEmailFails(h) \/ ProcessingThrows(h) \/ Crash(h)

Next ==
  \/ AdminRequest \/ GdprRequest
  \/ \E h \in Handlers : TaskStep(h) \/ Failure(h)
  \/ \E u \in Users : TokenExpires(u)
  \/ \E r \in DOMAIN requests : LinkExpires(r)

Spec == Init /\ [][Next]_vars

-----------------------------------------------------------------------------
(* Properties *)

(* Safety: an export that says completed can be downloaded by its user. *)
ExportsDownloadable ==
  \A r \in DOMAIN requests :
    requests[r].type = "export" /\ requests[r].status = "completed" =>
      DownloadExport(requests[r].user, r) = "200"

(* A completed deletion has anonymised its user. *)
DeletionsDone ==
  \A r \in DOMAIN requests :
    requests[r].type = "delete" /\ requests[r].status = "completed" =>
      erased[requests[r].user] # "no"

(* Nobody is deleted by an administrator whose data was not exported. *)
Exported(u) == \E r \in archive \intersect DOMAIN requests :
                 requests[r].user = u /\ requests[r].type = "export"
ExportComesFirst == \A u \in Users : erased[u] = "admin" => Exported(u)

(* What a call in flight relies on. *)
TaskOK(h) ==
  LET t == task[h] IN
  /\ t.pc \notin {"idle", "bulk"} => t.target \in Users
  /\ t.pc \in {"count", "role"} => t.role # Keep
  /\ t.status # "deleted"
  /\ t.pc \in {"mail", "link", "consume", "pack", "erase", "complete", "fail"} =>
       /\ t.req \in DOMAIN requests
       /\ Current(h).user = t.target /\ Current(h).type = t.kind
  /\ t.pc = "pack" => t.kind = "export"
  /\ t.pc = "erase" => t.kind = "delete"
  /\ t.pc = "complete" => IF t.kind = "export" THEN t.req \in archive ELSE erased[t.target] # "no"
  /\ t.pc = "purge" => Exported(t.target)

(* The inductive invariant: whatever overlaps and whatever fails, a        *)
(* completed request is a request carried out, and no administrator        *)
(* deletes an account before its data was exported.                        *)
IInv ==
  /\ TypeOK
  /\ ExportsDownloadable /\ DeletionsDone /\ ExportComesFirst
  /\ \A h \in Handlers : TaskOK(h)

(* Safety, as long as calls do not overlap: a user has one valid           *)
(* confirmation link at most for what they asked.                          *)
OneLink ==
  ~crossed => \A u \in Users, kind \in Kinds : Cardinality(Pending(u, kind)) <= 1

(* Whoever confirms has received the link: it is mailed once, by the call  *)
(* that made the request.                                                  *)
LinksReceived ==
  \A h \in Handlers :
    /\ At(h, "mail") =>
         /\ ~Current(h).mailed
         /\ \A k \in Handlers : At(k, "mail") /\ task[k].req = task[h].req => k = h
    /\ task[h].pc \in {"link", "consume", "pack", "erase", "complete", "fail"} =>
         Current(h).mailed

(* Of accounts and data requests: what is completed was carried out, no    *)
(* account deleted before its export, one valid link at most.              *)
AccountsInv == IInv /\ OneLink /\ LinksReceived

(* Accounts and requests implement what DataRights promises.               *)
Matter(r) == <<requests[r].user, requests[r].type>>
Invited == {Matter(r) : r \in {q \in DOMAIN requests : requests[q].mailed}}
Reported == {Matter(r) : r \in {q \in DOMAIN requests : requests[q].status = "completed"}}
Rights == INSTANCE DataRights WITH
  invited <- Invited, exported <- {u \in Users : Exported(u)}, reported <- Reported
RightsSpec == Rights!Spec

(* Action property, as long as calls do not overlap: who takes an active   *)
(* administrator's role leaves another one.                                *)
DemotionLeavesAdmin ==
  [][~crossed /\ (\E u \in ActiveAdmins : account'[u].role # "admin") => ActiveAdmins' # {}]_vars

(* Action property, as long as calls do not overlap: a request settled     *)
(* stays as it was settled; its link does nothing more.                    *)
SettledOnce ==
  [][~crossed => \A r \in DOMAIN requests :
       requests[r].status \in {"completed", "failed"} =>
         requests'[r].status = requests[r].status]_vars
=============================================================================
