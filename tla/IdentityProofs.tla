--------------------------- MODULE IdentityProofs ---------------------------
(***************************************************************************)
(* What the platform guarantees of who a person is: of administration and  *)
(* data requests, for any number of accounts, requests and calls; then     *)
(* sign-in with Google or Microsoft, SAML sign-in, LTI launches and        *)
(* sessions, each with its inductive invariant, for any number of calls    *)
(* that overlap. Each part says first what a step of one call leaves       *)
(* alone, then takes the steps one by one.                                 *)
(***************************************************************************)
EXTENDS Identity, Integers, FiniteSetTheorems, SequenceTheorems, TLAPS

USE AccountsAssumption

-----------------------------------------------------------------------------
(* Types *)

LEMMA StepNames ==
  Step = {"idle", "target", "count", "role", "status", "bulk", "victim", "exports", "purge",
          "look", "insert", "mail", "link", "consume", "pack", "erase", "complete", "fail"}
  BY DEF Step

LEMMA IdleType == Idle \in Task
  BY DEF Idle, Task, Step, Account, Roles, Statuses, Keep, Kinds

LEMMA TypeInit == Init => TypeOK
<1> SUFFICES ASSUME Init PROVE TypeOK
  OBVIOUS
<1>1. task \in [Handlers -> Task]
  BY IdleType DEF Init
<1>2. account \in [Users -> Account]
  BY DEF Init, Account, Statuses
<1>3. requests \in Seq(Request) /\ Len(requests) <= MaxRequests
  BY DEF Init
<1>4. archive \in SUBSET (1..MaxRequests) /\ erased \in [Users -> {"no", "request", "admin"}]
  BY DEF Init
<1>5. started \in 0..MaxTasks /\ mishaps \in 0..MaxMishaps
  BY DEF Init
<1> QED BY <1>1, <1>2, <1>3, <1>4, <1>5 DEF Init, TypeOK

(* The record of a call keeps its type whichever way the call moves.       *)
LEMMA TaskMoves ==
  ASSUME task \in [Handlers -> Task], NEW h \in Handlers
  PROVE  /\ task[h] \in Task
         /\ \A s \in Step : Goto(h, s) => task' \in [Handlers -> Task]
         /\ Return(h) => task' \in [Handlers -> Task]
         /\ \A t \in Task : Begin(h, t) => task' \in [Handlers -> Task]
<1>1. ASSUME NEW s \in Step, Goto(h, s) PROVE task' \in [Handlers -> Task]
  <2>1. [task[h] EXCEPT !.pc = s] \in Task
    BY DEF Task
  <2> QED BY <1>1, <2>1 DEF Goto
<1>2. Return(h) => task' \in [Handlers -> Task]
  BY IdleType DEF Return
<1> QED BY <1>1, <1>2 DEF Begin

(* A request keeps its user and its kind whatever becomes of it.           *)
LEMMA RequestMoves ==
  ASSUME requests \in Seq(Request), NEW r \in DOMAIN requests,
         \/ \E s \in {"pending", "processing", "completed", "failed"} :
              requests' = [requests EXCEPT ![r].status = s]
         \/ \E b \in BOOLEAN : requests' = [requests EXCEPT ![r].mailed = b]
         \/ requests' = [requests EXCEPT ![r].late = TRUE]
  PROVE  /\ requests' \in Seq(Request) /\ Len(requests') = Len(requests)
         /\ \A k \in DOMAIN requests :
              /\ k \in DOMAIN requests'
              /\ requests'[k].user = requests[k].user /\ requests'[k].type = requests[k].type
<1>0. requests[r] \in Request
  OBVIOUS
<1>1. ASSUME NEW q \in Request, q.user = requests[r].user, q.type = requests[r].type,
             requests' = [requests EXCEPT ![r] = q]
      PROVE  /\ requests' \in Seq(Request) /\ Len(requests') = Len(requests)
             /\ \A k \in DOMAIN requests :
                  /\ k \in DOMAIN requests'
                  /\ requests'[k].user = requests[k].user /\ requests'[k].type = requests[k].type
  BY <1>1
<1>2. CASE \E s \in {"pending", "processing", "completed", "failed"} :
             requests' = [requests EXCEPT ![r].status = s]
  <2>1. PICK s \in {"pending", "processing", "completed", "failed"} :
               requests' = [requests EXCEPT ![r] = [requests[r] EXCEPT !.status = s]]
    BY <1>2
  <2>2. /\ [requests[r] EXCEPT !.status = s] \in Request
        /\ [requests[r] EXCEPT !.status = s].user = requests[r].user
        /\ [requests[r] EXCEPT !.status = s].type = requests[r].type
    BY <1>0 DEF Request
  <2> QED BY <1>1, <2>1, <2>2
<1>3. CASE \E b \in BOOLEAN : requests' = [requests EXCEPT ![r].mailed = b]
  <2>1. PICK b \in BOOLEAN :
               requests' = [requests EXCEPT ![r] = [requests[r] EXCEPT !.mailed = b]]
    BY <1>3
  <2>2. /\ [requests[r] EXCEPT !.mailed = b] \in Request
        /\ [requests[r] EXCEPT !.mailed = b].user = requests[r].user
        /\ [requests[r] EXCEPT !.mailed = b].type = requests[r].type
    BY <1>0 DEF Request
  <2> QED BY <1>1, <2>1, <2>2
<1>4. CASE requests' = [requests EXCEPT ![r].late = TRUE]
  <2>1. requests' = [requests EXCEPT ![r] = [requests[r] EXCEPT !.late = TRUE]]
    BY <1>4
  <2>2. /\ [requests[r] EXCEPT !.late = TRUE] \in Request
        /\ [requests[r] EXCEPT !.late = TRUE].user = requests[r].user
        /\ [requests[r] EXCEPT !.late = TRUE].type = requests[r].type
    BY <1>0 DEF Request
  <2> QED BY <1>1, <2>1, <2>2
<1> QED BY <1>2, <1>3, <1>4

LEMMA TypeStep == IInv /\ [Next]_vars => TypeOK'
<1> SUFFICES ASSUME IInv, [Next]_vars PROVE TypeOK'
  OBVIOUS
<1>0. TypeOK /\ \A h \in Handlers : TaskOK(h)
  BY DEF IInv
<1> USE DEF TypeOK, people, data
<1>1. ASSUME NEW h \in Handlers, NEW t \in Task, Begin(h, t), UNCHANGED <<people, data, mishaps>>
      PROVE  TypeOK'
  <2>1. task' \in [Handlers -> Task]
    BY <1>0, <1>1, TaskMoves
  <2>2. started' \in 0..MaxTasks /\ crossed' \in BOOLEAN
    BY <1>0, <1>1 DEF Begin
  <2> QED BY <1>0, <1>1, <2>1, <2>2
<1>2. ASSUME AdminRequest PROVE TypeOK'
  <2>1. ASSUME NEW h \in Handlers, NEW actor \in Users, NEW target \in Users,
               NEW role \in Roles \union {Keep}, NEW status \in {"active", "suspended", Keep},
               UpdateUser(h, actor, target, role, status)
        PROVE  TypeOK'
    <3>1. [Idle EXCEPT !.pc = "target", !.actor = actor, !.target = target,
                       !.role = role, !.status = status] \in Task
      BY IdleType, StepNames DEF Task, Statuses
    <3> QED BY <1>1, <2>1, <3>1 DEF UpdateUser
  <2>2. ASSUME NEW h \in Handlers, NEW actor \in Users, NEW target \in Users,
               DeleteUserViaGdpr(h, actor, target)
        PROVE  TypeOK'
    <3>1. [Idle EXCEPT !.pc = "victim", !.actor = actor, !.target = target] \in Task
      BY IdleType, StepNames DEF Task
    <3> QED BY <1>1, <2>2, <3>1 DEF DeleteUserViaGdpr
  <2>3. ASSUME NEW h \in Handlers, NEW actor \in Users, NEW ids \in SUBSET Users,
               BulkSuspendUsers(h, actor, ids)
        PROVE  TypeOK'
    <3>1. [Idle EXCEPT !.pc = "bulk", !.actor = actor, !.ids = ids \ {actor}] \in Task
      BY IdleType, StepNames DEF Task
    <3> QED BY <1>1, <2>3, <3>1 DEF BulkSuspendUsers
  <2> QED BY <1>2, <2>1, <2>2, <2>3 DEF AdminRequest
<1>3. ASSUME GdprRequest PROVE TypeOK'
  <2>1. ASSUME NEW h \in Handlers, NEW actor \in Users, NEW user \in Users, NEW kind \in Kinds,
               RequestDataAction(h, actor, user, kind)
        PROVE  TypeOK'
    <3>1. [Idle EXCEPT !.pc = "look", !.actor = actor, !.target = user, !.kind = kind] \in Task
      BY IdleType, StepNames DEF Task
    <3> QED BY <1>1, <2>1, <3>1 DEF RequestDataAction
  <2>2. ASSUME NEW h \in Handlers, NEW r \in DOMAIN requests, ConfirmDataRequest(h, r)
        PROVE  TypeOK'
    <3>0. requests[r] \in Request /\ r \in 0..MaxRequests
      BY <1>0
    <3>1. requests[r].user \in Users /\ requests[r].type \in Kinds
      BY <3>0 DEF Request
    <3>2. [Idle EXCEPT !.pc = "link", !.target = requests[r].user,
                       !.kind = requests[r].type, !.req = r] \in Task
      BY <3>0, <3>1, IdleType, StepNames DEF Task
    <3> QED BY <1>1, <2>2, <3>2 DEF ConfirmDataRequest
  <2> QED BY <1>3, <2>1, <2>2 DEF GdprRequest
<1>4. ASSUME NEW h \in Handlers, TaskStep(h) \/ Failure(h) PROVE TypeOK'
  <2>0. /\ task[h] \in Task /\ TaskOK(h)
        /\ \A s \in Step : Goto(h, s) => task' \in [Handlers -> Task]
        /\ Return(h) => task' \in [Handlers -> Task]
    BY <1>0, TaskMoves
  <2>a. ASSUME NEW s \in {"processing", "completed", "failed"},
               task[h].req \in DOMAIN requests, SetRequest(h, s)
        PROVE  requests' \in Seq(Request) /\ Len(requests') <= MaxRequests
    BY <1>0, <2>a, RequestMoves DEF SetRequest
  <2>1. CASE ReadTarget(h)
    <3>1. task[h].target \in Users /\ account[task[h].target] \in Account
      BY <1>0, <2>0, <2>1 DEF ReadTarget, At, TaskOK
    <3>2. ASSUME NEW s \in Step
          PROVE  [task[h] EXCEPT !.seen = account[task[h].target], !.pc = s] \in Task
      BY <2>0, <3>1 DEF Task
    <3>3. \/ Return(h)
          \/ \E s \in Step : task' = [task EXCEPT ![h] =
               [task[h] EXCEPT !.seen = account[task[h].target], !.pc = s]]
      BY <1>0, <2>1, StepNames DEF ReadTarget
    <3>4. task' \in [Handlers -> Task]
      BY <1>0, <2>0, <3>2, <3>3
    <3> QED BY <1>0, <2>1, <3>4 DEF ReadTarget
  <2>2. CASE \/ CountAdmins(h) \/ ReadVictim(h) \/ RequireExport(h) \/ LookForPending(h)
             \/ ReadRequest(h)
    <3>1. task' \in [Handlers -> Task]
      BY <2>0, <2>2, StepNames
         DEF CountAdmins, ReadVictim, RequireExport, LookForPending, ReadRequest
    <3> QED BY <1>0, <2>2, <3>1
            DEF CountAdmins, ReadVictim, RequireExport, LookForPending, ReadRequest
  <2>3. CASE SetRole(h)
    <3>1. task[h].target \in Users /\ task[h].role \in Roles
      BY <2>0, <2>3 DEF SetRole, At, TaskOK, Task
    <3>2. [account[task[h].target] EXCEPT !.role = task[h].role] \in Account
      BY <1>0, <3>1 DEF Account
    <3>3. account' = [account EXCEPT ![task[h].target] =
                        [account[task[h].target] EXCEPT !.role = task[h].role]]
      BY <2>3 DEF SetRole
    <3>4. account' \in [Users -> Account] /\ demoted' \in SUBSET Users
      BY <1>0, <2>3, <3>1, <3>2, <3>3 DEF SetRole
    <3> QED BY <1>0, <2>0, <2>3, <3>4, StepNames DEF SetRole
  <2>4. CASE SetStatus(h)
    <3>1. task[h].target \in Users /\ task[h].status \in Statuses \union {Keep}
      BY <2>0, <2>4 DEF SetStatus, At, TaskOK, Task
    <3>2. ASSUME task[h].status # Keep,
                 account' = [account EXCEPT ![task[h].target].status = task[h].status]
          PROVE  account' \in [Users -> Account]
      <4>1. [account[task[h].target] EXCEPT !.status = task[h].status] \in Account
        BY <1>0, <3>1, <3>2 DEF Account
      <4> QED BY <1>0, <3>1, <3>2, <4>1
    <3>3. account' \in [Users -> Account]
      BY <1>0, <2>4, <3>2 DEF SetStatus
    <3> QED BY <1>0, <2>0, <2>4, <3>3 DEF SetStatus
  <2>5. CASE SuspendAll(h)
    <3>1. \A u \in Users : [account[u] EXCEPT !.status = "suspended"] \in Account
      BY <1>0 DEF Account, Statuses
    <3>2. account' \in [Users -> Account]
      BY <1>0, <2>5, <3>1 DEF SuspendAll
    <3> QED BY <1>0, <2>0, <2>5, <3>2 DEF SuspendAll
  <2>6. CASE Purge(h) \/ Erase(h)
    <3>1. /\ task[h].target \in Users
          /\ \E who \in {"request", "admin"} : AnonymiseUser(task[h].target, who)
      BY <2>0, <2>6 DEF Purge, Erase, At, TaskOK, Subject
    <3>2. [account[task[h].target] EXCEPT !.status = "deleted"] \in Account
      BY <1>0, <3>1 DEF Account, Statuses
    <3>3. account' = [account EXCEPT ![task[h].target] =
                        [account[task[h].target] EXCEPT !.status = "deleted"]]
      BY <3>1 DEF AnonymiseUser
    <3>4. account' \in [Users -> Account]
      BY <1>0, <3>1, <3>2, <3>3
    <3>5. erased' \in [Users -> {"no", "request", "admin"}]
      BY <1>0, <3>1 DEF AnonymiseUser
    <3>6. task' \in [Handlers -> Task]
      BY <2>0, <2>6, StepNames DEF Purge, Erase
    <3> QED BY <1>0, <2>6, <3>4, <3>5, <3>6 DEF Purge, Erase
  <2>7. CASE InsertRequest(h)
    <3>1. task[h].target \in Users /\ task[h].kind \in Kinds
      BY <2>0, <2>7 DEF InsertRequest, At, TaskOK, Task
    <3>2. [user |-> task[h].target, type |-> task[h].kind, late |-> FALSE,
           mailed |-> FALSE, status |-> "pending"] \in Request
      BY <3>1 DEF Request
    <3>3. requests' \in Seq(Request) /\ Len(requests') <= MaxRequests
      BY <1>0, <2>7, <3>2 DEF InsertRequest
    <3>4. Len(requests) + 1 \in 0..MaxRequests
      BY <1>0, <2>7 DEF InsertRequest
    <3>5. [task[h] EXCEPT !.pc = "mail", !.req = Len(requests) + 1] \in Task
      BY <2>0, <3>4, StepNames DEF Task
    <3>6. task' = [task EXCEPT ![h] =
                     [task[h] EXCEPT !.pc = "mail", !.req = Len(requests) + 1]]
      BY <1>0, <2>7 DEF InsertRequest
    <3>7. task' \in [Handlers -> Task]
      BY <1>0, <3>5, <3>6
    <3> QED BY <1>0, <2>7, <3>3, <3>7 DEF InsertRequest
  <2>8. CASE SendConfirmationEmail(h)
    <3>1. task[h].req \in DOMAIN requests
      BY <2>0, <2>8 DEF SendConfirmationEmail, At, TaskOK
    <3>2. \E b \in BOOLEAN : requests' = [requests EXCEPT ![task[h].req].mailed = b]
      BY <2>8 DEF SendConfirmationEmail
    <3>3. requests' \in Seq(Request) /\ Len(requests') <= MaxRequests
      BY <1>0, <3>1, <3>2, RequestMoves
    <3> QED BY <1>0, <2>0, <2>8, <3>3 DEF SendConfirmationEmail
  <2>9. CASE ConsumeToken(h) \/ CompleteRequest(h) \/ FailRequest(h)
    <3>1. task[h].req \in DOMAIN requests
      BY <2>0, <2>9 DEF ConsumeToken, CompleteRequest, FailRequest, At, TaskOK
    <3>2. requests' \in Seq(Request) /\ Len(requests') <= MaxRequests
      BY <2>a, <2>9, <3>1 DEF ConsumeToken, CompleteRequest, FailRequest
    <3>3. task' \in [Handlers -> Task]
      BY <2>0, <2>9, StepNames DEF ConsumeToken, CompleteRequest, FailRequest
    <3> QED BY <1>0, <2>9, <3>2, <3>3 DEF ConsumeToken, CompleteRequest, FailRequest
  <2>10. CASE BuildAndStoreExport(h)
    <3>1. task[h].req \in DOMAIN requests
      BY <2>0, <2>10 DEF BuildAndStoreExport, At, TaskOK
    <3>2. task[h].req \in 1..MaxRequests
      BY <1>0, <3>1
    <3>3. archive' \in SUBSET (1..MaxRequests)
      BY <1>0, <2>10, <3>2 DEF BuildAndStoreExport
    <3>4. task' \in [Handlers -> Task]
      BY <2>0, <2>10, StepNames DEF BuildAndStoreExport
    <3> QED BY <1>0, <2>10, <3>3, <3>4 DEF BuildAndStoreExport
  <2>11. CASE Failure(h)
    <3>1. task' \in [Handlers -> Task]
      BY <2>0, <2>11, StepNames DEF Failure, ConfirmationEmailFails, ProcessingThrows, Crash
    <3>2. mishaps' \in 0..MaxMishaps
      BY <1>0, <2>11 DEF Failure, ConfirmationEmailFails, ProcessingThrows, Crash, Mishap
    <3> QED BY <1>0, <2>11, <3>1, <3>2
            DEF Failure, ConfirmationEmailFails, ProcessingThrows, Crash
  <2> QED BY <1>4, <2>1, <2>2, <2>3, <2>4, <2>5, <2>6, <2>7, <2>8, <2>9, <2>10, <2>11
          DEF TaskStep
<1>5. ASSUME NEW u \in Users, TokenExpires(u) PROVE TypeOK'
  BY <1>0, <1>5 DEF TokenExpires
<1>6. ASSUME NEW r \in DOMAIN requests, LinkExpires(r) PROVE TypeOK'
  <2>1. requests' \in Seq(Request) /\ Len(requests') <= MaxRequests
    BY <1>0, <1>6, RequestMoves DEF LinkExpires
  <2> QED BY <1>0, <1>6, <2>1 DEF LinkExpires
<1>7. CASE UNCHANGED vars
  BY <1>0, <1>7 DEF vars
<1> QED BY <1>2, <1>3, <1>4, <1>5, <1>6, <1>7 DEF Next

-----------------------------------------------------------------------------
(* Requests and erasures *)

(* A request stays the request of its user and its kind, a new one is      *)
(* pending, and it takes CompleteRequest to complete one.                  *)
LEMMA RequestsStep ==
  ASSUME IInv, Next
  PROVE  /\ \A r \in DOMAIN requests :
              /\ r \in DOMAIN requests'
              /\ requests'[r].user = requests[r].user /\ requests'[r].type = requests[r].type
              /\ \/ requests'[r].status # "completed"
                 \/ requests[r].status = "completed"
                 \/ \E h \in Handlers : CompleteRequest(h) /\ task[h].req = r
         /\ \A r \in DOMAIN requests' :
              r \in DOMAIN requests \/ requests'[r].status = "pending"
<1>0. requests \in Seq(Request) /\ task \in [Handlers -> Task]
  BY DEF IInv, TypeOK
<1>1. ASSUME NEW h \in Handlers, InsertRequest(h)
      PROVE  /\ \A r \in DOMAIN requests : r \in DOMAIN requests' /\ requests'[r] = requests[r]
             /\ \A r \in DOMAIN requests' :
                  r \in DOMAIN requests \/ requests'[r].status = "pending"
  <2>1. task[h] \in Task /\ task[h].target \in Users
    BY <1>0, <1>1 DEF IInv, TaskOK, InsertRequest, At
  <2>2. PICK q \in Request : q.status = "pending" /\ requests' = Append(requests, q)
    <3>1. [user |-> task[h].target, type |-> task[h].kind, late |-> FALSE,
           mailed |-> FALSE, status |-> "pending"] \in Request
      BY <2>1 DEF Request, Task
    <3> QED BY <1>1, <3>1 DEF InsertRequest
  <2> QED BY <1>0, <2>2
<1>2. ASSUME NEW h \in Handlers,
             \/ SendConfirmationEmail(h)
             \/ ConsumeToken(h)
             \/ FailRequest(h)
             \/ CompleteRequest(h)
      PROVE  /\ task[h].req \in DOMAIN requests
             /\ \/ \E b \in BOOLEAN : requests' = [requests EXCEPT ![task[h].req].mailed = b]
                \/ \E s \in {"processing", "failed"} :
                     requests' = [requests EXCEPT ![task[h].req].status = s]
                \/ /\ CompleteRequest(h)
                   /\ requests' = [requests EXCEPT ![task[h].req].status = "completed"]
  <2>1. task[h].req \in DOMAIN requests
    BY <1>0, <1>2 DEF IInv, TaskOK, SendConfirmationEmail, ConsumeToken, FailRequest,
      CompleteRequest, At
  <2> QED BY <1>2, <2>1 DEF SendConfirmationEmail, ConsumeToken, FailRequest, CompleteRequest,
        SetRequest
<1>3. CASE \E h \in Handlers : InsertRequest(h)
  BY <1>1, <1>3
<1>4. ASSUME NEW h \in Handlers,
             \/ SendConfirmationEmail(h)
             \/ ConsumeToken(h)
             \/ FailRequest(h)
             \/ CompleteRequest(h)
      PROVE  /\ \A r \in DOMAIN requests :
                  /\ r \in DOMAIN requests'
                  /\ requests'[r].user = requests[r].user /\ requests'[r].type = requests[r].type
                  /\ \/ requests'[r].status # "completed"
                     \/ requests[r].status = "completed"
                     \/ CompleteRequest(h) /\ task[h].req = r
             /\ DOMAIN requests' = DOMAIN requests
  <2>1. PICK r \in DOMAIN requests : r = task[h].req
    BY <1>2, <1>4
  <2>2. /\ requests' \in Seq(Request) /\ Len(requests') = Len(requests)
        /\ \A k \in DOMAIN requests :
             /\ k \in DOMAIN requests'
             /\ requests'[k].user = requests[k].user /\ requests'[k].type = requests[k].type
    BY <1>0, <1>2, <1>4, <2>1, RequestMoves
  <2>3. ASSUME NEW k \in DOMAIN requests, k # r PROVE requests'[k] = requests[k]
    BY <1>0, <1>2, <1>4, <2>1, <2>3
  <2>4. ASSUME ~CompleteRequest(h)
        PROVE  requests'[r].status # "completed" \/ requests[r].status = "completed"
    <3>0. requests[r] \in Request
      BY <1>0
    <3>1. CASE \E b \in BOOLEAN : requests' = [requests EXCEPT ![r].mailed = b]
      BY <1>0, <3>0, <3>1 DEF Request
    <3>2. CASE \E s \in {"processing", "failed"} : requests' = [requests EXCEPT ![r].status = s]
      BY <1>0, <3>0, <3>2 DEF Request
    <3> QED BY <1>2, <1>4, <2>1, <2>4, <3>1, <3>2
  <2>5. DOMAIN requests' = DOMAIN requests
    BY <1>0, <2>2
  <2>6. ASSUME NEW k \in DOMAIN requests
        PROVE  \/ requests'[k].status # "completed"
               \/ requests[k].status = "completed"
               \/ CompleteRequest(h) /\ task[h].req = k
    BY <2>1, <2>3, <2>4
  <2> QED BY <2>2, <2>5, <2>6
<1>5. ASSUME NEW r \in DOMAIN requests, LinkExpires(r)
      PROVE  /\ \A k \in DOMAIN requests :
                  /\ k \in DOMAIN requests'
                  /\ requests'[k].user = requests[k].user /\ requests'[k].type = requests[k].type
                  /\ requests'[k].status = requests[k].status
             /\ DOMAIN requests' = DOMAIN requests
  <2>1. requests' = [requests EXCEPT ![r].late = TRUE] /\ requests[r] \in Request
    BY <1>0, <1>5 DEF LinkExpires
  <2> QED BY <1>0, <2>1 DEF Request
<1>6. CASE requests' = requests
  BY <1>6
<1>7. \/ requests' = requests
      \/ \E r \in DOMAIN requests : LinkExpires(r)
      \/ \E h \in Handlers : InsertRequest(h)
      \/ \E h \in Handlers :
           \/ SendConfirmationEmail(h)
           \/ ConsumeToken(h)
           \/ FailRequest(h)
           \/ CompleteRequest(h)
  BY DEF Next, AdminRequest, GdprRequest, TaskStep, Failure, UpdateUser, ReadTarget, CountAdmins,
    SetRole, SetStatus, BulkSuspendUsers, SuspendAll, DeleteUserViaGdpr, ReadVictim,
    RequireExport, Purge, RequestDataAction, LookForPending, ConfirmationEmailFails,
    ConfirmDataRequest, ReadRequest, BuildAndStoreExport, Erase, ProcessingThrows, Crash,
    TokenExpires, people, data
<1> QED BY <1>3, <1>4, <1>5, <1>6, <1>7

(* An account stays anonymised the way it was, and it takes Purge to have  *)
(* it done by an administrator.                                            *)
LEMMA ErasedStep ==
  ASSUME IInv, Next, NEW u \in Users
  PROVE  /\ erased[u] # "no" => erased'[u] = erased[u]
         /\ erased'[u] = "admin" =>
              \/ erased[u] = "admin"
              \/ \E h \in Handlers : Purge(h) /\ task[h].target = u
<1>0. erased \in [Users -> {"no", "request", "admin"}]
  BY DEF IInv, TypeOK
<1>1. ASSUME NEW h \in Handlers, Purge(h) \/ Erase(h)
      PROVE  \E who \in {"request", "admin"} :
               /\ erased' = [erased EXCEPT ![task[h].target] = IF @ = "no" THEN who ELSE @]
               /\ who = "admin" => Purge(h)
  BY <1>1 DEF Purge, Erase, AnonymiseUser, Subject
<1>2. CASE \E h \in Handlers : Purge(h) \/ Erase(h)
  BY <1>0, <1>1, <1>2
<1>3. CASE ~ \E h \in Handlers : Purge(h) \/ Erase(h)
  <2>1. erased' = erased
    BY <1>3 DEF Next, AdminRequest, GdprRequest, TaskStep, Failure, UpdateUser, ReadTarget,
      CountAdmins, SetRole, SetStatus, BulkSuspendUsers, SuspendAll, DeleteUserViaGdpr,
      ReadVictim, RequireExport, RequestDataAction, LookForPending, InsertRequest,
      SendConfirmationEmail, ConfirmationEmailFails, ConfirmDataRequest, ReadRequest,
      ConsumeToken, BuildAndStoreExport, ProcessingThrows, CompleteRequest, FailRequest, Crash,
      TokenExpires, LinkExpires, people
  <2> QED BY <2>1
<1> QED BY <1>2, <1>3

(* A stored export stays stored.                                           *)
LEMMA ArchiveStep == Next => archive \subseteq archive'
<1>1. CASE \E h \in Handlers : BuildAndStoreExport(h)
  BY <1>1 DEF BuildAndStoreExport
<1>2. CASE ~ \E h \in Handlers : BuildAndStoreExport(h)
  BY <1>2 DEF Next, AdminRequest, GdprRequest, TaskStep, Failure, UpdateUser, ReadTarget,
    CountAdmins, SetRole, SetStatus, BulkSuspendUsers, SuspendAll, DeleteUserViaGdpr,
    ReadVictim, RequireExport, Purge, RequestDataAction, LookForPending, InsertRequest,
    SendConfirmationEmail, ConfirmationEmailFails, ConfirmDataRequest, ReadRequest,
    ConsumeToken, Erase, ProcessingThrows, CompleteRequest, FailRequest, Crash,
    TokenExpires, LinkExpires, data
<1> QED BY <1>1, <1>2

LEMMA ExportedStays ==
  ASSUME IInv, Next, NEW u \in Users, Exported(u)
  PROVE  Exported(u)'
<1>1. PICK r \in archive \intersect DOMAIN requests :
             requests[r].user = u /\ requests[r].type = "export"
  BY DEF Exported
<1>2. /\ r \in archive' \intersect DOMAIN requests'
      /\ requests'[r].user = u /\ requests'[r].type = "export"
  BY <1>1, RequestsStep, ArchiveStep
<1> QED BY <1>2 DEF Exported

-----------------------------------------------------------------------------
(* Calls *)

(* What a call relies on stays while it waits.                             *)
LEMMA WaitingStep ==
  ASSUME IInv, Next, NEW k \in Handlers, task'[k] = task[k]
  PROVE  TaskOK(k)'
<1>0. TaskOK(k) /\ task[k] \in Task
  BY DEF IInv, TypeOK
<1>1. task[k].pc \in {"mail", "link", "consume", "pack", "erase", "complete", "fail"} =>
        /\ task[k].req \in DOMAIN requests'
        /\ requests'[task[k].req].user = task[k].target
        /\ requests'[task[k].req].type = task[k].kind
  BY <1>0, RequestsStep DEF TaskOK, Current
<1>2. task[k].pc = "complete" =>
        IF task[k].kind = "export" THEN task[k].req \in archive'
                                   ELSE erased'[task[k].target] # "no"
  BY <1>0, ArchiveStep, ErasedStep DEF TaskOK
<1>3. task[k].pc = "purge" => Exported(task[k].target)'
  BY <1>0, ExportedStays DEF TaskOK
<1> QED BY <1>0, <1>1, <1>2, <1>3 DEF TaskOK, Current, Exported

(* What a call relies on holds from its start on.                          *)
LEMMA BegunStep ==
  ASSUME IInv, Next, NEW h \in Handlers, NEW t, Begin(h, t), UNCHANGED data,
         t.pc \in {"target", "bulk", "victim", "look", "link"},
         t.pc # "bulk" => t.target \in Users,
         t.status # "deleted",
         t.pc = "link" => /\ t.req \in DOMAIN requests
                          /\ requests[t.req].user = t.target /\ requests[t.req].type = t.kind
  PROVE  \A k \in Handlers : TaskOK(k)'
<1>0. task \in [Handlers -> Task] /\ task' = [task EXCEPT ![h] = t]
  BY DEF IInv, TypeOK, Begin
<1>1. task'[h] = t
  BY <1>0
<1>2. TaskOK(h)'
  BY <1>1 DEF TaskOK, Current, data
<1> SUFFICES ASSUME NEW k \in Handlers \ {h} PROVE TaskOK(k)'
  BY <1>2
<1> QED BY <1>0, WaitingStep

(* And from one statement to the next.                                     *)
LEMMA MovingStep ==
  ASSUME IInv, Next, NEW h \in Handlers, TaskStep(h) \/ Failure(h)
  PROVE  TaskOK(h)'
<1>0. task[h] \in Task /\ TaskOK(h) /\ task \in [Handlers -> Task]
  BY DEF IInv, TypeOK
<1>1. CASE Return(h)
  <2>1. task'[h] = Idle
    BY <1>0, <1>1 DEF Return
  <2> QED BY <2>1 DEF TaskOK, Idle, Keep
<1>2. ASSUME NEW s, Goto(h, s)
      PROVE  /\ task'[h].pc = s
             /\ task'[h].target = task[h].target /\ task'[h].role = task[h].role
             /\ task'[h].status = task[h].status /\ task'[h].kind = task[h].kind
             /\ task'[h].req = task[h].req
  BY <1>0, <1>2 DEF Goto, Task
<1>3. CASE ReadTarget(h)
  <2>1. CASE ~Return(h)
    <3>1. account[task[h].target] \in Account
      BY <1>0, <1>3 DEF ReadTarget, At, TaskOK, IInv, TypeOK
    <3>2. PICK s \in {"count", "role", "status"} :
            /\ task' = [task EXCEPT ![h].seen = account[task[h].target], ![h].pc = s]
            /\ s \in {"count", "role"} => ChangesRole(task[h], account[task[h].target])
      BY <1>3, <2>1 DEF ReadTarget
    <3>3. /\ task'[h].pc = s
          /\ task'[h].target = task[h].target /\ task'[h].role = task[h].role
          /\ task'[h].status = task[h].status
      BY <1>0, <3>2 DEF Task
    <3> QED BY <1>0, <1>3, <3>2, <3>3 DEF ReadTarget, At, TaskOK, ChangesRole
  <2> QED BY <1>1, <2>1
<1>4. CASE InsertRequest(h)
  <2>1. task[h].target \in Users /\ requests \in Seq(Request)
    BY <1>0, <1>4 DEF InsertRequest, At, TaskOK, IInv, TypeOK
  <2>2. /\ task'[h].pc = "mail" /\ task'[h].req = Len(requests) + 1
        /\ task'[h].target = task[h].target /\ task'[h].kind = task[h].kind
        /\ task'[h].status = task[h].status
    BY <1>0, <1>4 DEF InsertRequest, Task
  <2>3. /\ Len(requests) + 1 \in DOMAIN requests'
        /\ requests'[Len(requests) + 1].user = task[h].target
        /\ requests'[Len(requests) + 1].type = task[h].kind
    BY <2>1, <1>4 DEF InsertRequest
  <2> QED BY <1>0, <2>1, <2>2, <2>3 DEF TaskOK, Current
<1>5. CASE \/ At(h, "count") /\ Goto(h, "role")
           \/ At(h, "role") /\ Goto(h, "status")
           \/ At(h, "victim") /\ Goto(h, "exports")
           \/ At(h, "look") /\ Goto(h, "insert")
  BY <1>0, <1>2, <1>5 DEF TaskOK, At
<1>6. CASE RequireExport(h)
  <2>1. CASE Goto(h, "purge") /\ HasCompletedExport(task[h].target)
    <3>1. task[h].target \in Users /\ requests' = requests /\ archive' = archive
      BY <1>0, <1>6 DEF RequireExport, At, TaskOK, data
    <3>2. Exported(task[h].target)
      <4>1. PICK r \in DOMAIN requests :
              /\ requests[r].user = task[h].target /\ requests[r].type = "export"
              /\ requests[r].status = "completed"
        BY <2>1 DEF HasCompletedExport
      <4>2. DownloadExport(requests[r].user, r) = "200"
        BY <4>1 DEF IInv, ExportsDownloadable
      <4>3. r \in archive
        BY <4>2 DEF DownloadExport
      <4> QED BY <4>1, <4>3 DEF Exported
    <3>3. task'[h].target = task[h].target /\ task'[h].pc = "purge"
      BY <1>2, <2>1
    <3>4. Exported(task[h].target)'
      BY <3>1, <3>2, <3>3 DEF Exported
    <3> QED BY <1>0, <1>2, <2>1, <3>1, <3>3, <3>4 DEF TaskOK
  <2> QED BY <1>1, <1>6, <2>1 DEF RequireExport
<1>7. CASE \/ ReadRequest(h)
           \/ ConsumeToken(h)
           \/ ProcessingThrows(h)
  <2>1. /\ task[h].target \in Users
        /\ task[h].req \in DOMAIN requests'
        /\ requests'[task[h].req].user = task[h].target
        /\ requests'[task[h].req].type = task[h].kind
    BY <1>0, <1>7, RequestsStep DEF ReadRequest, ConsumeToken, ProcessingThrows, At, TaskOK,
      Current
  <2>2. task[h].kind \in {"export", "delete"}
    BY <1>0 DEF Task, Kinds
  <2>3. \/ Return(h)
        \/ \E s \in {"consume", "pack", "erase", "fail"} :
             /\ Goto(h, s)
             /\ s = "pack" => task[h].kind = "export"
             /\ s = "erase" => task[h].kind = "delete"
    BY <1>7, <2>2 DEF ReadRequest, ConsumeToken, ProcessingThrows
  <2> QED BY <1>0, <1>1, <1>2, <2>1, <2>3 DEF TaskOK, Current
<1>8. CASE BuildAndStoreExport(h)
  <2>1. /\ task[h].target \in Users /\ task[h].kind = "export"
        /\ task[h].req \in DOMAIN requests'
        /\ requests'[task[h].req].user = task[h].target
        /\ requests'[task[h].req].type = task[h].kind
        /\ task[h].req \in archive'
    BY <1>0, <1>8, RequestsStep DEF BuildAndStoreExport, At, TaskOK, Current
  <2>2. Goto(h, "complete")
    BY <1>8 DEF BuildAndStoreExport
  <2> QED BY <1>0, <1>2, <2>1, <2>2 DEF TaskOK, Current
<1>9. CASE Erase(h)
  <2>1. /\ task[h].target \in Users /\ task[h].kind = "delete"
        /\ task[h].req \in DOMAIN requests'
        /\ requests'[task[h].req].user = task[h].target
        /\ requests'[task[h].req].type = task[h].kind
    BY <1>0, <1>9, RequestsStep DEF Erase, At, TaskOK, Current
  <2>2. erased'[task[h].target] # "no"
    BY <1>9, <2>1 DEF Erase, AnonymiseUser, Subject, IInv, TypeOK
  <2>3. Goto(h, "complete")
    BY <1>9 DEF Erase
  <2> QED BY <1>0, <1>2, <2>1, <2>2, <2>3 DEF TaskOK, Current
<1>10. \/ Return(h) \/ ReadTarget(h) \/ InsertRequest(h) \/ RequireExport(h)
       \/ ReadRequest(h) \/ ConsumeToken(h) \/ ProcessingThrows(h)
       \/ BuildAndStoreExport(h) \/ Erase(h)
       \/ At(h, "count") /\ Goto(h, "role")
       \/ At(h, "role") /\ Goto(h, "status")
       \/ At(h, "victim") /\ Goto(h, "exports")
       \/ At(h, "look") /\ Goto(h, "insert")
  BY DEF TaskStep, Failure, CountAdmins, SetRole, SetStatus, SuspendAll, ReadVictim, Purge,
    LookForPending, SendConfirmationEmail, CompleteRequest, FailRequest, ConfirmationEmailFails,
    Crash
<1> QED BY <1>1, <1>3, <1>4, <1>5, <1>6, <1>7, <1>8, <1>9, <1>10

LEMMA TasksStep == IInv /\ Next => \A k \in Handlers : TaskOK(k)'
<1> SUFFICES ASSUME IInv, Next PROVE \A k \in Handlers : TaskOK(k)'
  OBVIOUS
<1>0. task \in [Handlers -> Task] /\ requests \in Seq(Request)
  BY DEF IInv, TypeOK
<1>2. CASE AdminRequest
  <2>1. ASSUME NEW h \in Handlers, NEW actor \in Users, NEW target \in Users,
               NEW role, NEW status \in {"active", "suspended", Keep},
               UpdateUser(h, actor, target, role, status)
        PROVE  \A k \in Handlers : TaskOK(k)'
    <3> DEFINE t == [Idle EXCEPT !.pc = "target", !.actor = actor, !.target = target,
                                 !.role = role, !.status = status]
    <3>1. t.pc = "target" /\ t.target = target /\ t.status = status
      BY DEF Idle
    <3>2. Begin(h, t) /\ UNCHANGED data
      BY <2>1 DEF UpdateUser
    <3> QED BY <3>1, <3>2, BegunStep DEF Keep
  <2>2. ASSUME NEW h \in Handlers, NEW actor \in Users, NEW target \in Users,
               DeleteUserViaGdpr(h, actor, target)
        PROVE  \A k \in Handlers : TaskOK(k)'
    <3> DEFINE t == [Idle EXCEPT !.pc = "victim", !.actor = actor, !.target = target]
    <3>1. t.pc = "victim" /\ t.target = target /\ t.status = Keep
      BY DEF Idle
    <3>2. Begin(h, t) /\ UNCHANGED data
      BY <2>2 DEF DeleteUserViaGdpr
    <3> QED BY <3>1, <3>2, BegunStep DEF Keep
  <2>3. ASSUME NEW h \in Handlers, NEW actor \in Users, NEW ids \in SUBSET Users,
               BulkSuspendUsers(h, actor, ids)
        PROVE  \A k \in Handlers : TaskOK(k)'
    <3> DEFINE t == [Idle EXCEPT !.pc = "bulk", !.actor = actor, !.ids = ids \ {actor}]
    <3>1. t.pc = "bulk" /\ t.status = Keep
      BY DEF Idle
    <3>2. Begin(h, t) /\ UNCHANGED data
      BY <2>3 DEF BulkSuspendUsers
    <3> QED BY <3>1, <3>2, BegunStep DEF Keep
  <2> QED BY <1>2, <2>1, <2>2, <2>3 DEF AdminRequest
<1>3. CASE GdprRequest
  <2>1. ASSUME NEW h \in Handlers, NEW actor \in Users, NEW user \in Users, NEW kind \in Kinds,
               RequestDataAction(h, actor, user, kind)
        PROVE  \A k \in Handlers : TaskOK(k)'
    <3> DEFINE t == [Idle EXCEPT !.pc = "look", !.actor = actor, !.target = user, !.kind = kind]
    <3>1. t.pc = "look" /\ t.target = user /\ t.status = Keep
      BY DEF Idle
    <3>2. Begin(h, t) /\ UNCHANGED data
      BY <2>1 DEF RequestDataAction
    <3> QED BY <3>1, <3>2, BegunStep DEF Keep
  <2>2. ASSUME NEW h \in Handlers, NEW r \in DOMAIN requests, ConfirmDataRequest(h, r)
        PROVE  \A k \in Handlers : TaskOK(k)'
    <3> DEFINE t == [Idle EXCEPT !.pc = "link", !.target = requests[r].user,
                                 !.kind = requests[r].type, !.req = r]
    <3>0. requests[r].user \in Users
      <4>1. requests[r] \in Request
        BY <1>0
      <4> QED BY <4>1 DEF Request
    <3>1. /\ t.pc = "link" /\ t.target = requests[r].user /\ t.kind = requests[r].type
          /\ t.req = r /\ t.status = Keep
      BY DEF Idle
    <3>2. Begin(h, t) /\ UNCHANGED data
      BY <2>2 DEF ConfirmDataRequest
    <3> QED BY <3>0, <3>1, <3>2, BegunStep DEF Keep
  <2> QED BY <1>3, <2>1, <2>2 DEF GdprRequest
<1>4. ASSUME NEW h \in Handlers, TaskStep(h) \/ Failure(h), NEW k \in Handlers PROVE TaskOK(k)'
  <2>1. CASE k = h
    BY <1>4, <2>1, MovingStep
  <2>2. CASE k # h
    <3>1. task'[k] = task[k]
      BY <1>0, <1>4, <2>2 DEF TaskStep, Failure, ReadTarget, CountAdmins, SetRole, SetStatus,
        SuspendAll, ReadVictim, RequireExport, Purge, LookForPending, InsertRequest,
        SendConfirmationEmail, ReadRequest, ConsumeToken, BuildAndStoreExport, Erase,
        CompleteRequest, FailRequest, ConfirmationEmailFails, ProcessingThrows, Crash, Goto,
        Return
    <3> QED BY <3>1, WaitingStep
  <2> QED BY <2>1, <2>2
<1>5. CASE task' = task
  BY <1>5, WaitingStep
<1> QED BY <1>2, <1>3, <1>4, <1>5 DEF Next, TokenExpires, LinkExpires

-----------------------------------------------------------------------------
(* The invariant *)

LEMMA InvInit == Init => IInv
<1> SUFFICES ASSUME Init PROVE IInv
  OBVIOUS
<1>1. ExportsDownloadable /\ DeletionsDone /\ ExportComesFirst
  BY DEF Init, ExportsDownloadable, DeletionsDone, ExportComesFirst
<1>2. \A h \in Handlers : TaskOK(h)
  BY DEF Init, TaskOK, Idle, Keep
<1> QED BY <1>1, <1>2, TypeInit DEF IInv

LEMMA InvStep == IInv /\ [Next]_vars => IInv'
<1> SUFFICES ASSUME IInv, [Next]_vars PROVE IInv'
  OBVIOUS
<1>1. CASE UNCHANGED vars
  BY <1>1 DEF IInv, TypeOK, ExportsDownloadable, DownloadExport, DeletionsDone,
    ExportComesFirst, Exported, TaskOK, Current, vars, people, data
<1>2. CASE Next
  <2>0. /\ TypeOK' /\ requests \in Seq(Request) /\ task \in [Handlers -> Task]
        /\ \A r \in DOMAIN requests : requests[r].user \in Users
    <3>1. \A r \in DOMAIN requests : requests[r] \in Request
      BY DEF IInv, TypeOK
    <3> QED BY <1>2, <3>1, TypeStep DEF IInv, TypeOK, Request
  (* A request just completed is the one its call was about. *)
  <2>1. ASSUME NEW r \in DOMAIN requests', requests'[r].status = "completed"
        PROVE  /\ r \in DOMAIN requests
               /\ requests'[r].user = requests[r].user /\ requests'[r].type = requests[r].type
               /\ \/ requests[r].status = "completed"
                  \/ IF requests[r].type = "export" THEN r \in archive
                                                    ELSE erased[requests[r].user] # "no"
    <3>1. r \in DOMAIN requests
      BY <1>2, <2>1, RequestsStep
    <3>2. \/ requests[r].status = "completed"
          \/ \E h \in Handlers : CompleteRequest(h) /\ task[h].req = r
      BY <1>2, <2>1, <3>1, RequestsStep
    <3>3. ASSUME NEW h \in Handlers, CompleteRequest(h), task[h].req = r
          PROVE  IF requests[r].type = "export" THEN r \in archive
                                                ELSE erased[requests[r].user] # "no"
      BY <3>3 DEF IInv, TaskOK, Current, CompleteRequest, At
    <3> QED BY <1>2, <3>1, <3>2, <3>3, RequestsStep
  <2>2. ExportsDownloadable'
    <3> SUFFICES ASSUME NEW r \in DOMAIN requests', requests'[r].type = "export",
                        requests'[r].status = "completed"
                 PROVE  r \in archive'
      BY DEF ExportsDownloadable, DownloadExport
    <3>1. r \in archive
      <4>1. CASE requests[r].status = "completed"
        <5>1. DownloadExport(requests[r].user, r) = "200"
          BY <2>1, <4>1 DEF IInv, ExportsDownloadable
        <5> QED BY <5>1 DEF DownloadExport
      <4> QED BY <2>1, <4>1
    <3> QED BY <1>2, <3>1, ArchiveStep
  <2>3. DeletionsDone'
    <3> SUFFICES ASSUME NEW r \in DOMAIN requests', requests'[r].type = "delete",
                        requests'[r].status = "completed"
                 PROVE  erased'[requests'[r].user] # "no"
      BY DEF DeletionsDone
    <3>1. requests[r].user \in Users /\ erased[requests[r].user] # "no"
      BY <2>0, <2>1 DEF IInv, DeletionsDone
    <3> QED BY <1>2, <2>1, <3>1, ErasedStep
  <2>4. ExportComesFirst'
    <3> SUFFICES ASSUME NEW u \in Users, erased'[u] = "admin" PROVE Exported(u)'
      BY DEF ExportComesFirst
    <3>1. Exported(u)
      <4>1. ASSUME NEW h \in Handlers, Purge(h), task[h].target = u PROVE Exported(u)
        BY <4>1 DEF IInv, TaskOK, Purge, At
      <4> QED BY <1>2, <4>1, ErasedStep DEF IInv, ExportComesFirst
    <3> QED BY <1>2, <3>1, ExportedStays
  <2> QED BY <1>2, <2>0, <2>2, <2>3, <2>4, TasksStep DEF IInv
<1> QED BY <1>1, <1>2

(* Whatever overlaps and whatever fails, an export that says completed can *)
(* be downloaded, a deletion that says completed has been carried out, and *)
(* no administrator deletes an account before its data was exported.       *)
THEOREM Invariant == Spec => []IInv
<1> QED BY InvInit, InvStep, PTL DEF Spec

(* Accounts, requests and calls have their types.                          *)
THEOREM TypeCorrect == Spec => []TypeOK
<1>1. IInv => TypeOK
  BY DEF IInv
<1> QED BY <1>1, Invariant, PTL

-----------------------------------------------------------------------------
(* Letters: whoever confirms has received the link *)

Received == {"link", "consume", "pack", "erase", "complete", "fail"}

(* How requests move: one is made, one is mailed or settled or gets late,  *)
(* or none changes.                                                        *)
LEMMA RequestsGo ==
  ASSUME Next
  PROVE  \/ requests' = requests
         \/ \E r \in DOMAIN requests : LinkExpires(r)
         \/ \E h \in Handlers :
              \/ InsertRequest(h) \/ SendConfirmationEmail(h)
              \/ ConsumeToken(h) \/ FailRequest(h) \/ CompleteRequest(h)
  BY DEF Next, AdminRequest, GdprRequest, TaskStep, Failure, UpdateUser, ReadTarget, CountAdmins,
    SetRole, SetStatus, BulkSuspendUsers, SuspendAll, DeleteUserViaGdpr, ReadVictim,
    RequireExport, Purge, RequestDataAction, LookForPending, ConfirmationEmailFails,
    ConfirmDataRequest, ReadRequest, BuildAndStoreExport, Erase, ProcessingThrows, Crash,
    TokenExpires, people, data

(* A new request is the last one, pending and not mailed.                  *)
LEMMA RequestMade ==
  ASSUME IInv, NEW h \in Handlers, InsertRequest(h)
  PROVE  /\ DOMAIN requests' = DOMAIN requests \union {Len(requests) + 1}
         /\ Len(requests) + 1 \notin DOMAIN requests
         /\ \A r \in DOMAIN requests : requests'[r] = requests[r]
         /\ ~requests'[Len(requests) + 1].mailed
         /\ requests'[Len(requests) + 1].status = "pending"
         /\ task' = [task EXCEPT ![h].pc = "mail", ![h].req = Len(requests) + 1]
<1>0. requests \in Seq(Request) /\ task[h] \in Task /\ task[h].target \in Users
  BY DEF IInv, TypeOK, TaskOK, InsertRequest, At
<1>1. PICK q \in Request : ~q.mailed /\ q.status = "pending" /\ requests' = Append(requests, q)
  <2>1. [user |-> task[h].target, type |-> task[h].kind, late |-> FALSE,
         mailed |-> FALSE, status |-> "pending"] \in Request
    BY <1>0 DEF Request, Task
  <2> QED BY <2>1 DEF InsertRequest
<1>2. /\ DOMAIN requests = 1..Len(requests) /\ Len(requests) \in Nat
      /\ DOMAIN requests' = 1..(Len(requests) + 1)
      /\ requests'[Len(requests) + 1] = q
      /\ \A r \in DOMAIN requests : requests'[r] = requests[r]
  BY <1>0, <1>1
<1> QED BY <1>1, <1>2 DEF InsertRequest

(* One that is written keeps its user, its kind and what is not written,   *)
(* and the others stay as they are.                                        *)
LEMMA RequestWritten ==
  ASSUME IInv, NEW r \in DOMAIN requests, NEW v,
         \/ requests' = [requests EXCEPT ![r].status = v]
         \/ requests' = [requests EXCEPT ![r].mailed = v]
         \/ requests' = [requests EXCEPT ![r].late = v]
  PROVE  /\ DOMAIN requests' = DOMAIN requests
         /\ \A q \in DOMAIN requests : q # r => requests'[q] = requests[q]
         /\ requests'[r].user = requests[r].user /\ requests'[r].type = requests[r].type
         /\ requests' = [requests EXCEPT ![r].status = v] =>
              requests'[r].status = v /\ requests'[r].mailed = requests[r].mailed
         /\ requests' = [requests EXCEPT ![r].mailed = v] =>
              requests'[r].mailed = v /\ requests'[r].status = requests[r].status
         /\ requests' = [requests EXCEPT ![r].late = v] =>
              /\ requests'[r].status = requests[r].status
              /\ requests'[r].mailed = requests[r].mailed
<1>0. requests \in Seq(Request) /\ requests[r] \in Request
  BY DEF IInv, TypeOK
<1>1. DOMAIN requests' = DOMAIN requests
  BY <1>0
<1>2. \A q \in DOMAIN requests : q # r => requests'[q] = requests[q]
  BY <1>0
<1>3. CASE requests' = [requests EXCEPT ![r].status = v]
  BY <1>0, <1>1, <1>2, <1>3 DEF Request
<1>4. CASE requests' = [requests EXCEPT ![r].mailed = v]
  BY <1>0, <1>1, <1>2, <1>4 DEF Request
<1>5. CASE requests' = [requests EXCEPT ![r].late = v]
  BY <1>0, <1>1, <1>2, <1>5 DEF Request
<1> QED BY <1>3, <1>4, <1>5

(* Which request a call writes, and what.                                  *)
LEMMA CallWrites ==
  ASSUME IInv, NEW h \in Handlers
  PROVE  /\ SendConfirmationEmail(h) =>
              /\ task[h].req \in DOMAIN requests /\ At(h, "mail") /\ task'[h] = Idle
              /\ \E b \in BOOLEAN : requests' = [requests EXCEPT ![task[h].req].mailed = b]
         /\ ConsumeToken(h) =>
              /\ task[h].req \in DOMAIN requests
              /\ requests' = [requests EXCEPT ![task[h].req].status = "processing"]
         /\ FailRequest(h) =>
              /\ task[h].req \in DOMAIN requests
              /\ requests' = [requests EXCEPT ![task[h].req].status = "failed"]
         /\ CompleteRequest(h) =>
              /\ task[h].req \in DOMAIN requests
              /\ requests' = [requests EXCEPT ![task[h].req].status = "completed"]
<1>1. task \in [Handlers -> Task] /\ TaskOK(h)
  BY DEF IInv, TypeOK
<1>2. SendConfirmationEmail(h) =>
        /\ task[h].req \in DOMAIN requests /\ At(h, "mail") /\ task'[h] = Idle
        /\ \E b \in BOOLEAN : requests' = [requests EXCEPT ![task[h].req].mailed = b]
  BY <1>1 DEF SendConfirmationEmail, At, Return, TaskOK
<1> QED BY <1>1, <1>2 DEF ConsumeToken, FailRequest, CompleteRequest, SetRequest, At, TaskOK

(* Whether a request was mailed changes with its mail only.                *)
LEMMA MailedStep ==
  ASSUME IInv, Next, NEW r \in DOMAIN requests
  PROVE  /\ r \in DOMAIN requests'
         /\ \/ requests'[r].mailed = requests[r].mailed
            \/ \E h \in Handlers : SendConfirmationEmail(h) /\ task[h].req = r
<1>1. CASE requests' = requests
  BY <1>1
<1>2. ASSUME NEW q \in DOMAIN requests, LinkExpires(q)
      PROVE  r \in DOMAIN requests' /\ requests'[r].mailed = requests[r].mailed
  BY <1>2, RequestWritten DEF LinkExpires
<1>3. ASSUME NEW h \in Handlers, InsertRequest(h)
      PROVE  r \in DOMAIN requests' /\ requests'[r].mailed = requests[r].mailed
  BY <1>3, RequestMade
<1>4. ASSUME NEW h \in Handlers, ConsumeToken(h) \/ FailRequest(h) \/ CompleteRequest(h)
      PROVE  r \in DOMAIN requests' /\ requests'[r].mailed = requests[r].mailed
  <2>1. PICK q \in DOMAIN requests, v \in {"processing", "failed", "completed"} :
             requests' = [requests EXCEPT ![q].status = v]
    BY <1>4, CallWrites
  <2>2. CASE r = q
    BY <2>1, <2>2, RequestWritten
  <2>3. CASE r # q
    BY <2>1, <2>3, RequestWritten
  <2> QED BY <2>2, <2>3
<1>5. ASSUME NEW h \in Handlers, SendConfirmationEmail(h)
      PROVE  /\ r \in DOMAIN requests'
             /\ requests'[r].mailed = requests[r].mailed \/ task[h].req = r
  BY <1>5, CallWrites, RequestWritten
<1> QED BY <1>1, <1>2, <1>3, <1>4, <1>5, RequestsGo

(* How calls move, as far as letters go: one is about to mail the request  *)
(* it made, one confirms by a link that was mailed or goes on with it; the *)
(* others do not move.                                                     *)
LEMMA LetterMoves ==
  ASSUME IInv, Next
  PROVE  \/ task' = task
         \/ \E h \in Handlers :
              /\ \A k \in Handlers : k # h => task'[k] = task[k]
              /\ \/ task'[h].pc \notin Received \union {"mail"}
                 \/ InsertRequest(h)
                 \/ /\ task'[h].pc = "link" /\ task'[h].req \in DOMAIN requests
                    /\ requests[task'[h].req].mailed /\ UNCHANGED requests
                 \/ /\ task[h].pc \in Received /\ task'[h].pc \in Received
                    /\ task'[h].req = task[h].req
<1>0. task \in [Handlers -> Task] /\ \A h \in Handlers : task[h] \in Task
  BY DEF IInv, TypeOK
<1>1. ASSUME NEW h \in Handlers, NEW t, Begin(h, t), t.pc \notin Received \union {"mail"}
      PROVE  /\ \A k \in Handlers : k # h => task'[k] = task[k]
             /\ task'[h].pc \notin Received \union {"mail"}
  BY <1>0, <1>1 DEF Begin
<1>2. CASE AdminRequest
  <2>1. ASSUME NEW h \in Handlers, NEW actor, NEW target, NEW role, NEW status,
               UpdateUser(h, actor, target, role, status)
        PROVE  /\ \A k \in Handlers : k # h => task'[k] = task[k]
               /\ task'[h].pc \notin Received \union {"mail"}
    <3> DEFINE t == [Idle EXCEPT !.pc = "target", !.actor = actor, !.target = target,
                                 !.role = role, !.status = status]
    <3>1. t.pc = "target"
      BY DEF Idle
    <3>2. Begin(h, t)
      BY <2>1 DEF UpdateUser
    <3> QED BY <1>1, <3>1, <3>2 DEF Received
  <2>2. ASSUME NEW h \in Handlers, NEW actor, NEW target, DeleteUserViaGdpr(h, actor, target)
        PROVE  /\ \A k \in Handlers : k # h => task'[k] = task[k]
               /\ task'[h].pc \notin Received \union {"mail"}
    <3> DEFINE t == [Idle EXCEPT !.pc = "victim", !.actor = actor, !.target = target]
    <3>1. t.pc = "victim"
      BY DEF Idle
    <3>2. Begin(h, t)
      BY <2>2 DEF DeleteUserViaGdpr
    <3> QED BY <1>1, <3>1, <3>2 DEF Received
  <2>3. ASSUME NEW h \in Handlers, NEW actor, NEW ids, BulkSuspendUsers(h, actor, ids)
        PROVE  /\ \A k \in Handlers : k # h => task'[k] = task[k]
               /\ task'[h].pc \notin Received \union {"mail"}
    <3> DEFINE t == [Idle EXCEPT !.pc = "bulk", !.actor = actor, !.ids = ids \ {actor}]
    <3>1. t.pc = "bulk"
      BY DEF Idle
    <3>2. Begin(h, t)
      BY <2>3 DEF BulkSuspendUsers
    <3> QED BY <1>1, <3>1, <3>2 DEF Received
  <2> QED BY <1>2, <2>1, <2>2, <2>3 DEF AdminRequest
<1>3. ASSUME NEW h \in Handlers, NEW actor, NEW user, NEW kind,
             RequestDataAction(h, actor, user, kind)
      PROVE  /\ \A k \in Handlers : k # h => task'[k] = task[k]
             /\ task'[h].pc \notin Received \union {"mail"}
  <2> DEFINE t == [Idle EXCEPT !.pc = "look", !.actor = actor, !.target = user, !.kind = kind]
  <2>1. t.pc = "look"
    BY DEF Idle
  <2>2. Begin(h, t)
    BY <1>3 DEF RequestDataAction
  <2> QED BY <1>1, <2>1, <2>2 DEF Received
<1>4. ASSUME NEW h \in Handlers, NEW r \in DOMAIN requests, ConfirmDataRequest(h, r)
      PROVE  /\ \A k \in Handlers : k # h => task'[k] = task[k]
             /\ task'[h].pc = "link" /\ task'[h].req \in DOMAIN requests
             /\ requests[task'[h].req].mailed /\ UNCHANGED requests
  <2> DEFINE t == [Idle EXCEPT !.pc = "link", !.target = requests[r].user,
                               !.kind = requests[r].type, !.req = r]
  <2>1. t.pc = "link" /\ t.req = r
    BY DEF Idle
  <2>2. Begin(h, t) /\ requests[r].mailed /\ UNCHANGED requests
    BY <1>4 DEF ConfirmDataRequest, data
  <2>3. task' = [task EXCEPT ![h] = t]
    BY <2>2 DEF Begin
  <2> HIDE DEF t
  <2> QED BY <1>0, <2>1, <2>2, <2>3
<1>5. ASSUME NEW h \in Handlers, Return(h)
      PROVE  /\ \A k \in Handlers : k # h => task'[k] = task[k]
             /\ task'[h].pc \notin Received \union {"mail"}
  BY <1>0, <1>5 DEF Return, Idle, Received
<1>6. ASSUME NEW h \in Handlers, NEW s, Goto(h, s)
      PROVE  /\ \A k \in Handlers : k # h => task'[k] = task[k]
             /\ task'[h].pc = s /\ task'[h].req = task[h].req
  BY <1>0, <1>6 DEF Goto, Task
<1>7. ASSUME NEW h \in Handlers, TaskStep(h) \/ Failure(h)
      PROVE  /\ \A k \in Handlers : k # h => task'[k] = task[k]
             /\ \/ task'[h].pc \notin Received \union {"mail"}
                \/ InsertRequest(h)
                \/ /\ task[h].pc \in Received /\ task'[h].pc \in Received
                   /\ task'[h].req = task[h].req
  <2>1. CASE ReadTarget(h)
    <3>1. CASE Return(h)
      BY <1>5, <3>1
    <3>2. CASE ~Return(h)
      <4> DEFINE row == account[task[h].target]
                 s == IF row.role = "admin" /\ ChangesRole(task[h], row) THEN "count"
                      ELSE IF ChangesRole(task[h], row) THEN "role" ELSE "status"
      <4>1. task' = [task EXCEPT ![h].seen = row, ![h].pc = s]
        BY <2>1, <3>2 DEF ReadTarget
      <4>2. s \in {"count", "role", "status"}
        OBVIOUS
      <4> HIDE DEF s, row
      <4> QED BY <1>0, <4>1, <4>2 DEF Received, Task
    <3> QED BY <3>1, <3>2
  <2>2. CASE \/ CountAdmins(h) \/ SetRole(h) \/ SetStatus(h) \/ SuspendAll(h) \/ ReadVictim(h)
             \/ RequireExport(h) \/ Purge(h) \/ LookForPending(h)
    <3>1. Return(h) \/ \E s \in {"role", "status", "exports", "purge", "insert"} : Goto(h, s)
      BY <2>2 DEF CountAdmins, SetRole, SetStatus, SuspendAll, ReadVictim, RequireExport, Purge,
        LookForPending
    <3> QED BY <1>5, <1>6, <3>1 DEF Received
  <2>3. CASE InsertRequest(h)
    BY <1>0, <2>3, RequestMade
  <2>4. CASE \/ SendConfirmationEmail(h) \/ ConfirmationEmailFails(h) \/ CompleteRequest(h)
             \/ FailRequest(h) \/ Crash(h)
    BY <1>5, <2>4 DEF SendConfirmationEmail, ConfirmationEmailFails, CompleteRequest, FailRequest,
      Crash
  <2>5. CASE \/ ReadRequest(h) \/ ConsumeToken(h) \/ BuildAndStoreExport(h) \/ Erase(h)
             \/ ProcessingThrows(h)
    <3>1. task[h].pc \in Received
      BY <2>5 DEF ReadRequest, ConsumeToken, BuildAndStoreExport, Erase, ProcessingThrows, At,
        Received
    <3>2. Return(h) \/ \E s \in {"consume", "pack", "erase", "complete", "fail"} : Goto(h, s)
      BY <2>5 DEF ReadRequest, ConsumeToken, BuildAndStoreExport, Erase, ProcessingThrows
    <3> QED BY <1>5, <1>6, <3>1, <3>2 DEF Received
  <2> QED BY <1>7, <2>1, <2>2, <2>3, <2>4, <2>5 DEF TaskStep, Failure
<1>8. CASE (\E u \in Users : TokenExpires(u)) \/ (\E r \in DOMAIN requests : LinkExpires(r))
  BY <1>8 DEF TokenExpires, LinkExpires
<1> QED BY <1>2, <1>3, <1>4, <1>7, <1>8 DEF Next, GdprRequest

LEMMA LinksReceivedStep ==
  ASSUME IInv, LinksReceived, Next
  PROVE  LinksReceived'
<1>0. \A k \in Handlers : TaskOK(k) /\ task[k] \in Task
  BY DEF IInv, TypeOK
<1>1. \A k \in Handlers : task[k].pc \in Received \union {"mail"} =>
                            task[k].req \in DOMAIN requests
  BY <1>0 DEF TaskOK, Received
(* Who does not move has the letter still to send, or still sent.          *)
<1>2. ASSUME NEW k \in Handlers, task'[k] = task[k], At(k, "mail")
      PROVE  ~requests'[task[k].req].mailed
  <2>1. ~requests[task[k].req].mailed /\ task[k].req \in DOMAIN requests
    BY <1>1, <1>2 DEF LinksReceived, Current, At
  <2>2. ASSUME NEW h \in Handlers, SendConfirmationEmail(h), task[h].req = task[k].req
        PROVE  FALSE
    <3>1. At(h, "mail") /\ task'[h] = Idle
      BY <2>2, CallWrites
    <3>2. h = k
      BY <1>2, <2>2, <3>1 DEF LinksReceived
    <3> QED BY <1>2, <3>1, <3>2 DEF At, Idle
  <2> QED BY <2>1, <2>2, MailedStep
<1>3. ASSUME NEW k \in Handlers, task[k].pc \in Received
      PROVE  requests'[task[k].req].mailed
  <2>1. requests[task[k].req].mailed /\ task[k].req \in DOMAIN requests
    BY <1>1, <1>3 DEF LinksReceived, Current, Received
  <2>2. ASSUME NEW h \in Handlers, SendConfirmationEmail(h), task[h].req = task[k].req
        PROVE  FALSE
    BY <2>1, <2>2, CallWrites DEF LinksReceived, Current
  <2> QED BY <2>1, <2>2, MailedStep
<1>4. CASE task' = task
  BY <1>2, <1>3, <1>4 DEF LinksReceived, Current, At, Received
<1>5. ASSUME NEW h \in Handlers, \A k \in Handlers : k # h => task'[k] = task[k],
             task'[h].pc # "mail",
             task'[h].pc \in Received => requests'[task'[h].req].mailed
      PROVE  LinksReceived'
  BY <1>2, <1>3, <1>5 DEF LinksReceived, Current, At, Received
<1>6. ASSUME NEW h \in Handlers, InsertRequest(h) PROVE LinksReceived'
  <2>1. /\ task' = [task EXCEPT ![h].pc = "mail", ![h].req = Len(requests) + 1]
        /\ Len(requests) + 1 \notin DOMAIN requests
        /\ ~requests'[Len(requests) + 1].mailed
    BY <1>6, RequestMade
  <2>2. /\ task'[h].pc = "mail" /\ task'[h].req = Len(requests) + 1
        /\ \A k \in Handlers : k # h => task'[k] = task[k]
    BY <1>0, <2>1 DEF IInv, TypeOK, Task
  <2>3. \A k \in Handlers : k # h /\ task'[k].pc = "mail" => task'[k].req # task'[h].req
    BY <1>1, <2>1, <2>2
  <2>4. ASSUME NEW k \in Handlers, task'[k].pc = "mail"
        PROVE  /\ ~requests'[task'[k].req].mailed
               /\ \A j \in Handlers : task'[j].pc = "mail" /\ task'[j].req = task'[k].req => j = k
    <3>1. CASE k = h
      BY <2>1, <2>2, <2>3, <3>1
    <3>2. CASE k # h
      <4>1. task'[k] = task[k] /\ At(k, "mail")
        BY <2>2, <2>4, <3>2 DEF At
      <4>2. ASSUME NEW j \in Handlers, task'[j].pc = "mail", task'[j].req = task'[k].req
            PROVE  j = k
        <5>1. j # h
          BY <2>3, <2>4, <3>2, <4>2
        <5>2. task'[j] = task[j] /\ At(j, "mail")
          BY <2>2, <4>2, <5>1 DEF At
        <5> QED BY <4>1, <4>2, <5>2 DEF LinksReceived
      <4> QED BY <1>2, <4>1, <4>2
    <3> QED BY <3>1, <3>2
  <2>5. ASSUME NEW k \in Handlers, task'[k].pc \in Received
        PROVE  requests'[task'[k].req].mailed
    <3>1. k # h
      BY <2>2, <2>5 DEF Received
    <3> QED BY <1>3, <2>2, <2>5, <3>1
  <2> QED BY <2>4, <2>5 DEF LinksReceived, Current, At, Received
<1> QED BY <1>3, <1>4, <1>5, <1>6, LetterMoves DEF Received

LEMMA LinksReceivedInit == Init => LinksReceived
  BY DEF Init, LinksReceived, At, Idle

LEMMA LinksReceivedKeeps == IInv /\ LinksReceived /\ [Next]_vars => LinksReceived'
<1>1. ASSUME LinksReceived, UNCHANGED vars PROVE LinksReceived'
  BY <1>1 DEF LinksReceived, Current, At, vars, data
<1> QED BY <1>1, LinksReceivedStep

-----------------------------------------------------------------------------
(* Calls that do not overlap *)

Valid(r) == requests[r].status = "pending" /\ ~requests[r].late

(* What a call has read still holds, as long as it is alone.               *)
StillTrue(h) ==
  /\ At(h, "insert") => Pending(task[h].target, task[h].kind) = {}
  /\ At(h, "consume") => requests[task[h].req].status = "pending"
  /\ task[h].pc \in {"pack", "erase", "complete", "fail"} =>
       requests[task[h].req].status = "processing"
  /\ At(h, "role") =>
       task[h].role = "admin" \/ \E u \in ActiveAdmins : u # task[h].target

(* As long as calls never overlapped, one at most is in flight, what it    *)
(* has read still holds, and no two links are valid for the same thing.    *)
Alone ==
  ~crossed =>
    /\ \A h, k \in Handlers : ~IsIdle(h) /\ ~IsIdle(k) => h = k
    /\ \A h \in Handlers : StillTrue(h)
    /\ \A r, s \in DOMAIN requests :
         /\ Valid(r) /\ Valid(s)
         /\ requests[r].user = requests[s].user
         /\ requests[r].type = requests[s].type
         => r = s

LEMMA AloneInit == Init => Alone
  BY DEF Init, Alone, StillTrue, IsIdle, At, Idle

(* Only InsertRequest makes a link valid, ...                              *)
LEMMA LinksStep ==
  ASSUME IInv, Next, \A h \in Handlers : ~InsertRequest(h)
  PROVE  /\ DOMAIN requests' = DOMAIN requests
         /\ \A r \in DOMAIN requests :
              /\ requests'[r].user = requests[r].user /\ requests'[r].type = requests[r].type
              /\ requests'[r].status = "pending" /\ ~requests'[r].late => Valid(r)
<1>0. /\ requests \in Seq(Request) /\ \A r \in DOMAIN requests : requests[r] \in Request
  BY DEF IInv, TypeOK
<1>1. CASE requests' = requests
  BY <1>1 DEF Valid
<1>2. ASSUME NEW r \in DOMAIN requests,
             \/ \E s \in {"processing", "completed", "failed"} :
                  requests' = [requests EXCEPT ![r].status = s]
             \/ \E b \in BOOLEAN : requests' = [requests EXCEPT ![r].mailed = b]
             \/ requests' = [requests EXCEPT ![r].late = TRUE]
      PROVE  /\ DOMAIN requests' = DOMAIN requests
             /\ \A k \in DOMAIN requests :
                  /\ requests'[k].user = requests[k].user
                  /\ requests'[k].type = requests[k].type
                  /\ requests'[k].status = "pending" /\ ~requests'[k].late => Valid(k)
  <2>1. CASE \E s \in {"processing", "completed", "failed"} :
               requests' = [requests EXCEPT ![r].status = s]
    BY <1>0, <2>1 DEF Valid, Request
  <2>2. CASE \E b \in BOOLEAN : requests' = [requests EXCEPT ![r].mailed = b]
    BY <1>0, <2>2 DEF Valid, Request
  <2>3. CASE requests' = [requests EXCEPT ![r].late = TRUE]
    BY <1>0, <2>3 DEF Valid, Request
  <2> QED BY <1>2, <2>1, <2>2, <2>3
<1>3. CASE \E r \in DOMAIN requests : LinkExpires(r)
  BY <1>2, <1>3 DEF LinkExpires
<1>4. ASSUME NEW h \in Handlers,
             \/ SendConfirmationEmail(h)
             \/ ConsumeToken(h)
             \/ FailRequest(h)
             \/ CompleteRequest(h)
      PROVE  \E r \in DOMAIN requests :
               \/ \E s \in {"processing", "completed", "failed"} :
                    requests' = [requests EXCEPT ![r].status = s]
               \/ \E b \in BOOLEAN : requests' = [requests EXCEPT ![r].mailed = b]
  <2>1. task[h].req \in DOMAIN requests
    BY <1>4 DEF IInv, TaskOK, SendConfirmationEmail, ConsumeToken, FailRequest,
      CompleteRequest, At
  <2> QED BY <1>4, <2>1 DEF SendConfirmationEmail, ConsumeToken, FailRequest, CompleteRequest,
        SetRequest
<1>5. CASE \E h \in Handlers :
             \/ SendConfirmationEmail(h)
             \/ ConsumeToken(h)
             \/ FailRequest(h)
             \/ CompleteRequest(h)
  BY <1>2, <1>4, <1>5
<1>6. \/ requests' = requests
      \/ \E r \in DOMAIN requests : LinkExpires(r)
      \/ \E h \in Handlers :
           \/ SendConfirmationEmail(h)
           \/ ConsumeToken(h)
           \/ FailRequest(h)
           \/ CompleteRequest(h)
  BY DEF Next, AdminRequest, GdprRequest, TaskStep, Failure, UpdateUser, ReadTarget, CountAdmins,
    SetRole, SetStatus, BulkSuspendUsers, SuspendAll, DeleteUserViaGdpr, ReadVictim,
    RequireExport, Purge, RequestDataAction, LookForPending, ConfirmationEmailFails,
    ConfirmDataRequest, ReadRequest, BuildAndStoreExport, Erase, ProcessingThrows, Crash,
    TokenExpires, people, data
<1> QED BY <1>1, <1>3, <1>5, <1>6

(* ... and it is alone with having found none.                             *)
LEMMA OneValidStep ==
  ASSUME IInv, Alone, Next, ~crossed, ~crossed'
  PROVE  \A r, s \in DOMAIN requests' :
           /\ requests'[r].status = "pending" /\ ~requests'[r].late
           /\ requests'[s].status = "pending" /\ ~requests'[s].late
           /\ requests'[r].user = requests'[s].user
           /\ requests'[r].type = requests'[s].type
           => r = s
<1>1. CASE \A h \in Handlers : ~InsertRequest(h)
  BY <1>1, LinksStep DEF Alone
<1>2. ASSUME NEW h \in Handlers, InsertRequest(h)
      PROVE  \A r, s \in DOMAIN requests' :
               /\ requests'[r].status = "pending" /\ ~requests'[r].late
               /\ requests'[s].status = "pending" /\ ~requests'[s].late
               /\ requests'[r].user = requests'[s].user
               /\ requests'[r].type = requests'[s].type
               => r = s
  <2>0. requests \in Seq(Request) /\ task[h] \in Task /\ task[h].target \in Users
    BY <1>2 DEF IInv, TypeOK, TaskOK, InsertRequest, At
  <2>1. PICK q \in Request : /\ q.user = task[h].target /\ q.type = task[h].kind
                             /\ requests' = Append(requests, q)
    <3>1. [user |-> task[h].target, type |-> task[h].kind, late |-> FALSE,
           mailed |-> FALSE, status |-> "pending"] \in Request
      BY <2>0 DEF Request, Task
    <3> QED BY <1>2, <3>1 DEF InsertRequest
  <2>2. \A r \in DOMAIN requests : Valid(r) =>
          requests[r].user # q.user \/ requests[r].type # q.type
    BY <1>2, <2>1 DEF Alone, StillTrue, Pending, Valid, InsertRequest
  <2>3. /\ \A r \in DOMAIN requests : requests'[r] = requests[r]
        /\ \A r \in DOMAIN requests' :
             r \in DOMAIN requests \/ (r = Len(requests) + 1 /\ requests'[r] = q)
    BY <2>0, <2>1
  <2> QED BY <2>2, <2>3 DEF Alone, Valid
<1> QED BY <1>1, <1>2

(* Who counts two administrators leaves one.                               *)
LEMMA AnotherAdmin ==
  ASSUME NEW u, Cardinality(ActiveAdmins) > 1
  PROVE  \E v \in ActiveAdmins : v # u
<1> SUFFICES ASSUME ActiveAdmins \subseteq {u} PROVE FALSE
  OBVIOUS
<1>1. Cardinality(ActiveAdmins) <= Cardinality({u}) /\ Cardinality({u}) = 1
  BY FS_Singleton, FS_Subset
<1>2. Cardinality(ActiveAdmins) \in Nat
  BY FS_Singleton, FS_Subset, FS_CardinalityType
<1> QED BY <1>1, <1>2

LEMMA StillTrueStep ==
  ASSUME IInv, Alone, Next, ~crossed, NEW h \in Handlers, TaskStep(h) \/ Failure(h)
  PROVE  StillTrue(h)'
<1>0. /\ task \in [Handlers -> Task] /\ task[h] \in Task /\ TaskOK(h) /\ StillTrue(h)
  BY DEF IInv, TypeOK, Alone
<1>1. CASE Return(h)
  <2>1. task'[h].pc = "idle"
    BY <1>0, <1>1 DEF Return, Idle
  <2> QED BY <2>1 DEF StillTrue, At
<1>2. ASSUME NEW s, Goto(h, s)
      PROVE  /\ task'[h].pc = s
             /\ task'[h].target = task[h].target /\ task'[h].role = task[h].role
             /\ task'[h].kind = task[h].kind /\ task'[h].req = task[h].req
  BY <1>0, <1>2 DEF Goto, Task
<1>3. ASSUME NEW s \in {"status", "exports", "purge"}, Goto(h, s) PROVE StillTrue(h)'
  BY <1>2, <1>3 DEF StillTrue, At
<1>4. CASE InsertRequest(h)
  <2>1. task'[h].pc = "mail"
    BY <1>0, <1>4 DEF InsertRequest, Task
  <2> QED BY <2>1 DEF StillTrue, At
<1>5. CASE ReadTarget(h)
  <2>1. CASE ~Return(h)
    <3>1. account[task[h].target].role \in Roles
      BY <1>0, <1>5 DEF ReadTarget, At, TaskOK, IInv, TypeOK, Account
    <3>2. PICK s \in {"count", "role", "status"} :
            /\ task' = [task EXCEPT ![h].seen = account[task[h].target], ![h].pc = s]
            /\ s = "role" => /\ ChangesRole(task[h], account[task[h].target])
                            /\ account[task[h].target].role # "admin"
      BY <1>5, <2>1 DEF ReadTarget
    <3>3. task'[h].pc = s /\ task'[h].role = task[h].role
      BY <1>0, <3>2 DEF Task
    <3>4. s = "role" => task'[h].role = "admin"
      BY <1>0, <3>1, <3>2, <3>3 DEF ChangesRole, Task, Roles
    <3> QED BY <3>2, <3>3, <3>4 DEF StillTrue, At
  <2> QED BY <1>1, <2>1
<1>6. CASE CountAdmins(h)
  <2>1. CASE Goto(h, "role") /\ Cardinality(ActiveAdmins) > 1
    <3>1. PICK u \in ActiveAdmins : u # task[h].target
      BY <2>1, AnotherAdmin
    <3>2. account' = account
      BY <1>6 DEF CountAdmins, people
    <3>3. u \in ActiveAdmins'
      BY <3>1, <3>2 DEF ActiveAdmins
    <3> QED BY <1>2, <2>1, <3>1, <3>3 DEF StillTrue, At
  <2>2. Cardinality(ActiveAdmins) \in Nat
    <3>1. IsFiniteSet(ActiveAdmins)
      BY FS_Subset DEF ActiveAdmins
    <3> QED BY <3>1, FS_CardinalityType
  <2> QED BY <1>1, <1>6, <2>1, <2>2 DEF CountAdmins
<1>7. CASE LookForPending(h)
  <2>1. CASE Goto(h, "insert") /\ Pending(task[h].target, task[h].kind) = {}
    <3>1. requests' = requests
      BY <1>7 DEF LookForPending, data
    <3> QED BY <1>2, <2>1, <3>1 DEF StillTrue, At, Pending
  <2> QED BY <1>1, <1>7, <2>1 DEF LookForPending
<1>8. CASE ReadRequest(h)
  <2>1. CASE Goto(h, "consume") /\ Current(h).status = "pending"
    <3>1. requests' = requests
      BY <1>8 DEF ReadRequest, data
    <3> QED BY <1>2, <2>1, <3>1 DEF StillTrue, At, Current
  <2> QED BY <1>1, <1>8, <2>1 DEF ReadRequest
<1>9. CASE ConsumeToken(h)
  <2>1. requests \in Seq(Request) /\ task[h].req \in DOMAIN requests
    BY <1>0, <1>9 DEF IInv, TypeOK, TaskOK, ConsumeToken, At
  <2>2. requests[task[h].req] \in Request
    BY <2>1
  <2>3. requests'[task[h].req].status = "processing"
    BY <1>9, <2>1, <2>2 DEF ConsumeToken, SetRequest, Request
  <2>4. \E s \in {"pack", "erase"} : Goto(h, s)
    BY <1>9 DEF ConsumeToken
  <2> QED BY <1>2, <2>3, <2>4 DEF StillTrue, At
<1>10. CASE BuildAndStoreExport(h) \/ Erase(h) \/ ProcessingThrows(h)
  <2>1. requests' = requests /\ requests[task[h].req].status = "processing"
    BY <1>0, <1>10 DEF BuildAndStoreExport, Erase, ProcessingThrows, At, StillTrue, data
  <2>2. \E s \in {"complete", "fail"} : Goto(h, s)
    BY <1>10 DEF BuildAndStoreExport, Erase, ProcessingThrows
  <2> QED BY <1>2, <2>1, <2>2 DEF StillTrue, At
<1>11. \/ Return(h)
       \/ \E s \in {"status", "exports", "purge"} : Goto(h, s)
       \/ InsertRequest(h) \/ ReadTarget(h) \/ CountAdmins(h) \/ LookForPending(h)
       \/ ReadRequest(h) \/ ConsumeToken(h)
       \/ BuildAndStoreExport(h) \/ Erase(h) \/ ProcessingThrows(h)
  BY DEF TaskStep, Failure, SetRole, SetStatus, SuspendAll, ReadVictim, RequireExport, Purge,
    SendConfirmationEmail, CompleteRequest, FailRequest, ConfirmationEmailFails, Crash
<1> QED BY <1>1, <1>3, <1>4, <1>5, <1>6, <1>7, <1>8, <1>9, <1>10, <1>11

LEMMA AloneStep == IInv /\ Alone /\ [Next]_vars => Alone'
<1> SUFFICES ASSUME IInv, Alone, [Next]_vars, ~crossed' PROVE Alone'
  BY DEF Alone
<1>0. task \in [Handlers -> Task]
  BY DEF IInv, TypeOK
<1>1. CASE UNCHANGED vars
  BY <1>1 DEF Alone, StillTrue, Pending, Valid, ActiveAdmins, IsIdle, At, vars, people, data
<1>2. CASE Next
  <2>1. ~crossed
    BY <1>2 DEF Next, AdminRequest, GdprRequest, TaskStep, Failure, UpdateUser, ReadTarget,
      CountAdmins, SetRole, SetStatus, BulkSuspendUsers, SuspendAll, DeleteUserViaGdpr,
      ReadVictim, RequireExport, Purge, RequestDataAction, LookForPending, InsertRequest,
      SendConfirmationEmail, ConfirmationEmailFails, ConfirmDataRequest, ReadRequest,
      ConsumeToken, BuildAndStoreExport, Erase, ProcessingThrows, CompleteRequest, FailRequest,
      Crash, TokenExpires, LinkExpires, Begin
  <2>2. ASSUME \A h, k \in Handlers : ~IsIdle(h)' /\ ~IsIdle(k)' => h = k,
               \A h \in Handlers : StillTrue(h)'
        PROVE  Alone'
    BY <1>2, <2>1, <2>2, OneValidStep DEF Alone, Valid
  <2>3. ASSUME NEW h \in Handlers, NEW t, Begin(h, t),
               t.pc \in {"target", "bulk", "victim", "look", "link"}
        PROVE  Alone'
    <3>1. task'[h] = t /\ \A k \in Handlers \ {h} : task'[k] = task[k] /\ task[k].pc = "idle"
      BY <1>0, <2>3 DEF Begin, IsIdle
    <3>2. \A k \in Handlers : StillTrue(k)'
      BY <2>3, <3>1 DEF StillTrue, At
    <3> QED BY <2>2, <3>1, <3>2 DEF IsIdle
  <2>4. ASSUME NEW h \in Handlers, TaskStep(h) \/ Failure(h) PROVE Alone'
    <3>1. ~IsIdle(h) /\ \A k \in Handlers \ {h} : task'[k] = task[k]
      BY <1>0, <2>4 DEF TaskStep, Failure, ReadTarget, CountAdmins, SetRole, SetStatus,
        SuspendAll, ReadVictim, RequireExport, Purge, LookForPending, InsertRequest,
        SendConfirmationEmail, ReadRequest, ConsumeToken, BuildAndStoreExport, Erase,
        CompleteRequest, FailRequest, ConfirmationEmailFails, ProcessingThrows, Crash, Goto,
        Return, IsIdle, At
    <3>2. \A k \in Handlers \ {h} : task'[k].pc = "idle"
      BY <2>1, <3>1 DEF Alone, IsIdle
    <3>3. \A k \in Handlers : StillTrue(k)'
      <4>1. StillTrue(h)'
        BY <1>2, <2>1, <2>4, StillTrueStep
      <4> QED BY <3>2, <4>1 DEF StillTrue, At
    <3> QED BY <2>2, <3>2, <3>3 DEF IsIdle
  <2>5. ASSUME task' = task, account' = account,
               \/ requests' = requests
               \/ \E r \in DOMAIN requests : LinkExpires(r)
        PROVE  Alone'
    <3>1. \A h, k \in Handlers : ~IsIdle(h)' /\ ~IsIdle(k)' => h = k
      BY <2>1, <2>5 DEF Alone, IsIdle
    <3>2. ASSUME NEW h \in Handlers PROVE StillTrue(h)'
      <4>0. StillTrue(h) /\ TaskOK(h) /\ requests \in Seq(Request)
        BY <2>1 DEF Alone, IInv, TypeOK
      <4>1. CASE requests' = requests
        BY <2>5, <4>0, <4>1 DEF StillTrue, At, Pending, ActiveAdmins
      <4>2. ASSUME NEW r \in DOMAIN requests, LinkExpires(r)
            PROVE  /\ DOMAIN requests' = DOMAIN requests
                   /\ \A k \in DOMAIN requests :
                        /\ requests'[k].user = requests[k].user
                        /\ requests'[k].type = requests[k].type
                        /\ requests'[k].status = requests[k].status
                        /\ ~requests'[k].late => ~requests[k].late
        <5>1. requests' = [requests EXCEPT ![r].late = TRUE] /\ requests[r] \in Request
          BY <4>0, <4>2 DEF LinkExpires
        <5> QED BY <4>0, <5>1 DEF Request
      <4>3. CASE \E r \in DOMAIN requests : LinkExpires(r)
        <5>1. At(h, "insert") => Pending(task[h].target, task[h].kind)' = {}
          BY <2>5, <4>0, <4>2, <4>3 DEF StillTrue, Pending
        <5>2. task[h].pc \in {"consume", "pack", "erase", "complete", "fail"} =>
                requests'[task[h].req].status = requests[task[h].req].status
          BY <4>0, <4>2, <4>3 DEF TaskOK
        <5>3. ActiveAdmins' = ActiveAdmins
          BY <2>5 DEF ActiveAdmins
        <5> QED BY <2>5, <4>0, <5>1, <5>2, <5>3 DEF StillTrue, At
      <4> QED BY <2>5, <4>1, <4>3
    <3> QED BY <2>2, <3>1, <3>2
  <2>6. CASE AdminRequest \/ GdprRequest
    <3>1. ASSUME NEW h \in Handlers, NEW actor \in Users, NEW target \in Users, NEW role,
                 NEW status, UpdateUser(h, actor, target, role, status)
          PROVE  Alone'
      BY <2>3, <3>1 DEF UpdateUser, Idle
    <3>2. ASSUME NEW h \in Handlers, NEW actor \in Users, NEW target \in Users,
                 DeleteUserViaGdpr(h, actor, target)
          PROVE  Alone'
      BY <2>3, <3>2 DEF DeleteUserViaGdpr, Idle
    <3>3. ASSUME NEW h \in Handlers, NEW actor \in Users, NEW ids \in SUBSET Users,
                 BulkSuspendUsers(h, actor, ids)
          PROVE  Alone'
      BY <2>3, <3>3 DEF BulkSuspendUsers, Idle
    <3>4. ASSUME NEW h \in Handlers, NEW actor \in Users, NEW user \in Users,
                 NEW kind \in Kinds, RequestDataAction(h, actor, user, kind)
          PROVE  Alone'
      BY <2>3, <3>4 DEF RequestDataAction, Idle
    <3>5. ASSUME NEW h \in Handlers, NEW r \in DOMAIN requests, ConfirmDataRequest(h, r)
          PROVE  Alone'
      BY <2>3, <3>5 DEF ConfirmDataRequest, Idle
    <3> QED BY <2>6, <3>1, <3>2, <3>3, <3>4, <3>5 DEF AdminRequest, GdprRequest
  <2>7. CASE \/ \E u \in Users : TokenExpires(u)
             \/ \E r \in DOMAIN requests : LinkExpires(r)
    BY <2>5, <2>7 DEF TokenExpires, LinkExpires, people, data
  <2> QED BY <1>2, <2>4, <2>6, <2>7 DEF Next
<1> QED BY <1>1, <1>2

LEMMA OneLinkAlone == IInv /\ Alone => OneLink
<1> SUFFICES ASSUME IInv, Alone, ~crossed, NEW u \in Users, NEW kind \in Kinds
             PROVE  Cardinality(Pending(u, kind)) <= 1
  BY DEF OneLink
<1>1. \A r, s \in Pending(u, kind) : r = s
  BY DEF Alone, Valid, Pending
<1>2. CASE Pending(u, kind) = {}
  BY <1>2, FS_EmptySet
<1>3. CASE Pending(u, kind) # {}
  <2>1. PICK r \in Pending(u, kind) : Pending(u, kind) = {r}
    BY <1>1, <1>3
  <2>2. Cardinality({r}) = 1
    BY FS_Singleton
  <2> QED BY <2>1, <2>2
<1> QED BY <1>2, <1>3

(* Completed requests are carried out, exports come first and whoever      *)
(* confirms has received the link, always; and as long as calls do not     *)
(* overlap, a user has one valid confirmation link at most for what they   *)
(* asked.                                                                  *)
THEOREM RequestsAreKept == Spec => []AccountsInv
<1> QED BY AloneInit, AloneStep, OneLinkAlone, LinksReceivedInit, LinksReceivedKeeps, Invariant,
      PTL DEF Spec, AccountsInv

(* As long as calls do not overlap, the count of administrators that was   *)
(* read is still right when the role is written: one is always left.       *)
THEOREM DemotionsLeaveAdmins == Spec => DemotionLeavesAdmin
<1>1. IInv /\ Alone /\ [Next]_vars =>
        [~crossed /\ (\E u \in ActiveAdmins : account'[u].role # "admin")
           => ActiveAdmins' # {}]_vars
  <2> SUFFICES ASSUME IInv, Alone, Next, ~crossed, NEW u \in ActiveAdmins,
                      account'[u].role # "admin"
               PROVE  ActiveAdmins' # {}
    OBVIOUS
  <2>0. account \in [Users -> Account] /\ u \in Users /\ account[u].role = "admin"
    BY DEF IInv, TypeOK, ActiveAdmins
  <2>1. CASE \E h \in Handlers : SetRole(h)
    <3>1. PICK h \in Handlers : SetRole(h)
      BY <2>1
    <3>2. account' = [account EXCEPT ![task[h].target].role = task[h].role]
      BY <3>1 DEF SetRole
    <3>3. u = task[h].target /\ task[h].role # "admin"
      BY <2>0, <3>2 DEF Account
    <3>4. PICK v \in ActiveAdmins : v # task[h].target
      BY <3>1, <3>3 DEF Alone, StillTrue, SetRole
    <3>5. account'[v] = account[v]
      BY <2>0, <3>2, <3>4 DEF ActiveAdmins
    <3> QED BY <3>4, <3>5 DEF ActiveAdmins
  <2>2. CASE ~ \E h \in Handlers : SetRole(h)
    <3>1. account'[u].role = account[u].role
      <4>1. CASE account' = account
        BY <4>1
      <4>2. CASE \E h \in Handlers : SuspendAll(h)
        <5>1. \/ account'[u] = account[u]
              \/ account'[u] = [account[u] EXCEPT !.status = "suspended"]
          BY <2>0, <4>2 DEF SuspendAll
        <5> QED BY <2>0, <5>1 DEF Account
      <4>3. CASE \E x, s : account' = [account EXCEPT ![x].status = s]
        BY <2>0, <4>3 DEF Account
      <4>4. CASE \E h \in Handlers : SetStatus(h) \/ Purge(h) \/ Erase(h)
        <5>1. account' = account \/ \E x, s : account' = [account EXCEPT ![x].status = s]
          BY <4>4 DEF SetStatus, Purge, Erase, AnonymiseUser
        <5> QED BY <4>1, <4>3, <5>1
      <4>5. \/ account' = account
            \/ \E h \in Handlers : SuspendAll(h) \/ SetStatus(h) \/ Purge(h) \/ Erase(h)
        BY <2>2 DEF Next, AdminRequest, GdprRequest, TaskStep, Failure, UpdateUser, ReadTarget,
          CountAdmins, BulkSuspendUsers, DeleteUserViaGdpr, ReadVictim, RequireExport,
          RequestDataAction, LookForPending, InsertRequest, SendConfirmationEmail,
          ConfirmationEmailFails, ConfirmDataRequest, ReadRequest, ConsumeToken,
          BuildAndStoreExport, ProcessingThrows, CompleteRequest, FailRequest, Crash,
          TokenExpires, LinkExpires, people
      <4> QED BY <4>1, <4>2, <4>4, <4>5
    <3> QED BY <2>0, <3>1
  <2> QED BY <2>1, <2>2
<1> QED BY <1>1, AloneInit, AloneStep, Invariant, PTL DEF Spec, DemotionLeavesAdmin

(* As long as calls do not overlap, a confirmation link does its work once *)
(* and nothing reopens what was settled.                                   *)
THEOREM SettledStays == Spec => SettledOnce
<1>1. IInv /\ Alone /\ [Next]_vars =>
        [~crossed => \A r \in DOMAIN requests :
           requests[r].status \in {"completed", "failed"} =>
             requests'[r].status = requests[r].status]_vars
  <2> SUFFICES ASSUME IInv, Alone, Next, ~crossed, NEW r \in DOMAIN requests,
                      requests[r].status \in {"completed", "failed"}
               PROVE  requests'[r].status = requests[r].status
    OBVIOUS
  <2>0. requests \in Seq(Request) /\ requests[r] \in Request
    BY DEF IInv, TypeOK
  <2>1. CASE requests' = requests
    BY <2>1
  <2>2. CASE \E h \in Handlers : InsertRequest(h)
    <3>1. PICK q : requests' = Append(requests, q)
      BY <2>2 DEF InsertRequest
    <3> QED BY <2>0, <3>1
  <2>3. CASE \E k \in DOMAIN requests, b \in BOOLEAN :
               \/ requests' = [requests EXCEPT ![k].mailed = b]
               \/ requests' = [requests EXCEPT ![k].late = b]
    BY <2>0, <2>3 DEF Request
  <2>4. CASE \E h \in Handlers : ConsumeToken(h) \/ CompleteRequest(h) \/ FailRequest(h)
    <3>1. PICK h \in Handlers : ConsumeToken(h) \/ CompleteRequest(h) \/ FailRequest(h)
      BY <2>4
    <3>2. requests[task[h].req].status \in {"pending", "processing"}
      BY <3>1 DEF Alone, StillTrue, ConsumeToken, CompleteRequest, FailRequest, At
    <3>3. r # task[h].req
      BY <3>2
    <3>4. \E s : requests' = [requests EXCEPT ![task[h].req].status = s]
      BY <3>1 DEF ConsumeToken, CompleteRequest, FailRequest, SetRequest
    <3> QED BY <2>0, <3>3, <3>4
  <2>5. CASE \E h \in Handlers : SendConfirmationEmail(h)
    <3>1. PICK h \in Handlers : SendConfirmationEmail(h)
      BY <2>5
    <3>2. task[h].req \in DOMAIN requests
      BY <3>1 DEF IInv, TaskOK, SendConfirmationEmail, At
    <3> QED BY <2>3, <3>1, <3>2 DEF SendConfirmationEmail
  <2>6. \/ requests' = requests
        \/ \E k \in DOMAIN requests : LinkExpires(k)
        \/ \E h \in Handlers :
             \/ InsertRequest(h)
             \/ SendConfirmationEmail(h)
             \/ ConsumeToken(h)
             \/ CompleteRequest(h)
             \/ FailRequest(h)
    BY DEF Next, AdminRequest, GdprRequest, TaskStep, Failure, UpdateUser, ReadTarget,
      CountAdmins, SetRole, SetStatus, BulkSuspendUsers, SuspendAll, DeleteUserViaGdpr,
      ReadVictim, RequireExport, Purge, RequestDataAction, LookForPending,
      ConfirmationEmailFails, ConfirmDataRequest, ReadRequest, BuildAndStoreExport, Erase,
      ProcessingThrows, Crash, TokenExpires, people, data
  <2>7. CASE \E k \in DOMAIN requests : LinkExpires(k)
    BY <2>3, <2>7 DEF LinkExpires
  <2> QED BY <2>1, <2>2, <2>4, <2>5, <2>6, <2>7
<1> QED BY <1>1, AloneInit, AloneStep, Invariant, PTL DEF Spec, SettledOnce

-----------------------------------------------------------------------------
(* Beside accounts: sessions, launches and sign-in                         *)
HIDE AccountsAssumption
USE IdentityAssumption

-----------------------------------------------------------------------------
(* Data requests implement DataRights *)

Filed == archive \subseteq DOMAIN requests

(* An export is stored of the request at hand.                             *)
LEMMA FiledStep == IInv /\ Filed /\ [Next]_vars => Filed'
<1> SUFFICES ASSUME IInv, Filed, [Next]_vars PROVE Filed'
  OBVIOUS
<1>1. CASE UNCHANGED vars
  BY <1>1 DEF Filed, vars, data
<1>2. CASE Next
  <2>1. DOMAIN requests \subseteq DOMAIN requests'
    BY <1>2, RequestsStep
  <2>2. ASSUME NEW h \in Handlers, BuildAndStoreExport(h) PROVE Filed'
    BY <2>1, <2>2 DEF BuildAndStoreExport, Filed, IInv, TaskOK, At
  <2>3. CASE archive' = archive
    BY <2>1, <2>3 DEF Filed
  <2>4. archive' = archive \/ \E h \in Handlers : BuildAndStoreExport(h)
    BY <1>2 DEF Next, AdminRequest, GdprRequest, TaskStep, Failure, UpdateUser, ReadTarget,
      CountAdmins, SetRole, SetStatus, BulkSuspendUsers, SuspendAll, DeleteUserViaGdpr,
      ReadVictim, RequireExport, Purge, RequestDataAction, LookForPending, InsertRequest,
      SendConfirmationEmail, ConfirmationEmailFails, ConfirmDataRequest, ReadRequest,
      ConsumeToken, Erase, ProcessingThrows, CompleteRequest, FailRequest, Crash,
      TokenExpires, LinkExpires, data
  <2> QED BY <2>2, <2>3, <2>4
<1> QED BY <1>1, <1>2

Who == {u \in Users : Exported(u)}

(* What a request is about does not change.                                *)
LEMMA MattersStay ==
  ASSUME IInv, Next, NEW r \in DOMAIN requests
  PROVE  r \in DOMAIN requests' /\ Matter(r)' = Matter(r)
  BY RequestsStep DEF Matter

(* Who has an export in the storage, unless one is stored now.             *)
LEMMA ExportsSame ==
  ASSUME IInv, Filed, Next, archive' = archive
  PROVE  Who' = Who
<1>1. ASSUME NEW u \in Users, Exported(u)' PROVE Exported(u)
  <2>1. PICK r \in archive' \intersect DOMAIN requests' :
               requests'[r].user = u /\ requests'[r].type = "export"
    BY <1>1 DEF Exported
  <2>2. r \in archive \intersect DOMAIN requests
    BY <2>1 DEF Filed
  <2>3. requests[r].user = u /\ requests[r].type = "export"
    BY <2>1, <2>2, RequestsStep
  <2> QED BY <2>2, <2>3 DEF Exported
<1>2. \A u \in Users : Exported(u) => Exported(u)'
  BY ExportedStays
<1> QED BY <1>1, <1>2 DEF Who

(* The links received, unless one is sent now.                             *)
LEMMA InvitedSame ==
  ASSUME IInv, Next, \A h \in Handlers : ~SendConfirmationEmail(h)
  PROVE  Invited' = Invited
<1>1. \A r \in DOMAIN requests :
        /\ r \in DOMAIN requests' /\ requests'[r].mailed = requests[r].mailed
        /\ Matter(r)' = Matter(r)
  BY MailedStep, MattersStay
<1>2. ASSUME NEW r \in DOMAIN requests', r \notin DOMAIN requests PROVE ~requests'[r].mailed
  <2>1. ASSUME NEW h \in Handlers, InsertRequest(h) PROVE ~requests'[r].mailed
    BY <1>2, <2>1, RequestMade
  <2>2. ASSUME NEW q \in DOMAIN requests, LinkExpires(q) PROVE FALSE
    BY <1>2, <2>2, RequestWritten DEF LinkExpires
  <2>3. ASSUME NEW h \in Handlers,
               SendConfirmationEmail(h) \/ ConsumeToken(h) \/ FailRequest(h) \/ CompleteRequest(h)
        PROVE  FALSE
    <3>1. PICK q \in DOMAIN requests :
            \/ \E v \in {"processing", "failed", "completed"} :
                 requests' = [requests EXCEPT ![q].status = v]
            \/ \E b \in BOOLEAN : requests' = [requests EXCEPT ![q].mailed = b]
      BY <2>3, CallWrites
    <3>2. DOMAIN requests' = DOMAIN requests
      BY <3>1, RequestWritten
    <3> QED BY <1>2, <3>2
  <2> QED BY <1>2, <2>1, <2>2, <2>3, RequestsGo
<1>3. Invited' = {Matter(r)' : r \in {q \in DOMAIN requests' : requests'[q].mailed}}
  BY DEF Invited
<1>4. {q \in DOMAIN requests' : requests'[q].mailed} = {q \in DOMAIN requests : requests[q].mailed}
  BY <1>1, <1>2
<1> QED BY <1>1, <1>3, <1>4 DEF Invited

(* The requests reported done, unless one is settled or confirmed now.     *)
LEMMA ReportedSame ==
  ASSUME IInv, Next,
         \A h \in Handlers : ~ConsumeToken(h) /\ ~FailRequest(h) /\ ~CompleteRequest(h)
  PROVE  Reported' = Reported
<1>1. \A r \in DOMAIN requests :
        /\ r \in DOMAIN requests' /\ Matter(r)' = Matter(r)
        /\ requests'[r].status = requests[r].status
  <2>1. \A r \in DOMAIN requests : r \in DOMAIN requests' /\ Matter(r)' = Matter(r)
    BY MattersStay
  <2>2. ASSUME NEW r \in DOMAIN requests PROVE requests'[r].status = requests[r].status
    <3>1. ASSUME NEW q \in DOMAIN requests, LinkExpires(q)
          PROVE  requests'[r].status = requests[r].status
      BY <3>1, RequestWritten DEF LinkExpires
    <3>2. ASSUME NEW h \in Handlers, InsertRequest(h)
          PROVE  requests'[r].status = requests[r].status
      BY <3>2, RequestMade
    <3>3. ASSUME NEW h \in Handlers, SendConfirmationEmail(h)
          PROVE  requests'[r].status = requests[r].status
      <4>1. PICK q \in DOMAIN requests, b \in BOOLEAN : requests' = [requests EXCEPT ![q].mailed = b]
        BY <3>3, CallWrites
      <4>2. CASE r = q
        BY <4>1, <4>2, RequestWritten
      <4>3. CASE r # q
        BY <4>1, <4>3, RequestWritten
      <4> QED BY <4>2, <4>3
    <3> QED BY <3>1, <3>2, <3>3, RequestsGo
  <2> QED BY <2>1, <2>2
<1>2. \A r \in DOMAIN requests' : r \in DOMAIN requests \/ requests'[r].status = "pending"
  BY RequestsStep
<1>3. Reported' = {Matter(r)' : r \in {q \in DOMAIN requests' : requests'[q].status = "completed"}}
  BY DEF Reported
<1>4. {q \in DOMAIN requests' : requests'[q].status = "completed"}
        = {q \in DOMAIN requests : requests[q].status = "completed"}
  BY <1>1, <1>2
<1> QED BY <1>1, <1>3, <1>4 DEF Reported

(* A call in flight is about a user, and its request is of that user.      *)
LEMMA MatterAtHand ==
  ASSUME IInv, NEW h \in Handlers, task[h].pc \in Received \union {"mail"}
  PROVE  /\ task[h].req \in DOMAIN requests /\ task[h].target \in Users
         /\ task[h].kind \in Rights!Kinds
         /\ Matter(task[h].req) = <<task[h].target, task[h].kind>>
<1>1. task[h] \in Task /\ TaskOK(h)
  BY DEF IInv, TypeOK
<1> QED BY <1>1 DEF TaskOK, Task, Current, Matter, Received, Kinds, Rights!Kinds

(* A request is mailed or settled by one call, not by two.                 *)
LEMMA MailedOrSettled ==
  ASSUME IInv, NEW k \in Handlers, SendConfirmationEmail(k),
         NEW h \in Handlers, ConsumeToken(h) \/ FailRequest(h) \/ CompleteRequest(h)
  PROVE  FALSE
<1>0. task \in [Handlers -> Task] /\ task[h] \in Task
  BY DEF IInv, TypeOK
<1>1. k # h
  BY DEF SendConfirmationEmail, ConsumeToken, FailRequest, CompleteRequest, At
<1>2. task'[h] = task[h]
  BY <1>0, <1>1 DEF SendConfirmationEmail, Return
<1>3. task'[h].pc # task[h].pc
  <2>1. CASE ConsumeToken(h)
    <3>1. PICK s \in {"pack", "erase"} : Goto(h, s)
      BY <2>1 DEF ConsumeToken
    <3> QED BY <1>0, <2>1, <3>1 DEF ConsumeToken, Goto, At, Task
  <2>2. CASE FailRequest(h) \/ CompleteRequest(h)
    BY <1>0, <2>2 DEF FailRequest, CompleteRequest, At, Return, Idle
  <2> QED BY <2>1, <2>2
<1> QED BY <1>2, <1>3

LEMMA InviteStep ==
  ASSUME IInv, LinksReceived, Filed, Next, NEW h \in Handlers, SendConfirmationEmail(h)
  PROVE  [Rights!Next]_(Rights!vars)
<1> DEFINE r == task[h].req
<1>1. /\ At(h, "mail") /\ r \in DOMAIN requests
      /\ \E b \in BOOLEAN : requests' = [requests EXCEPT ![r].mailed = b]
      /\ archive' = archive /\ erased' = erased
  BY CallWrites DEF SendConfirmationEmail, people
<1>2. /\ task[h].target \in Users /\ task[h].kind \in Rights!Kinds
      /\ Matter(r) = <<task[h].target, task[h].kind>>
  BY <1>1, MatterAtHand DEF At
<1>3. ~requests[r].mailed
  BY <1>1 DEF LinksReceived, Current
<1>4. Who' = Who
  BY <1>1, ExportsSame
<1>5. Reported' = Reported
  BY MailedOrSettled, ReportedSame
<1>6. /\ DOMAIN requests' = DOMAIN requests
      /\ \A q \in DOMAIN requests : q # r => requests'[q] = requests[q]
      /\ \A q \in DOMAIN requests : Matter(q)' = Matter(q)
  BY <1>1, RequestWritten, MattersStay
<1>7. CASE requests'[r].mailed
  <2>1. {q \in DOMAIN requests' : requests'[q].mailed}
          = {q \in DOMAIN requests : requests[q].mailed} \union {r}
    BY <1>1, <1>6, <1>7
  <2>2. Invited' = {Matter(q)' : q \in {q \in DOMAIN requests' : requests'[q].mailed}}
    BY DEF Invited
  <2>3. Invited' = Invited \union {Matter(r)}
    BY <1>1, <1>6, <2>1, <2>2 DEF Invited
  <2>4. Rights!Invite(task[h].target, task[h].kind)
    BY <1>1, <1>2, <1>4, <1>5, <2>3 DEF Rights!Invite, Who
  <2> QED BY <1>2, <2>4 DEF Rights!Next
<1>8. CASE ~requests'[r].mailed
  <2>1. {q \in DOMAIN requests' : requests'[q].mailed} = {q \in DOMAIN requests : requests[q].mailed}
    BY <1>1, <1>3, <1>6, <1>8
  <2>2. Invited' = {Matter(q)' : q \in {q \in DOMAIN requests' : requests'[q].mailed}}
    BY DEF Invited
  <2>3. Invited' = Invited
    BY <1>6, <2>1, <2>2 DEF Invited
  <2> QED BY <1>1, <1>4, <1>5, <2>3 DEF Rights!vars, Who
<1> QED BY <1>7, <1>8

(* Consuming the token of a request, or failing it, takes its report back; *)
(* completing it reports what was done.                                    *)
LEMMA SettleStep ==
  ASSUME IInv, Filed, Next, NEW h \in Handlers,
         ConsumeToken(h) \/ FailRequest(h) \/ CompleteRequest(h)
  PROVE  [Rights!Next]_(Rights!vars)
<1> DEFINE r == task[h].req
<1>1. /\ task[h].pc \in Received
      /\ archive' = archive /\ erased' = erased
  BY DEF ConsumeToken, FailRequest, CompleteRequest, At, people, Received
<1>2. /\ task[h].target \in Users /\ task[h].kind \in Rights!Kinds /\ r \in DOMAIN requests
      /\ Matter(r) = <<task[h].target, task[h].kind>>
  BY <1>1, MatterAtHand
<1>3. PICK v : /\ requests' = [requests EXCEPT ![r].status = v]
               /\ v = "completed" => CompleteRequest(h)
               /\ v # "completed" => ~CompleteRequest(h)
  <2>1. CASE ConsumeToken(h)
    BY <2>1 DEF ConsumeToken, CompleteRequest, SetRequest, At
  <2>2. CASE FailRequest(h)
    BY <2>2 DEF FailRequest, CompleteRequest, SetRequest, At
  <2>3. CASE CompleteRequest(h)
    BY <2>3 DEF CompleteRequest, SetRequest
  <2> QED BY <2>1, <2>2, <2>3
<1>4. Who' = Who
  BY <1>1, ExportsSame
<1>5. Invited' = Invited
  BY MailedOrSettled, InvitedSame
<1>6. /\ DOMAIN requests' = DOMAIN requests
      /\ \A q \in DOMAIN requests : q # r => requests'[q] = requests[q]
      /\ \A q \in DOMAIN requests : Matter(q)' = Matter(q)
      /\ requests'[r].status = v
  BY <1>2, <1>3, RequestWritten, MattersStay
<1>7. Reported' = {Matter(q)' : q \in {q \in DOMAIN requests' : requests'[q].status = "completed"}}
  BY DEF Reported
<1>8. CASE v = "completed"
  <2>1. {q \in DOMAIN requests' : requests'[q].status = "completed"}
          = {q \in DOMAIN requests : requests[q].status = "completed"} \union {r}
    BY <1>2, <1>6, <1>8
  <2>2. Reported' = Reported \union {Matter(r)}
    BY <1>2, <1>6, <1>7, <2>1 DEF Reported
  <2>3. Rights!Done(task[h].target, task[h].kind)
    <3>1. TaskOK(h) /\ At(h, "complete")
      BY <1>3, <1>8 DEF IInv, CompleteRequest
    <3>2. CASE task[h].kind = "export"
      <4>1. r \in archive \intersect DOMAIN requests
        BY <1>2, <3>1, <3>2 DEF TaskOK, At
      <4>2. requests[r].user = task[h].target /\ requests[r].type = "export"
        BY <3>1, <3>2 DEF TaskOK, At, Current
      <4> QED BY <1>2, <3>2, <4>1, <4>2 DEF Rights!Done, Exported
    <3>3. CASE task[h].kind # "export"
      BY <3>1, <3>3 DEF TaskOK, At, Rights!Done
    <3> QED BY <3>2, <3>3
  <2>4. Rights!Report(task[h].target, task[h].kind)
    BY <1>1, <1>2, <1>4, <1>5, <2>2, <2>3 DEF Rights!Report, Who
  <2> QED BY <1>2, <2>4 DEF Rights!Next
<1>9. CASE v # "completed"
  <2>1. {q \in DOMAIN requests' : requests'[q].status = "completed"}
          = {q \in DOMAIN requests : requests[q].status = "completed"} \ {r}
    BY <1>2, <1>6, <1>9
  <2>2. Reported' = Reported \/ Reported' = Reported \ {Matter(r)}
    <3>1. Reported' = {Matter(q) : q \in {q \in DOMAIN requests : requests[q].status = "completed"} \ {r}}
      BY <1>6, <1>7, <2>1
    <3>2. CASE Matter(r) \in Reported'
      BY <3>1, <3>2 DEF Reported
    <3>3. CASE Matter(r) \notin Reported'
      BY <3>1, <3>3 DEF Reported
    <3> QED BY <3>2, <3>3
  <2>3. CASE Reported' = Reported
    BY <1>1, <1>4, <1>5, <2>3 DEF Rights!vars, Who
  <2>4. CASE Reported' = Reported \ {Matter(r)}
    <3>1. Rights!TakeBack(task[h].target, task[h].kind)
      BY <1>1, <1>2, <1>4, <1>5, <2>4 DEF Rights!TakeBack, Who
    <3> QED BY <1>2, <3>1 DEF Rights!Next
  <2> QED BY <2>2, <2>3, <2>4
<1> QED BY <1>8, <1>9

(* An export is stored for somebody who received the link to confirm it.   *)
LEMMA StoreStep ==
  ASSUME IInv, LinksReceived, Filed, Next, NEW h \in Handlers, BuildAndStoreExport(h)
  PROVE  [Rights!Next]_(Rights!vars)
<1>0. PICK r, u : r = task[h].req /\ u = task[h].target
  OBVIOUS
<1>1. /\ At(h, "pack") /\ TaskOK(h) /\ archive' = archive \union {r}
      /\ requests' = requests /\ erased' = erased
  BY <1>0 DEF BuildAndStoreExport, IInv, people
<1>2. /\ u \in Users /\ r \in DOMAIN requests /\ task[h].kind = "export"
      /\ Matter(r) = <<u, "export">>
      /\ requests[r].user = u /\ requests[r].type = "export"
  BY <1>0, <1>1, MatterAtHand DEF At, Received, TaskOK, Current
<1>3. Invited' = Invited /\ Reported' = Reported
  BY <1>1 DEF Invited, Reported, Matter
<1>4. <<u, "export">> \in Invited
  <2>1. requests[r].mailed
    BY <1>0, <1>1 DEF LinksReceived, At, Current
  <2> QED BY <1>2, <2>1 DEF Invited
<1>5. Who' = Who \union {u}
  <2>1. \A w \in Users : Exported(w) => Exported(w)'
    BY <1>1 DEF Exported
  <2>2. Exported(u)'
    <3>1. /\ r \in archive' \intersect DOMAIN requests'
          /\ requests'[r].user = u /\ requests'[r].type = "export"
      BY <1>1, <1>2
    <3> QED BY <3>1 DEF Exported
  <2>3. ASSUME NEW w \in Users, Exported(w)', w # u PROVE Exported(w)
    BY <1>1, <1>2, <2>3 DEF Exported
  <2>4. \A w : w \in Who' <=> w \in Users /\ Exported(w)'
    BY DEF Who
  <2>5. \A w : w \in Who <=> w \in Users /\ Exported(w)
    BY DEF Who
  <2> QED BY <1>2, <2>1, <2>2, <2>3, <2>4, <2>5
<1>6. Rights!Export(u)
  BY <1>1, <1>3, <1>4, <1>5 DEF Rights!Export, Who
<1> QED BY <1>2, <1>6 DEF Rights!Next

(* An account is anonymised for somebody who received the link to confirm  *)
(* it, or by an administrator once its export is stored.                   *)
LEMMA AnonymiseStep ==
  ASSUME IInv, LinksReceived, Filed, Next, NEW h \in Handlers, Erase(h) \/ Purge(h)
  PROVE  [Rights!Next]_(Rights!vars)
<1> DEFINE u == task[h].target
<1>0. erased \in [Users -> {"no", "request", "admin"}] /\ TaskOK(h)
  BY DEF IInv, TypeOK
<1>1. PICK who \in {"request", "admin"} :
        /\ erased' = [erased EXCEPT ![u] = IF @ = "no" THEN who ELSE @]
        /\ who = "request" => At(h, "erase")
        /\ who = "admin" => At(h, "purge")
  BY DEF Erase, Purge, AnonymiseUser, Subject
<1>2. requests' = requests /\ archive' = archive
  BY DEF Erase, Purge, data
<1>3. Invited' = Invited /\ Reported' = Reported /\ Who' = Who
  BY <1>2 DEF Invited, Reported, Matter, Who, Exported
<1>4. u \in Users
  BY <1>0, <1>1 DEF TaskOK, At
<1>5. CASE erased[u] # "no"
  <2>1. erased' = erased
    BY <1>0, <1>1, <1>4, <1>5
  <2> QED BY <1>3, <2>1 DEF Rights!vars, Who
<1>6. CASE erased[u] = "no"
  <2>1. IF who = "request" THEN <<u, "delete">> \in Invited ELSE u \in Who
    <3>1. CASE who = "request"
      <4>1. /\ task[h].req \in DOMAIN requests /\ task[h].kind = "delete"
            /\ Matter(task[h].req) = <<u, "delete">>
        BY <1>0, <1>1, <3>1, MatterAtHand DEF At, Received, TaskOK
      <4>2. requests[task[h].req].mailed
        BY <1>1, <3>1 DEF LinksReceived, At, Current
      <4> QED BY <3>1, <4>1, <4>2 DEF Invited
    <3>2. CASE who # "request"
      BY <1>0, <1>1, <1>4, <3>2 DEF TaskOK, At, Who
    <3> QED BY <3>1, <3>2
  <2>2. erased' = [erased EXCEPT ![u] = who]
    BY <1>1, <1>6
  <2>3. Rights!Anonymise(u, who)
    BY <1>3, <1>6, <2>1, <2>2 DEF Rights!Anonymise, Who
  <2> QED BY <1>4, <2>3 DEF Rights!Next
<1> QED BY <1>5, <1>6

(* The others change nothing of it.                                        *)
LEMMA MapRights == IInv /\ LinksReceived /\ Filed /\ [Next]_vars => [Rights!Next]_(Rights!vars)
<1> SUFFICES ASSUME IInv, LinksReceived, Filed, [Next]_vars PROVE [Rights!Next]_(Rights!vars)
  OBVIOUS
<1>1. CASE UNCHANGED vars
  BY <1>1 DEF vars, people, data, Rights!vars, Invited, Reported, Matter, Exported
<1>2. CASE Next
  <2>1. ASSUME NEW h \in Handlers, SendConfirmationEmail(h)
        PROVE  [Rights!Next]_(Rights!vars)
    BY <1>2, <2>1, InviteStep
  <2>2. ASSUME NEW h \in Handlers, ConsumeToken(h) \/ FailRequest(h) \/ CompleteRequest(h)
        PROVE  [Rights!Next]_(Rights!vars)
    BY <1>2, <2>2, SettleStep
  <2>3. ASSUME NEW h \in Handlers, BuildAndStoreExport(h)
        PROVE  [Rights!Next]_(Rights!vars)
    BY <1>2, <2>3, StoreStep
  <2>4. ASSUME NEW h \in Handlers, Erase(h) \/ Purge(h)
        PROVE  [Rights!Next]_(Rights!vars)
    BY <1>2, <2>4, AnonymiseStep
  <2>5. CASE \A h \in Handlers :
               /\ ~SendConfirmationEmail(h) /\ ~ConsumeToken(h) /\ ~FailRequest(h)
               /\ ~CompleteRequest(h) /\ ~BuildAndStoreExport(h) /\ ~Erase(h) /\ ~Purge(h)
    <3>1. archive' = archive /\ erased' = erased
      BY <1>2, <2>5 DEF Next, AdminRequest, GdprRequest, TaskStep, Failure, UpdateUser,
        ReadTarget, CountAdmins, SetRole, SetStatus, BulkSuspendUsers, SuspendAll,
        DeleteUserViaGdpr, ReadVictim, RequireExport, RequestDataAction, LookForPending,
        InsertRequest, ConfirmationEmailFails, ConfirmDataRequest, ReadRequest,
        ProcessingThrows, Crash, TokenExpires, LinkExpires, people, data
    <3>2. Who' = Who /\ Invited' = Invited /\ Reported' = Reported
      BY <1>2, <2>5, <3>1, ExportsSame, InvitedSame, ReportedSame
    <3> QED BY <3>1, <3>2 DEF Rights!vars, Who
  <2> QED BY <2>1, <2>2, <2>3, <2>4, <2>5
<1> QED BY <1>1, <1>2

(* Whatever overlaps and whatever fails, an export is made and an account  *)
(* anonymised only for somebody who received the link to confirm it, or    *)
(* anonymised by an administrator once an export is stored; once; and what *)
(* is reported done has been done.                                         *)
THEOREM ImplementsRights == Spec => RightsSpec
<1>1. Init => Rights!Init /\ LinksReceived /\ Filed
  <2> SUFFICES ASSUME Init PROVE Rights!Init /\ LinksReceived /\ Filed
    OBVIOUS
  <2>1. requests = <<>> /\ DOMAIN requests = {} /\ archive = {} /\ erased = [u \in Users |-> "no"]
    BY DEF Init
  <2>2. Rights!Init
    BY <2>1 DEF Rights!Init, Invited, Reported, Exported
  <2> QED BY <2>1, <2>2, LinksReceivedInit DEF Filed
<1>2. IInv /\ LinksReceived /\ Filed /\ [Next]_vars => [Rights!Next]_(Rights!vars)
  BY MapRights
<1> QED BY <1>1, <1>2, LinksReceivedKeeps, FiledStep, Invariant, PTL
      DEF Spec, RightsSpec, Rights!Spec

-----------------------------------------------------------------------------
(* Sign-in with Google or Microsoft: what a step of one trip leaves alone *)

LEMMA SocialNames ==
  /\ Social!Callback = {"exchange", "verify", "find", "link", "create", "issue"}
  /\ Social!Callback \subseteq Social!Step
  /\ \A s \in {"none", "asked", "away", "back", "home", "refused"} :
       s \in Social!Step /\ s \notin Social!Callback
BY DEF Social!Callback, Social!Step

LEMMA TripGoes ==
  ASSUME Social!TypeOK, NEW t \in Handlers, NEW s \in Social!Step, Social!Goto(t, s)
  PROVE  /\ trip' \in [Handlers -> Social!Trip] /\ trip'[t].pc = s
         /\ trip'[t].provider = trip[t].provider /\ trip'[t].subject = trip[t].subject
         /\ trip'[t].page = trip[t].page
         /\ \A o \in Handlers \ {t} : trip'[o] = trip[o]
<1>1. ASSUME NEW r \in Social!Trip
      PROVE  /\ [r EXCEPT !.pc = s] \in Social!Trip /\ [r EXCEPT !.pc = s].pc = s
             /\ [r EXCEPT !.pc = s].provider = r.provider
             /\ [r EXCEPT !.pc = s].subject = r.subject /\ [r EXCEPT !.pc = s].page = r.page
  BY DEF Social!Trip
<1>2. trip \in [Handlers -> Social!Trip] /\ trip' = [trip EXCEPT ![t] = [trip[t] EXCEPT !.pc = s]]
  BY DEF Social!TypeOK, Social!Goto
<1>3. trip[t] \in Social!Trip
  BY <1>2
<1>4. trip'[t] = [trip[t] EXCEPT !.pc = s] /\ \A o \in Handlers \ {t} : trip'[o] = trip[o]
  BY <1>2
<1>5. trip' \in [Handlers -> Social!Trip]
  BY <1>1, <1>2, <1>3
<1> QED BY <1>1, <1>3, <1>4, <1>5

(* A trip moves on and the account stays.                                  *)
LEMMA TripMoves ==
  ASSUME Social!SocialSignInInv, NEW t \in Handlers,
         UNCHANGED <<owner, firstLink>>, interwoven => interwoven',
         trip' \in [Handlers -> Social!Trip], \A o \in Handlers \ {t} : trip'[o] = trip[o],
         Social!TypeOK',
         trip'[t].pc \in Social!Callback /\ trip[t].pc \notin Social!Callback =>
           interwoven' \/ \A o \in Handlers \ {t} : trip[o].pc \notin Social!Callback,
         trip'[t].pc \in Social!Callback \union {"home"} => trip'[t].page = t,
         trip'[t].pc = "home" => trip[t].pc = "issue" /\ trip'[t].subject = trip[t].subject,
         trip'[t].pc \in {"issue", "home"} => owner.exists /\ owner.verified,
         Social!TripOK(t)'
  PROVE  Social!SocialSignInInv'
<1>0. /\ Social!TypeOK /\ Social!HomeIsOwn /\ Social!LinkIsFinal
      /\ Social!SessionsAreOfTheAddress /\ Social!Alone
      /\ \A o \in Handlers : Social!TripOK(o)
      /\ ~owner.exists => owner.linked = Nobody
  BY DEF Social!SocialSignInInv
<1>1. Social!HomeIsOwn'
  BY <1>0 DEF Social!HomeIsOwn
<1>2. Social!LinkIsFinal'
  BY <1>0 DEF Social!LinkIsFinal, Social!At, Social!TripOK
<1>3. Social!SessionsAreOfTheAddress'
  <2>1. \A o \in {"issue", "home"} : o \in Social!Callback \union {"back", "home"}
    BY SocialNames
  <2>2. trip'[t].pc \in {"issue", "home"} =>
          trip'[t].subject \in Logins /\ ProviderOf[trip'[t].subject] = trip'[t].provider
    BY <2>1 DEF Social!TripOK
  <2> QED BY <1>0, <2>2 DEF Social!SessionsAreOfTheAddress
<1>4. Social!Alone'
  BY <1>0 DEF Social!Alone
<1>5. \A o \in Handlers : Social!TripOK(o)'
  <2> SUFFICES ASSUME NEW o \in Handlers \ {t} PROVE Social!TripOK(o)'
    OBVIOUS
  <2> QED BY <1>0 DEF Social!TripOK
<1> QED BY <1>0, <1>1, <1>2, <1>3, <1>4, <1>5 DEF Social!SocialSignInInv

-----------------------------------------------------------------------------
(* Sign-in with Google or Microsoft: the steps *)

LEMMA SocialInit == Social!Init => Social!SocialSignInInv
<1> SUFFICES ASSUME Social!Init PROVE Social!SocialSignInInv
  OBVIOUS
<1>1. PICK p \in [Handlers -> Providers] :
        trip = [t \in Handlers |-> [pc |-> "none", provider |-> p[t], subject |-> Nobody,
                                    linked |-> Nobody, page |-> Nobody]]
  BY DEF Social!Init
<1>2. PICK there \in BOOLEAN : owner = [exists |-> there, linked |-> Nobody, verified |-> FALSE]
  BY DEF Social!Init
<1>3. Social!TypeOK
  <2>1. trip \in [Handlers -> Social!Trip]
    BY <1>1 DEF Social!Trip, Social!Step
  <2>2. /\ keys \in [Providers -> Social!KeySets]
        /\ discovered \in [Providers -> Social!KeySets \union {0}] /\ fetched = discovered
    BY DEF Social!Init, Social!KeySets
  <2> QED BY <1>2, <2>1, <2>2 DEF Social!Init, Social!TypeOK
<1>4. \A t \in Handlers : trip[t].pc = "none"
  BY <1>1
<1> QED BY <1>2, <1>3, <1>4, SocialNames DEF Social!Init, Social!SocialSignInInv, Social!HomeIsOwn,
        Social!LinkIsFinal, Social!SessionsAreOfTheAddress, Social!Alone, Social!TripOK, Social!At

(* A trip begins, and is away at its provider until the person comes back. *)
LEMMA AwayStep ==
  ASSUME Social!SocialSignInInv, NEW t \in Handlers,
         Social!Ask(t) \/ Social!SsoAuthorizationUrl(t) \/ Social!DiscoveryFails(t)
           \/ Social!Consent(t)
  PROVE  Social!SocialSignInInv'
<1>0. Social!TypeOK
  BY DEF Social!SocialSignInInv
<1>1. UNCHANGED <<owner, firstLink, interwoven, keys, fetched>> /\ jar' \in {jar, t}
  BY DEF Social!Ask, Social!SsoAuthorizationUrl, Social!DiscoveryFails, Social!Consent,
     Social!caches
<1>2. discovered' \in [Providers -> Social!KeySets \union {0}]
  BY <1>0 DEF Social!Ask, Social!SsoAuthorizationUrl, Social!DiscoveryFails, Social!Consent,
     Social!caches, Social!GetDiscovery, Social!TypeOK
<1>3. CASE \E s \in {"asked", "away", "refused"} : Social!Goto(t, s)
  <2>1. PICK s \in {"asked", "away", "refused"} : Social!Goto(t, s)
    BY <1>3
  <2>2. s \in Social!Step /\ s \notin Social!Callback /\ s \notin {"back", "home", "issue", "link"}
    BY SocialNames
  <2>3. /\ trip' \in [Handlers -> Social!Trip] /\ trip'[t].pc = s
        /\ \A o \in Handlers \ {t} : trip'[o] = trip[o]
    BY <1>0, <2>1, <2>2, TripGoes
  <2>4. Social!TypeOK'
    BY <1>0, <1>1, <1>2, <2>3 DEF Social!TypeOK
  <2>5. Social!TripOK(t)'
    BY <2>2, <2>3 DEF Social!TripOK
  <2> QED BY <1>1, <2>2, <2>3, <2>4, <2>5, TripMoves
<1>4. CASE \E s \in Logins : /\ ProviderOf[s] = trip[t].provider
                             /\ trip' = [trip EXCEPT ![t].pc = "back", ![t].subject = s]
  <2>1. PICK s \in Logins : /\ ProviderOf[s] = trip[t].provider
                            /\ trip' = [trip EXCEPT ![t].pc = "back", ![t].subject = s]
    BY <1>4
  <2>2. /\ trip' \in [Handlers -> Social!Trip] /\ trip'[t].pc = "back" /\ trip'[t].subject = s
        /\ trip'[t].provider = trip[t].provider
        /\ \A o \in Handlers \ {t} : trip'[o] = trip[o]
    <3> DEFINE n(r) == [r EXCEPT !.pc = "back", !.subject = s]
    <3>1. ASSUME NEW r \in Social!Trip
          PROVE  /\ n(r) \in Social!Trip /\ n(r).pc = "back" /\ n(r).subject = s
                 /\ n(r).provider = r.provider
      BY DEF Social!Trip, Social!Step
    <3>2. trip \in [Handlers -> Social!Trip] /\ trip' = [trip EXCEPT ![t] = n(trip[t])]
      BY <1>0, <2>1 DEF Social!TypeOK
    <3> HIDE DEF n
    <3>3. trip[t] \in Social!Trip /\ trip'[t] = n(trip[t])
      BY <3>2
    <3> QED BY <3>1, <3>2, <3>3
  <2>3. Social!TypeOK'
    BY <1>0, <1>1, <1>2, <2>2 DEF Social!TypeOK
  <2>4. Social!TripOK(t)'
    BY <2>1, <2>2 DEF Social!TripOK
  <2> QED BY <1>1, <2>2, <2>3, <2>4, SocialNames, TripMoves
<1> QED BY <1>3, <1>4 DEF Social!Ask, Social!SsoAuthorizationUrl, Social!DiscoveryFails,
        Social!Consent, Social!Refuse

(* The callback, up to the account and from there home.                    *)
LEMMA CallbackStep ==
  ASSUME Social!SocialSignInInv, NEW t \in Handlers,
         Social!ExchangeCode(t) \/ Social!VerifyToken(t) \/ Social!IssueSession(t)
  PROVE  Social!SocialSignInInv'
<1>0. /\ Social!TypeOK /\ Social!TripOK(t) /\ Social!HomeIsOwn /\ Social!SessionsAreOfTheAddress
      /\ trip[t].pc \in Social!Callback
  BY SocialNames DEF Social!SocialSignInInv, Social!ExchangeCode, Social!VerifyToken,
     Social!IssueSession, Social!At
<1>1. UNCHANGED <<owner, firstLink, interwoven, keys, jar>>
  BY DEF Social!ExchangeCode, Social!VerifyToken, Social!IssueSession, Social!caches
<1>2. /\ discovered' \in [Providers -> Social!KeySets \union {0}]
      /\ fetched' \in [Providers -> Social!KeySets \union {0}]
  <2>1. trip[t].provider \in Providers
    BY <1>0 DEF Social!TypeOK, Social!Trip
  <2> QED BY <1>0, <2>1 DEF Social!ExchangeCode, Social!VerifyToken, Social!IssueSession,
          Social!caches, Social!GetDiscovery, Social!TypeOK
<1>3. PICK s \in {"verify", "find", "home", "refused"} :
        Social!Goto(t, s) /\ (s = "home" => trip[t].pc = "issue")
  BY DEF Social!ExchangeCode, Social!VerifyToken, Social!IssueSession, Social!Refuse, Social!At
<1>4. s \in Social!Step
  BY SocialNames
<1>5. /\ trip' \in [Handlers -> Social!Trip] /\ trip'[t].pc = s
      /\ trip'[t].provider = trip[t].provider /\ trip'[t].subject = trip[t].subject
      /\ trip'[t].page = trip[t].page
      /\ \A o \in Handlers \ {t} : trip'[o] = trip[o]
  BY <1>0, <1>3, <1>4, TripGoes
<1>6. Social!TypeOK'
  BY <1>0, <1>1, <1>2, <1>5 DEF Social!TypeOK
<1>7. Social!TripOK(t)'
  BY <1>0, <1>3, <1>5 DEF Social!TripOK
<1>8. /\ trip'[t].page = t
      /\ trip'[t].pc \in {"issue", "home"} => owner.exists /\ owner.verified
  BY <1>0, <1>3, <1>5 DEF Social!HomeIsOwn, Social!SessionsAreOfTheAddress
<1> QED BY <1>0, <1>1, <1>3, <1>5, <1>6, <1>7, <1>8, TripMoves

(* The state is checked: from then on the page is the trip's own, and two  *)
(* callbacks at once are seen.                                             *)
LEMMA StateStep ==
  ASSUME Social!SocialSignInInv, NEW t \in Handlers, Social!CheckState(t)
  PROVE  Social!SocialSignInInv'
<1>0. Social!TypeOK /\ Social!TripOK(t) /\ trip[t].pc = "back"
  BY DEF Social!SocialSignInInv, Social!CheckState, Social!At
<1>1. /\ UNCHANGED <<owner, firstLink, keys, jar, discovered, fetched>>
      /\ interwoven' = (interwoven \/ \E o \in Handlers \ {t} : trip[o].pc \in Social!Callback)
  BY DEF Social!CheckState, Social!caches
<1>2. CASE Social!Goto(t, "refused")
  <2>1. /\ trip' \in [Handlers -> Social!Trip] /\ trip'[t].pc = "refused"
        /\ \A o \in Handlers \ {t} : trip'[o] = trip[o]
    BY <1>0, <1>2, SocialNames, TripGoes
  <2>2. Social!TypeOK'
    BY <1>0, <1>1, <2>1 DEF Social!TypeOK
  <2>3. Social!TripOK(t)'
    BY <2>1, SocialNames DEF Social!TripOK
  <2>4. interwoven => interwoven'
    BY <1>1
  <2> QED BY <1>1, <2>1, <2>2, <2>3, <2>4, SocialNames, TripMoves
<1>3. CASE jar = t /\ trip' = [trip EXCEPT ![t].pc = "exchange", ![t].page = jar]
  <2> DEFINE n(r) == [r EXCEPT !.pc = "exchange", !.page = t]
  <2>1. ASSUME NEW r \in Social!Trip
        PROVE  /\ n(r) \in Social!Trip /\ n(r).pc = "exchange" /\ n(r).page = t
               /\ n(r).provider = r.provider /\ n(r).subject = r.subject
    BY DEF Social!Trip, Social!Step
  <2>2. trip \in [Handlers -> Social!Trip] /\ trip' = [trip EXCEPT ![t] = n(trip[t])]
    BY <1>0, <1>3 DEF Social!TypeOK
  <2> HIDE DEF n
  <2>3. trip[t] \in Social!Trip /\ trip'[t] = n(trip[t])
    BY <2>2
  <2>4. /\ trip' \in [Handlers -> Social!Trip] /\ trip'[t].pc = "exchange" /\ trip'[t].page = t
        /\ trip'[t].provider = trip[t].provider /\ trip'[t].subject = trip[t].subject
        /\ \A o \in Handlers \ {t} : trip'[o] = trip[o]
    BY <2>1, <2>2, <2>3
  <2>5. Social!TypeOK'
    BY <1>0, <1>1, <2>4 DEF Social!TypeOK
  <2>6. Social!TripOK(t)'
    BY <1>0, <2>4 DEF Social!TripOK
  <2>7. /\ interwoven => interwoven'
        /\ interwoven' \/ \A o \in Handlers \ {t} : trip[o].pc \notin Social!Callback
    BY <1>1
  <2> QED BY <1>1, <2>4, <2>5, <2>6, <2>7, TripMoves
<1> QED BY <1>2, <1>3 DEF Social!CheckState, Social!Refuse

LEMMA FindUserStep ==
  ASSUME Social!SocialSignInInv, NEW t \in Handlers, Social!FindUser(t)
  PROVE  Social!SocialSignInInv'
<1>0. /\ Social!TypeOK /\ Social!TripOK(t) /\ trip[t].pc = "find" /\ Social!HomeIsOwn
      /\ trip[t].page = t
  BY SocialNames DEF Social!SocialSignInInv, Social!FindUser, Social!At, Social!HomeIsOwn
<1>1. UNCHANGED <<owner, firstLink, interwoven, keys, jar, discovered, fetched>>
  BY DEF Social!FindUser, Social!caches
<1>2. CASE \E s \in {"create", "refused"} : Social!Goto(t, s)
  <2>1. PICK s \in {"create", "refused"} : Social!Goto(t, s)
    BY <1>2
  <2>2. s \in Social!Step
    BY SocialNames
  <2>3. /\ trip' \in [Handlers -> Social!Trip] /\ trip'[t].pc = s
        /\ trip'[t].provider = trip[t].provider /\ trip'[t].subject = trip[t].subject
        /\ trip'[t].page = trip[t].page
        /\ \A o \in Handlers \ {t} : trip'[o] = trip[o]
    BY <1>0, <2>1, <2>2, TripGoes
  <2>4. Social!TypeOK'
    BY <1>0, <1>1, <2>3 DEF Social!TypeOK
  <2>5. Social!TripOK(t)'
    BY <1>0, <2>3, SocialNames DEF Social!TripOK
  <2> QED BY <1>0, <1>1, <2>3, <2>4, <2>5, SocialNames, TripMoves
<1>3. CASE /\ owner.exists /\ owner.linked \in {Nobody, trip[t].subject}
           /\ trip' = [trip EXCEPT ![t].pc = "link", ![t].linked = owner.linked]
  <2> DEFINE n(r) == [r EXCEPT !.pc = "link", !.linked = owner.linked]
  <2>0. owner.linked \in Logins \union {Nobody}
    BY <1>0 DEF Social!TypeOK
  <2>1. ASSUME NEW r \in Social!Trip
        PROVE  /\ n(r) \in Social!Trip /\ n(r).pc = "link" /\ n(r).page = r.page
               /\ n(r).provider = r.provider /\ n(r).subject = r.subject
    BY <2>0 DEF Social!Trip, Social!Step
  <2>2. trip \in [Handlers -> Social!Trip] /\ trip' = [trip EXCEPT ![t] = n(trip[t])]
    BY <1>0, <1>3 DEF Social!TypeOK
  <2> HIDE DEF n
  <2>3. trip[t] \in Social!Trip /\ trip'[t] = n(trip[t])
    BY <2>2
  <2>4. /\ trip' \in [Handlers -> Social!Trip] /\ trip'[t].pc = "link" /\ trip'[t].page = t
        /\ trip'[t].provider = trip[t].provider /\ trip'[t].subject = trip[t].subject
        /\ \A o \in Handlers \ {t} : trip'[o] = trip[o]
    BY <1>0, <2>1, <2>2, <2>3
  <2>5. Social!TypeOK'
    BY <1>0, <1>1, <2>4 DEF Social!TypeOK
  <2>6. Social!TripOK(t)'
    BY <1>0, <1>1, <1>3, <2>4, SocialNames DEF Social!TripOK
  <2> QED BY <1>0, <1>1, <2>4, <2>5, <2>6, SocialNames, TripMoves
<1> QED BY <1>2, <1>3 DEF Social!FindUser, Social!Refuse

(* The account is linked or created.  If the trip is alone, nobody was     *)
(* linked with the account before, or the same subject.                    *)
LEMMA AccountStep ==
  ASSUME Social!SocialSignInInv, NEW t \in Handlers, Social!LinkUser(t) \/ Social!CreateUser(t)
  PROVE  Social!SocialSignInInv'
<1>0. /\ Social!TypeOK /\ Social!TripOK(t) /\ trip[t].pc \in {"link", "create"}
      /\ Social!HomeIsOwn /\ Social!LinkIsFinal /\ Social!SessionsAreOfTheAddress /\ Social!Alone
      /\ \A o \in Handlers : Social!TripOK(o)
      /\ ~owner.exists => owner.linked = Nobody
      /\ trip[t].pc \in Social!Callback
  BY SocialNames DEF Social!SocialSignInInv, Social!LinkUser, Social!CreateUser, Social!At
<1>1. /\ UNCHANGED <<interwoven, keys, jar, discovered, fetched>>
      /\ trip[t].subject \in Logins /\ trip[t].page = t
  BY <1>0 DEF Social!LinkUser, Social!CreateUser, Social!caches, Social!TripOK, Social!HomeIsOwn
<1>2. CASE Social!Goto(t, "refused") /\ UNCHANGED <<owner, firstLink>>
  <2>1. /\ trip' \in [Handlers -> Social!Trip] /\ trip'[t].pc = "refused"
        /\ \A o \in Handlers \ {t} : trip'[o] = trip[o]
    BY <1>0, <1>2, SocialNames, TripGoes
  <2>2. Social!TypeOK'
    BY <1>0, <1>1, <1>2, <2>1 DEF Social!TypeOK
  <2>3. Social!TripOK(t)'
    BY <2>1, SocialNames DEF Social!TripOK
  <2> QED BY <1>1, <1>2, <2>1, <2>2, <2>3, SocialNames, TripMoves
<1>3. CASE /\ Social!Goto(t, "issue")
           /\ owner' \in [exists : BOOLEAN, linked : Logins \union {Nobody}, verified : BOOLEAN]
           /\ owner'.exists /\ owner'.verified /\ owner'.linked = trip[t].subject
           /\ firstLink' \in {firstLink, trip[t].subject}
           /\ ~interwoven => /\ owner.linked \in {Nobody, trip[t].subject}
                             /\ firstLink' = owner'.linked
  <2>1. /\ trip' \in [Handlers -> Social!Trip] /\ trip'[t].pc = "issue"
        /\ trip'[t].provider = trip[t].provider /\ trip'[t].subject = trip[t].subject
        /\ trip'[t].page = trip[t].page
        /\ \A o \in Handlers \ {t} : trip'[o] = trip[o]
    BY <1>0, <1>3, SocialNames, TripGoes
  <2>2. Social!TypeOK'
    BY <1>0, <1>1, <1>3, <2>1 DEF Social!TypeOK
  <2>3. Social!HomeIsOwn'
    BY <1>0, <1>1, <2>1 DEF Social!HomeIsOwn
  <2>4. Social!LinkIsFinal'
    <3> SUFFICES ASSUME ~interwoven
                 PROVE  /\ owner'.linked = firstLink'
                        /\ \A o \in Handlers : trip'[o].pc = "home" =>
                             trip'[o].subject = owner'.linked
      BY <1>1 DEF Social!LinkIsFinal, Social!At
    <3>1. ASSUME NEW o \in Handlers, trip'[o].pc = "home"
          PROVE  trip'[o].subject = owner'.linked
      <4>1. o # t /\ trip[o].pc = "home" /\ trip'[o] = trip[o]
        BY <2>1, <3>1
      <4>2. trip[o].subject = owner.linked
        BY <1>0, <4>1 DEF Social!LinkIsFinal, Social!At
      <4>3. trip[o].subject \in Logins
        BY <1>0, <4>1 DEF Social!TripOK
      <4> QED BY <1>3, <4>1, <4>2, <4>3
    <3> QED BY <1>3, <3>1
  <2>5. Social!SessionsAreOfTheAddress'
    <3> SUFFICES ASSUME NEW o \in Handlers, trip'[o].pc \in {"issue", "home"}
                 PROVE  trip'[o].subject # Nobody /\ ProviderOf[trip'[o].subject] = trip'[o].provider
      BY <1>3 DEF Social!SessionsAreOfTheAddress
    <3>1. CASE o = t
      BY <1>0, <1>1, <2>1, <3>1 DEF Social!TripOK
    <3>2. CASE o # t
      BY <1>0, <2>1, <3>2 DEF Social!SessionsAreOfTheAddress
    <3> QED BY <3>1, <3>2
  <2>6. Social!Alone'
    BY <1>0, <1>1, <2>1 DEF Social!Alone
  <2>7. \A o \in Handlers : Social!TripOK(o)'
    <3> SUFFICES ASSUME NEW o \in Handlers PROVE Social!TripOK(o)'
      OBVIOUS
    <3>1. CASE o = t
      BY <1>0, <1>1, <1>3, <2>1, <3>1, SocialNames DEF Social!TripOK
    <3>2. CASE o # t
      <4>1. ~interwoven => trip[o].pc \notin {"link", "issue"}
        BY <1>0, <3>2, SocialNames DEF Social!Alone
      <4> QED BY <1>0, <1>1, <1>3, <2>1, <3>2, <4>1 DEF Social!TripOK
    <3> QED BY <3>1, <3>2
  <2> QED BY <1>3, <2>2, <2>3, <2>4, <2>5, <2>6, <2>7 DEF Social!SocialSignInInv
<1>4. CASE Social!LinkUser(t)
  <2>1. /\ owner' = [owner EXCEPT !.linked = trip[t].subject, !.verified = TRUE]
        /\ firstLink' = IF firstLink = Nobody THEN trip[t].subject ELSE firstLink
        /\ Social!Goto(t, "issue") /\ trip[t].pc = "link"
    BY <1>4 DEF Social!LinkUser, Social!At
  <2>2. /\ owner' \in [exists : BOOLEAN, linked : Logins \union {Nobody}, verified : BOOLEAN]
        /\ owner'.exists /\ owner'.verified /\ owner'.linked = trip[t].subject
    BY <1>0, <1>1, <2>1 DEF Social!TypeOK, Social!TripOK
  <2>3. ~interwoven => /\ owner.linked \in {Nobody, trip[t].subject}
                       /\ firstLink' = owner'.linked
    BY <1>0, <2>1, <2>2 DEF Social!TripOK, Social!LinkIsFinal
  <2> QED BY <1>3, <2>1, <2>2, <2>3
<1>5. CASE Social!CreateUser(t) /\ ~owner.exists
  <2>1. /\ owner' = [exists |-> TRUE, linked |-> trip[t].subject, verified |-> TRUE]
        /\ firstLink' = trip[t].subject /\ Social!Goto(t, "issue")
    BY <1>5 DEF Social!CreateUser
  <2> QED BY <1>0, <1>1, <1>3, <1>5, <2>1
<1> QED BY <1>2, <1>4, <1>5 DEF Social!CreateUser, Social!Refuse

(* Registration with a password, the caches, a restart.                    *)
LEMMA SocialFrame ==
  ASSUME Social!SocialSignInInv,
         \/ UNCHANGED socialVars
         \/ \E p \in Providers : Social!MoveKeys(p) \/ Social!DiscoveryExpires(p)
         \/ Social!CookiesExpire \/ Social!Register
  PROVE  Social!SocialSignInInv'
<1>0. Social!TypeOK
  BY DEF Social!SocialSignInInv
<1>1. /\ UNCHANGED <<trip, firstLink, interwoven, fetched>>
      /\ owner'.exists \in {owner.exists, TRUE} /\ owner'.linked = owner.linked
      /\ owner'.verified = owner.verified
      /\ owner' \in [exists : BOOLEAN, linked : Logins \union {Nobody}, verified : BOOLEAN]
      /\ jar' \in {jar, Nobody}
  BY <1>0 DEF socialVars, Social!MoveKeys, Social!DiscoveryExpires, Social!CookiesExpire,
     Social!Register, Social!caches, Social!TypeOK
<1>2. keys' \in [Providers -> Social!KeySets]
  BY <1>0 DEF socialVars, Social!MoveKeys, Social!DiscoveryExpires, Social!CookiesExpire,
     Social!Register, Social!caches, Social!TypeOK, Social!KeySets
<1>3. discovered' \in [Providers -> Social!KeySets \union {0}]
  BY <1>0 DEF socialVars, Social!MoveKeys, Social!DiscoveryExpires, Social!CookiesExpire,
     Social!Register, Social!caches, Social!TypeOK
<1>4. Social!TypeOK'
  BY <1>0, <1>1, <1>2, <1>3 DEF Social!TypeOK
<1>5. /\ Social!HomeIsOwn' /\ Social!LinkIsFinal' /\ Social!SessionsAreOfTheAddress'
      /\ ~owner'.exists => owner'.linked = Nobody
  BY <1>1 DEF Social!SocialSignInInv, Social!HomeIsOwn, Social!LinkIsFinal,
     Social!SessionsAreOfTheAddress, Social!At
<1>6. Social!Alone' /\ \A t \in Handlers : Social!TripOK(t)'
  BY <1>1 DEF Social!SocialSignInInv, Social!Alone, Social!TripOK
<1> QED BY <1>4, <1>5, <1>6 DEF Social!SocialSignInInv

LEMMA SocialRestart ==
  ASSUME Social!SocialSignInInv, Social!Restart
  PROVE  Social!SocialSignInInv'
<1>0. /\ Social!TypeOK /\ Social!HomeIsOwn /\ Social!LinkIsFinal
      /\ Social!SessionsAreOfTheAddress /\ \A o \in Handlers : Social!TripOK(o)
      /\ ~owner.exists => owner.linked = Nobody
  BY DEF Social!SocialSignInInv
<1>1. UNCHANGED <<owner, jar, keys, firstLink, interwoven>>
  BY DEF Social!Restart
<1>2. /\ discovered' \in [Providers -> Social!KeySets \union {0}] /\ fetched' = discovered'
  BY DEF Social!Restart
<1>3. /\ trip' \in [Handlers -> Social!Trip]
      /\ \A o \in Handlers : /\ trip'[o].pc \notin Social!Callback
                             /\ trip'[o].pc # "refused" => trip'[o] = trip[o]
  <2> DEFINE n(r) == [r EXCEPT !.pc = "refused"]
  <2>1. ASSUME NEW r \in Social!Trip PROVE n(r) \in Social!Trip /\ n(r).pc = "refused"
    BY DEF Social!Trip, Social!Step
  <2>2. /\ trip \in [Handlers -> Social!Trip]
        /\ trip' = [o \in Handlers |-> IF trip[o].pc \in Social!Callback \union {"asked"}
                                         THEN n(trip[o]) ELSE trip[o]]
    BY <1>0 DEF Social!TypeOK, Social!Restart
  <2> HIDE DEF n
  <2> QED BY <2>1, <2>2, SocialNames
<1>4. Social!TypeOK'
  BY <1>0, <1>1, <1>2, <1>3 DEF Social!TypeOK
<1>5. \A o \in Handlers : Social!TripOK(o)'
  BY <1>0, <1>1, <1>3, SocialNames DEF Social!TripOK
<1>6. Social!HomeIsOwn' /\ Social!LinkIsFinal'
  BY <1>0, <1>1, <1>3 DEF Social!HomeIsOwn, Social!LinkIsFinal, Social!At
<1>7. Social!SessionsAreOfTheAddress'
  BY <1>0, <1>1, <1>3, SocialNames DEF Social!SessionsAreOfTheAddress
<1> QED BY <1>0, <1>1, <1>3, <1>4, <1>5, <1>6, <1>7 DEF Social!SocialSignInInv, Social!Alone

LEMMA SocialStep ==
  Social!SocialSignInInv /\ (Social!Next \/ UNCHANGED socialVars) => Social!SocialSignInInv'
<1> SUFFICES ASSUME Social!SocialSignInInv, Social!Next \/ UNCHANGED socialVars
             PROVE  Social!SocialSignInInv'
  OBVIOUS
<1>1. ASSUME NEW t \in Handlers, Social!TripStep(t)
      PROVE  Social!SocialSignInInv'
  BY <1>1, AwayStep, CallbackStep, StateStep, FindUserStep, AccountStep DEF Social!TripStep
<1> QED BY <1>1, SocialFrame, SocialRestart DEF Social!Next

(* However many round trips a browser has under way: one that comes home   *)
(* was started there and its subject consented, and unless callbacks       *)
(* overlapped an account stays linked with whom it was linked first.       *)
THEOREM TripsComeHome == IdentitySpec => []SocialSignInInv
<1>1. IdentityInit => Social!SocialSignInInv
  BY SocialInit DEF IdentityInit
<1>2. Social!SocialSignInInv /\ [IdentityNext]_everything => Social!SocialSignInInv'
  BY SocialStep DEF IdentityNext, everything
<1>3. IdentitySpec => []Social!SocialSignInInv
  BY <1>1, <1>2, PTL DEF IdentitySpec
<1> QED BY <1>3, PTL DEF SocialSignInInv

-----------------------------------------------------------------------------
(* SAML sign-in: how calls move *)

LEMMA SsoFacts ==
  ASSUME Sso!SamlInv
  PROVE  /\ Sso!TypeOK /\ Sso!ExtractIsCurrent /\ Sso!RoleIsDue /\ Sso!SessionsAreProper
         /\ Sso!Alone /\ \A p \in IdPs : Sso!RefreshOK(p)
         /\ \A v \in Handlers : Sso!VisitOK(v) /\ signIn[v] \in Sso!Visit
         /\ idps \in [IdPs -> Sso!IdP] /\ members \in [Members -> Sso!Member]
         /\ \A p \in IdPs : idps[p] \in Sso!IdP
         /\ \A m \in Members : members[m] \in Sso!Member
BY DEF Sso!SamlInv, Sso!TypeOK

LEMMA SsoIdle == Sso!Idle \in Sso!Visit /\ Sso!Idle.pc = "idle"
BY DEF Sso!Idle, Sso!Visit, Sso!Step, Sso!Roles, Sso!Versions

LEMMA SsoReturns ==
  ASSUME Sso!TypeOK, NEW v \in Handlers, Sso!Return(v)
  PROVE  /\ signIn' \in [Handlers -> Sso!Visit] /\ signIn'[v].pc = "idle"
         /\ \A w \in Handlers \ {v} : signIn'[w] = signIn[w]
<1>1. signIn \in [Handlers -> Sso!Visit] /\ signIn' = [signIn EXCEPT ![v] = Sso!Idle]
  BY DEF Sso!TypeOK, Sso!Return
<1> QED BY <1>1, SsoIdle

LEMMA SsoGoes ==
  ASSUME Sso!TypeOK, NEW v \in Handlers, NEW s \in Sso!Step, Sso!Goto(v, s)
  PROVE  /\ signIn' \in [Handlers -> Sso!Visit] /\ signIn'[v].pc = s
         /\ signIn'[v].idp = signIn[v].idp /\ signIn'[v].who = signIn[v].who
         /\ signIn'[v].role = signIn[v].role /\ signIn'[v].status = signIn[v].status
         /\ \A w \in Handlers \ {v} : signIn'[w] = signIn[w]
<1> DEFINE n(r) == [r EXCEPT !.pc = s]
<1>1. ASSUME NEW r \in Sso!Visit
      PROVE  /\ n(r) \in Sso!Visit /\ n(r).pc = s /\ n(r).idp = r.idp /\ n(r).who = r.who
             /\ n(r).role = r.role /\ n(r).status = r.status
  BY DEF Sso!Visit
<1>2. signIn \in [Handlers -> Sso!Visit] /\ signIn' = [signIn EXCEPT ![v] = n(signIn[v])]
  BY DEF Sso!TypeOK, Sso!Goto
<1> HIDE DEF n
<1>3. signIn[v] \in Sso!Visit /\ signIn'[v] = n(signIn[v])
  BY <1>2
<1> QED BY <1>1, <1>2, <1>3

(* A call that begins is alone, or the overlap is seen.                    *)
LEMMA SsoBegins ==
  ASSUME Sso!TypeOK, NEW v \in Handlers, NEW c \in Sso!Visit, Sso!Begin(v, c)
  PROVE  /\ signIn' \in [Handlers -> Sso!Visit] /\ signIn'[v] = c
         /\ \A w \in Handlers \ {v} : signIn'[w] = signIn[w]
         /\ signIns' \in 0..MaxSignIns /\ overlap' \in BOOLEAN
         /\ ~overlap' => /\ ~overlap /\ \A w \in Handlers : signIn[w].pc = "idle"
                         /\ \A p \in IdPs : refresh[p] = -1
<1>1. signIn \in [Handlers -> Sso!Visit] /\ signIn' = [signIn EXCEPT ![v] = c]
  BY DEF Sso!TypeOK, Sso!Begin
<1>2. signIns' \in 0..MaxSignIns
  BY DEF Sso!TypeOK, Sso!Begin
<1>3. overlap' = (overlap \/ Sso!Busy) /\ overlap \in BOOLEAN
  BY DEF Sso!TypeOK, Sso!Begin
<1>4. overlap' \in BOOLEAN
  BY <1>3 DEF Sso!Busy
<1> QED BY <1>1, <1>2, <1>3, <1>4 DEF Sso!Busy, Sso!At

(* Of a call that is the only one, the others rely on nothing.             *)
LEMMA SsoOthers ==
  ASSUME Sso!SamlInv, NEW v \in Handlers, signIn[v].pc # "idle", overlap' = overlap,
         \A w \in Handlers \ {v} : signIn'[w] = signIn[w]
  PROVE  /\ Sso!Alone' /\ \A w \in Handlers \ {v} : Sso!VisitOK(w)'
<1>1. Sso!Alone /\ \A w \in Handlers : Sso!VisitOK(w)
  BY SsoFacts
<1>2. Sso!Alone'
  BY <1>1 DEF Sso!Alone, Sso!At
<1>3. ASSUME NEW w \in Handlers \ {v} PROVE Sso!VisitOK(w)'
  <2>1. overlap \/ signIn[w].pc = "idle"
    BY <1>1 DEF Sso!Alone, Sso!At
  <2> QED BY <1>1, <2>1 DEF Sso!VisitOK
<1> QED BY <1>2, <1>3

-----------------------------------------------------------------------------
(* SAML sign-in: the steps *)

LEMMA SsoInit == Sso!Init => Sso!SamlInv
<1> SUFFICES ASSUME Sso!Init PROVE Sso!SamlInv
  OBVIOUS
<1>1. idps \in [IdPs -> Sso!IdP] /\ members \in [Members -> Sso!Member]
  BY DEF Sso!Init, Sso!IdP, Sso!Member, Sso!Versions, Sso!Roles
<1>2. /\ signIn \in [Handlers -> Sso!Visit] /\ \A v \in Handlers : signIn[v].pc = "idle"
  BY SsoIdle DEF Sso!Init
<1>3. refresh \in [IdPs -> -1..MaxVersion] /\ due \in [Members -> Sso!Roles]
  BY DEF Sso!Init, Sso!Roles
<1>4. Sso!TypeOK
  <2>1. /\ signIns \in 0..MaxSignIns /\ orders \in 0..MaxOrders
        /\ improper \in BOOLEAN /\ overlap \in BOOLEAN
    <3>1. signIns = 0 /\ orders = 0 /\ improper = FALSE /\ overlap = FALSE
      BY DEF Sso!Init
    <3>2. signIns \in 0..MaxSignIns /\ orders \in 0..MaxOrders
      BY <3>1
    <3>3. improper \in BOOLEAN /\ overlap \in BOOLEAN
      BY <3>1
    <3> QED BY <3>2, <3>3
  <2> QED BY <1>1, <1>2, <1>3, <2>1 DEF Sso!TypeOK
<1>5. Sso!ExtractIsCurrent /\ Sso!RoleIsDue /\ Sso!SessionsAreProper
  BY DEF Sso!Init, Sso!ExtractIsCurrent, Sso!RoleIsDue, Sso!SessionsAreProper
<1>6. (\A p \in IdPs : Sso!RefreshOK(p)) /\ Sso!Alone /\ \A v \in Handlers : Sso!VisitOK(v)
  BY <1>2 DEF Sso!Init, Sso!RefreshOK, Sso!Alone, Sso!VisitOK, Sso!At
<1> QED BY <1>4, <1>5, <1>6 DEF Sso!SamlInv

(* Providers come and go, grow stale, and are re-read.  A document changes *)
(* only where no refresh is under way.                                     *)
LEMMA ProviderStep ==
  ASSUME Sso!SamlInv, NEW p \in IdPs,
         \/ \E status \in {"active", "paused"} : Sso!CreateSamlProvider(p, status)
         \/ Sso!DeleteSamlProvider(p) \/ Sso!GrowStale(p)
         \/ Sso!ReadProvider(p) \/ Sso!WriteExtract(p)
  PROVE  Sso!SamlInv'
<1>0. /\ Sso!TypeOK /\ Sso!ExtractIsCurrent /\ \A q \in IdPs : Sso!RefreshOK(q)
      /\ Sso!RoleIsDue /\ Sso!SessionsAreProper /\ Sso!Alone
      /\ \A v \in Handlers : Sso!VisitOK(v)
      /\ idps \in [IdPs -> Sso!IdP] /\ idps[p] \in Sso!IdP
  BY SsoFacts
<1>1. UNCHANGED <<members, signIn, due, improper, overlap, signIns, orders>>
  BY DEF Sso!CreateSamlProvider, Sso!DeleteSamlProvider, Sso!GrowStale, Sso!ReadProvider,
     Sso!WriteExtract, Sso!history
<1>2. /\ idps' \in [IdPs -> Sso!IdP] /\ \A q \in IdPs \ {p} : idps'[q] = idps[q]
      /\ refresh' \in [IdPs -> -1..MaxVersion] /\ \A q \in IdPs \ {p} : refresh'[q] = refresh[q]
      /\ refresh[p] = -1 => refresh'[p] = -1
      /\ ~overlap => idps'[p].extract = idps'[p].xml
      /\ Sso!RefreshOK(p)'
  <2>0. refresh \in [IdPs -> -1..MaxVersion]
    BY <1>0 DEF Sso!TypeOK
  <2>1. CASE \E status \in {"active", "paused"} : Sso!CreateSamlProvider(p, status)
    <3>1. PICK status \in {"active", "paused"} : Sso!CreateSamlProvider(p, status)
      BY <2>1
    <3>2. /\ idps[p].status = "none" /\ Sso!Newest + 1 \in Sso!Versions /\ refresh' = refresh
          /\ idps' = [idps EXCEPT ![p] = [status |-> status, xml |-> Sso!Newest + 1,
                                          extract |-> Sso!Newest + 1, stale |-> FALSE]]
      BY <3>1 DEF Sso!CreateSamlProvider
    <3>3. refresh[p] = -1
      BY <1>0, <3>2 DEF Sso!RefreshOK
    <3>4. [status |-> status, xml |-> Sso!Newest + 1, extract |-> Sso!Newest + 1, stale |-> FALSE]
            \in Sso!IdP
      BY <3>2 DEF Sso!IdP
    <3> QED BY <1>0, <2>0, <3>2, <3>3, <3>4 DEF Sso!RefreshOK
  <2>2. CASE Sso!DeleteSamlProvider(p)
    <3> DEFINE n(r) == [r EXCEPT !.status = "deleted"]
    <3>1. ASSUME NEW r \in Sso!IdP
          PROVE  /\ n(r) \in Sso!IdP /\ n(r).status = "deleted"
                 /\ n(r).xml = r.xml /\ n(r).extract = r.extract
      BY DEF Sso!IdP
    <3>2. refresh' = refresh /\ idps' = [idps EXCEPT ![p] = n(idps[p])]
      BY <2>2 DEF Sso!DeleteSamlProvider
    <3> HIDE DEF n
    <3> QED BY <1>0, <1>1, <2>0, <3>1, <3>2 DEF Sso!RefreshOK, Sso!ExtractIsCurrent
  <2>3. CASE Sso!GrowStale(p)
    <3> DEFINE n(r) == [r EXCEPT !.stale = TRUE]
    <3>1. ASSUME NEW r \in Sso!IdP
          PROVE  /\ n(r) \in Sso!IdP /\ n(r).status = r.status
                 /\ n(r).xml = r.xml /\ n(r).extract = r.extract
      BY DEF Sso!IdP
    <3>2. refresh' = refresh /\ idps' = [idps EXCEPT ![p] = n(idps[p])]
      BY <2>3 DEF Sso!GrowStale
    <3> HIDE DEF n
    <3> QED BY <1>0, <1>1, <2>0, <3>1, <3>2 DEF Sso!RefreshOK, Sso!ExtractIsCurrent
  <2>4. CASE Sso!ReadProvider(p)
    <3>1. /\ refresh[p] = 0 /\ idps' = idps
          /\ refresh' = [refresh EXCEPT ![p] = IF Sso!Exists(p) THEN idps[p].xml ELSE -1]
      BY <2>4 DEF Sso!ReadProvider
    <3>2. idps[p].xml \in 0..MaxVersion
      BY <1>0 DEF Sso!IdP, Sso!Versions
    <3>3. refresh'[p] = IF Sso!Exists(p) THEN idps[p].xml ELSE -1
      BY <2>0, <3>1
    <3>4. refresh'[p] \in -1..MaxVersion
      BY <3>2, <3>3
    <3> QED BY <1>0, <1>1, <2>0, <3>1, <3>3, <3>4
         DEF Sso!RefreshOK, Sso!ExtractIsCurrent
  <2>5. CASE Sso!WriteExtract(p)
    <3> DEFINE n(r) == [r EXCEPT !.extract = refresh[p], !.stale = FALSE]
    <3>1. ASSUME NEW r \in Sso!IdP, refresh[p] \in Sso!Versions
          PROVE  /\ n(r) \in Sso!IdP /\ n(r).status = r.status /\ n(r).xml = r.xml
                 /\ n(r).extract = refresh[p]
      BY <3>1 DEF Sso!IdP
    <3>2. /\ refresh[p] > 0 /\ refresh' = [refresh EXCEPT ![p] = -1]
          /\ idps' = IF Sso!Exists(p) THEN [idps EXCEPT ![p] = n(idps[p])] ELSE idps
      BY <1>0, <2>5 DEF Sso!WriteExtract, Sso!IdP
    <3> HIDE DEF n
    <3>3. refresh[p] \in Sso!Versions
      BY <2>0, <3>2 DEF Sso!Versions
    <3>4. ~overlap => refresh[p] = idps[p].xml
      BY <1>0, <3>2 DEF Sso!RefreshOK
    <3>5. idps' = [idps EXCEPT ![p] = n(idps[p])] \/ idps' = idps
      BY <3>2
    <3>6. refresh'[p] = -1 /\ refresh' \in [IdPs -> -1..MaxVersion]
      BY <2>0, <3>2
    <3> QED BY <1>0, <1>1, <2>0, <3>1, <3>2, <3>3, <3>4, <3>5, <3>6
         DEF Sso!RefreshOK, Sso!ExtractIsCurrent
  <2> QED BY <2>1, <2>2, <2>3, <2>4, <2>5
<1>3. Sso!TypeOK'
  BY <1>0, <1>1, <1>2 DEF Sso!TypeOK
<1>4. Sso!ExtractIsCurrent' /\ Sso!RoleIsDue' /\ Sso!SessionsAreProper' /\ Sso!Alone'
  BY <1>0, <1>1, <1>2 DEF Sso!ExtractIsCurrent, Sso!RoleIsDue, Sso!SessionsAreProper, Sso!Alone,
     Sso!At
<1>5. \A q \in IdPs : Sso!RefreshOK(q)'
  <2> SUFFICES ASSUME NEW q \in IdPs \ {p} PROVE Sso!RefreshOK(q)'
    BY <1>2
  <2> QED BY <1>0, <1>1, <1>2 DEF Sso!RefreshOK
<1>6. \A v \in Handlers : Sso!VisitOK(v)'
  BY <1>0, <1>1, <1>2 DEF Sso!VisitOK
<1> QED BY <1>3, <1>4, <1>5, <1>6 DEF Sso!SamlInv

(* A refresh begins: it is alone, or the overlap is seen.                  *)
LEMMA RefreshStep ==
  ASSUME Sso!SamlInv, NEW p \in IdPs, Sso!StartRefresh(p)
  PROVE  Sso!SamlInv'
<1>0. /\ Sso!TypeOK /\ Sso!ExtractIsCurrent /\ \A q \in IdPs : Sso!RefreshOK(q)
      /\ Sso!RoleIsDue /\ Sso!SessionsAreProper /\ Sso!Alone
      /\ \A v \in Handlers : Sso!VisitOK(v)
  BY SsoFacts
<1>1. /\ UNCHANGED <<idps, members, signIn, due, improper, signIns, orders>>
      /\ Sso!Exists(p) /\ refresh' = [refresh EXCEPT ![p] = 0]
      /\ overlap' = (overlap \/ Sso!Busy)
  BY DEF Sso!StartRefresh
<1>2. /\ refresh \in [IdPs -> -1..MaxVersion] /\ overlap \in BOOLEAN
      /\ idps[p].status # "none"
  BY <1>0, <1>1 DEF Sso!TypeOK, Sso!Exists
<1>3. /\ refresh' \in [IdPs -> -1..MaxVersion] /\ refresh'[p] = 0
      /\ \A q \in IdPs \ {p} : refresh'[q] = refresh[q]
  BY <1>1, <1>2
<1>4. overlap' \in BOOLEAN /\ (overlap => overlap')
  BY <1>1, <1>2 DEF Sso!Busy
<1>5. Sso!TypeOK'
  BY <1>0, <1>1, <1>3, <1>4 DEF Sso!TypeOK
<1>6. Sso!ExtractIsCurrent' /\ Sso!RoleIsDue' /\ Sso!SessionsAreProper' /\ Sso!Alone'
  BY <1>0, <1>1, <1>4 DEF Sso!ExtractIsCurrent, Sso!RoleIsDue, Sso!SessionsAreProper, Sso!Alone,
     Sso!At
<1>7. \A q \in IdPs : Sso!RefreshOK(q)'
  BY <1>0, <1>1, <1>2, <1>3, <1>4 DEF Sso!RefreshOK
<1>8. ASSUME NEW v \in Handlers PROVE Sso!VisitOK(v)'
  <2>1. ~overlap' => signIn[v].pc = "idle"
    BY <1>1 DEF Sso!Busy, Sso!At
  <2> QED BY <1>0, <1>1, <1>4, <2>1 DEF Sso!VisitOK
<1> QED BY <1>5, <1>6, <1>7, <1>8 DEF Sso!SamlInv

(* A call begins: the administrator's, or an assertion's, which starts the *)
(* refreshes that are due.                                                 *)
LEMMA SsoBeginStep ==
  ASSUME Sso!SamlInv, NEW v \in Handlers, NEW p \in IdPs,
         \/ \E patch \in {"active", "paused", "xml"} : Sso!UpdateSamlProvider(v, p, patch)
         \/ \E m \in Members, asserted \in Sso!Roles : Sso!ProvisionSamlUser(v, p, m, asserted)
  PROVE  Sso!SamlInv'
<1>0. /\ Sso!TypeOK /\ Sso!ExtractIsCurrent /\ \A q \in IdPs : Sso!RefreshOK(q)
      /\ Sso!RoleIsDue /\ Sso!SessionsAreProper /\ Sso!Alone
      /\ \A w \in Handlers : Sso!VisitOK(w)
      /\ idps \in [IdPs -> Sso!IdP] /\ refresh \in [IdPs -> -1..MaxVersion]
  BY SsoFacts DEF Sso!TypeOK
<1>1. UNCHANGED <<idps, members, due, improper, orders>>
  BY DEF Sso!UpdateSamlProvider, Sso!ProvisionSamlUser
<1>2. PICK c \in Sso!Visit :
        /\ Sso!Begin(v, c)
        /\ \/ c.pc = "update" /\ c.idp = p /\ refresh' = refresh
           \/ /\ c.pc = "user" /\ c.who \in Members
              /\ refresh' = [q \in IdPs |-> IF q \in Sso!Due THEN 0 ELSE refresh[q]]
  <2>1. ASSUME NEW patch \in {"active", "paused", "xml"}, Sso!UpdateSamlProvider(v, p, patch)
        PROVE  \E c \in Sso!Visit :
                 Sso!Begin(v, c) /\ c.pc = "update" /\ c.idp = p /\ refresh' = refresh
    <3> DEFINE x == IF patch = "xml" THEN Sso!Newest + 1 ELSE 0
    <3>1. x \in Sso!Versions
      BY <2>1 DEF Sso!UpdateSamlProvider, Sso!Versions
    <3> DEFINE n(r) == [r EXCEPT !.pc = "update", !.idp = p, !.patch = patch, !.xml = x]
    <3>2. /\ n(Sso!Idle) \in Sso!Visit /\ n(Sso!Idle).pc = "update" /\ n(Sso!Idle).idp = p
      <4> HIDE DEF x
      <4>1. ASSUME NEW r \in Sso!Visit
            PROVE  n(r) \in Sso!Visit /\ n(r).pc = "update" /\ n(r).idp = p
        BY <3>1 DEF Sso!Visit, Sso!Step
      <4> HIDE DEF n
      <4> QED BY <4>1, SsoIdle
    <3> QED BY <2>1, <3>2 DEF Sso!UpdateSamlProvider
  <2>2. ASSUME NEW m \in Members, NEW asserted \in Sso!Roles,
               Sso!ProvisionSamlUser(v, p, m, asserted)
        PROVE  \E c \in Sso!Visit :
                 /\ Sso!Begin(v, c) /\ c.pc = "user" /\ c.who \in Members
                 /\ refresh' = [q \in IdPs |-> IF q \in Sso!Due THEN 0 ELSE refresh[q]]
    <3> DEFINE n(r) == [r EXCEPT !.pc = "user", !.idp = p, !.who = m, !.asserted = asserted]
    <3>1. /\ n(Sso!Idle) \in Sso!Visit /\ n(Sso!Idle).pc = "user" /\ n(Sso!Idle).who = m
      <4>1. ASSUME NEW r \in Sso!Visit
            PROVE  n(r) \in Sso!Visit /\ n(r).pc = "user" /\ n(r).who = m
        BY DEF Sso!Visit, Sso!Step
      <4> HIDE DEF n
      <4> QED BY <4>1, SsoIdle
    <3> QED BY <2>2, <3>1 DEF Sso!ProvisionSamlUser
  <2> QED BY <2>1, <2>2
<1>3. /\ signIn' \in [Handlers -> Sso!Visit] /\ signIn'[v] = c
      /\ \A w \in Handlers \ {v} : signIn'[w] = signIn[w]
      /\ signIns' \in 0..MaxSignIns /\ overlap' \in BOOLEAN
      /\ ~overlap' => /\ ~overlap /\ \A w \in Handlers : signIn[w].pc = "idle"
                      /\ \A q \in IdPs : refresh[q] = -1
  BY <1>0, <1>2, SsoBegins
<1>4. /\ refresh' \in [IdPs -> -1..MaxVersion]
      /\ \A q \in IdPs : /\ refresh'[q] = refresh[q] \/ refresh'[q] = 0
                         /\ refresh'[q] # -1 => idps[q].status # "none"
  <2>1. CASE refresh' = refresh
    BY <1>0, <2>1 DEF Sso!RefreshOK
  <2>2. CASE refresh' = [q \in IdPs |-> IF q \in Sso!Due THEN 0 ELSE refresh[q]]
    <3>1. \A q \in Sso!Due : idps[q].status = "active"
      BY DEF Sso!Due
    <3>2. 0 \in -1..MaxVersion
      OBVIOUS
    <3>3. refresh' \in [IdPs -> -1..MaxVersion]
      BY <1>0, <2>2, <3>2
    <3>4. \A q \in IdPs : /\ q \in Sso!Due => refresh'[q] = 0
                          /\ q \notin Sso!Due => refresh'[q] = refresh[q]
      BY <2>2
    <3> QED BY <1>0, <3>1, <3>3, <3>4 DEF Sso!RefreshOK
  <2> QED BY <1>2, <2>1, <2>2
<1>5. Sso!TypeOK'
  BY <1>0, <1>1, <1>3, <1>4 DEF Sso!TypeOK
<1>6. Sso!ExtractIsCurrent' /\ Sso!RoleIsDue' /\ Sso!SessionsAreProper' /\ Sso!Alone'
  BY <1>0, <1>1, <1>3 DEF Sso!ExtractIsCurrent, Sso!RoleIsDue, Sso!SessionsAreProper, Sso!Alone,
     Sso!At
<1>7. ASSUME NEW q \in IdPs PROVE Sso!RefreshOK(q)'
  BY <1>0, <1>1, <1>3, <1>4 DEF Sso!RefreshOK
<1>8. Sso!VisitOK(v)'
  BY <1>0, <1>1, <1>2, <1>3 DEF Sso!VisitOK
<1>9. ASSUME NEW w \in Handlers \ {v} PROVE Sso!VisitOK(w)'
  BY <1>0, <1>1, <1>3 DEF Sso!VisitOK
<1> QED BY <1>5, <1>6, <1>7, <1>8, <1>9 DEF Sso!SamlInv

(* The administrator's call writes what its patch names: the document with *)
(* what is extracted from it, or the status.                               *)
LEMMA WriteProviderStep ==
  ASSUME Sso!SamlInv, NEW v \in Handlers, Sso!WriteProvider(v)
  PROVE  Sso!SamlInv'
<1>0. /\ Sso!TypeOK /\ Sso!ExtractIsCurrent /\ \A q \in IdPs : Sso!RefreshOK(q)
      /\ Sso!RoleIsDue /\ Sso!SessionsAreProper /\ Sso!VisitOK(v)
      /\ idps \in [IdPs -> Sso!IdP] /\ signIn[v] \in Sso!Visit
  BY SsoFacts
<1>1. /\ signIn[v].pc = "update" /\ Sso!Return(v)
      /\ UNCHANGED <<members, refresh, due, improper, overlap, signIns, orders>>
  BY DEF Sso!WriteProvider, Sso!At, Sso!history
<1>2. /\ signIn' \in [Handlers -> Sso!Visit] /\ signIn'[v].pc = "idle"
      /\ \A w \in Handlers \ {v} : signIn'[w] = signIn[w]
  BY <1>0, <1>1, SsoReturns
<1> DEFINE p == signIn[v].idp
           x == signIn[v].xml
           s == signIn[v].patch
           n(r) == [r EXCEPT !.xml = x, !.extract = x, !.stale = FALSE]
           k(r) == [r EXCEPT !.status = s]
<1>3. p \in IdPs /\ (~overlap => \A q \in IdPs : refresh[q] = -1)
  BY <1>0, <1>1 DEF Sso!VisitOK
<1>4. x \in Sso!Versions /\ s \in {"active", "paused", "xml"}
  BY <1>0 DEF Sso!Visit
<1>5. /\ idps' \in [IdPs -> Sso!IdP] /\ \A q \in IdPs \ {p} : idps'[q] = idps[q]
      /\ idps[p].status # "none" => idps'[p].status # "none"
      /\ \/ idps'[p].extract = idps'[p].xml
         \/ idps'[p].extract = idps[p].extract /\ idps'[p].xml = idps[p].xml
  <2>1. ASSUME NEW r \in Sso!IdP
        PROVE  n(r) \in Sso!IdP /\ n(r).status = r.status /\ n(r).xml = x /\ n(r).extract = x
    BY <1>4 DEF Sso!IdP
  <2>2. ASSUME NEW r \in Sso!IdP, s # "xml"
        PROVE  /\ k(r) \in Sso!IdP /\ k(r).status # "none" /\ k(r).xml = r.xml
               /\ k(r).extract = r.extract
    BY <1>4, <2>2 DEF Sso!IdP
  <2>3. \/ idps' = idps \/ idps' = [idps EXCEPT ![p] = n(idps[p])]
        \/ s # "xml" /\ idps' = [idps EXCEPT ![p] = k(idps[p])]
    BY <1>0, <1>3 DEF Sso!WriteProvider, Sso!IdP
  <2> HIDE DEF n, k, p, s, x
  <2> QED BY <1>0, <1>3, <2>1, <2>2, <2>3
<1> HIDE DEF p, s, x
<1>6. Sso!TypeOK'
  BY <1>0, <1>1, <1>2, <1>5 DEF Sso!TypeOK
<1>7. Sso!ExtractIsCurrent' /\ Sso!RoleIsDue' /\ Sso!SessionsAreProper'
  BY <1>0, <1>1, <1>3, <1>5 DEF Sso!ExtractIsCurrent, Sso!RoleIsDue, Sso!SessionsAreProper
<1>8. ASSUME NEW q \in IdPs PROVE Sso!RefreshOK(q)'
  BY <1>0, <1>1, <1>3, <1>5 DEF Sso!RefreshOK
<1>9. Sso!VisitOK(v)'
  BY <1>2 DEF Sso!VisitOK
<1> QED BY <1>1, <1>2, <1>6, <1>7, <1>8, <1>9, SsoOthers DEF Sso!SamlInv

(* The steps of an assertion's call change no provider and no refresh.     *)
LEMMA SsoAccount ==
  ASSUME Sso!SamlInv, NEW v \in Handlers, signIn[v].pc # "idle", Sso!TypeOK',
         UNCHANGED <<idps, refresh, overlap>>,
         \A w \in Handlers \ {v} : signIn'[w] = signIn[w],
         Sso!VisitOK(v)', Sso!RoleIsDue', Sso!SessionsAreProper'
  PROVE  Sso!SamlInv'
<1>1. Sso!ExtractIsCurrent /\ \A q \in IdPs : Sso!RefreshOK(q)
  BY SsoFacts
<1>2. Sso!ExtractIsCurrent' /\ \A q \in IdPs : Sso!RefreshOK(q)'
  BY <1>1 DEF Sso!ExtractIsCurrent, Sso!RefreshOK
<1>3. Sso!Alone' /\ \A w \in Handlers \ {v} : Sso!VisitOK(w)'
  BY SsoOthers
<1> QED BY <1>2, <1>3 DEF Sso!SamlInv

LEMMA ReadUserStep ==
  ASSUME Sso!SamlInv, NEW v \in Handlers, Sso!ReadUser(v)
  PROVE  Sso!SamlInv'
<1>0. /\ Sso!TypeOK /\ Sso!RoleIsDue /\ Sso!SessionsAreProper /\ Sso!VisitOK(v)
      /\ signIn \in [Handlers -> Sso!Visit] /\ signIn[v] \in Sso!Visit
  BY SsoFacts DEF Sso!TypeOK
<1> DEFINE m == signIn[v].who
           role == members[m].role
           status == members[m].status
           n(r) == [r EXCEPT !.pc = "merge", !.role = role, !.status = status]
<1>1. /\ signIn[v].pc = "user"
      /\ UNCHANGED <<idps, members, refresh, due, improper, overlap, signIns, orders>>
      /\ \/ status = "none" /\ Sso!Goto(v, "insert")
         \/ status # "none" /\ signIn' = [signIn EXCEPT ![v] = n(signIn[v])]
  BY <1>0 DEF Sso!ReadUser, Sso!At, Sso!history
<1>2. m \in Members
  BY <1>0, <1>1 DEF Sso!VisitOK
<1>3. role \in Sso!Roles /\ status \in {"none", "active", "suspended"}
  BY <1>2, SsoFacts DEF Sso!Member
<1>4. Sso!RoleIsDue' /\ Sso!SessionsAreProper'
  BY <1>0, <1>1 DEF Sso!RoleIsDue, Sso!SessionsAreProper
<1>5. CASE status = "none" /\ Sso!Goto(v, "insert")
  <2>1. /\ signIn' \in [Handlers -> Sso!Visit] /\ signIn'[v].pc = "insert"
        /\ signIn'[v].who = signIn[v].who /\ \A w \in Handlers \ {v} : signIn'[w] = signIn[w]
    <3>1. "insert" \in Sso!Step
      BY DEF Sso!Step
    <3> QED BY <1>0, <1>5, <3>1, SsoGoes
  <2>2. Sso!TypeOK'
    BY <1>0, <1>1, <2>1 DEF Sso!TypeOK
  <2>3. Sso!VisitOK(v)'
    BY <1>2, <2>1 DEF Sso!VisitOK
  <2> QED BY <1>1, <1>4, <2>1, <2>2, <2>3, SsoAccount
<1>6. CASE status # "none" /\ signIn' = [signIn EXCEPT ![v] = n(signIn[v])]
  <2>1. ASSUME NEW r \in Sso!Visit
        PROVE  /\ n(r) \in Sso!Visit /\ n(r).pc = "merge" /\ n(r).who = r.who
               /\ n(r).role = role /\ n(r).status = status
    <3> HIDE DEF role, status
    <3> QED BY <1>3 DEF Sso!Visit, Sso!Step
  <2>2. /\ signIn' \in [Handlers -> Sso!Visit] /\ signIn'[v] = n(signIn[v])
        /\ \A w \in Handlers \ {v} : signIn'[w] = signIn[w]
    <3> HIDE DEF n, role, status
    <3> QED BY <1>0, <1>6, <2>1
  <2>3. /\ signIn'[v].pc = "merge" /\ signIn'[v].who = m
        /\ signIn'[v].role = role /\ signIn'[v].status = status
    <3> HIDE DEF n, role, status
    <3> QED BY <1>0, <2>1, <2>2
  <2>4. Sso!TypeOK'
    BY <1>0, <1>1, <2>2 DEF Sso!TypeOK
  <2>5. Sso!VisitOK(v)'
    BY <1>1, <1>2, <1>6, <2>3 DEF Sso!VisitOK
  <2> QED BY <1>1, <1>4, <2>2, <2>4, <2>5, SsoAccount
<1> QED BY <1>1, <1>5, <1>6

(* A new account has the role its assertion names.                         *)
LEMMA InsertUserStep ==
  ASSUME Sso!SamlInv, NEW v \in Handlers, Sso!InsertUser(v)
  PROVE  Sso!SamlInv'
<1>0. /\ Sso!TypeOK /\ Sso!RoleIsDue /\ Sso!SessionsAreProper /\ Sso!VisitOK(v)
      /\ signIn \in [Handlers -> Sso!Visit] /\ signIn[v] \in Sso!Visit
      /\ members \in [Members -> Sso!Member] /\ due \in [Members -> Sso!Roles]
  BY SsoFacts DEF Sso!TypeOK
<1> DEFINE m == signIn[v].who
           role == signIn[v].asserted
           n(r) == [r EXCEPT !.pc = "check", !.status = "active"]
<1>1. /\ signIn[v].pc = "insert"
      /\ UNCHANGED <<idps, refresh, improper, overlap, signIns, orders>>
  BY DEF Sso!InsertUser, Sso!At
<1>2. m \in Members /\ role \in Sso!Roles
  BY <1>0, <1>1 DEF Sso!VisitOK, Sso!Visit
<1>3. Sso!SessionsAreProper'
  BY <1>0, <1>1 DEF Sso!SessionsAreProper
<1>4. CASE UNCHANGED <<members, due>> /\ Sso!Return(v)
  <2>1. /\ signIn' \in [Handlers -> Sso!Visit] /\ signIn'[v].pc = "idle"
        /\ \A w \in Handlers \ {v} : signIn'[w] = signIn[w]
    BY <1>0, <1>4, SsoReturns
  <2>2. Sso!TypeOK' /\ Sso!RoleIsDue' /\ Sso!VisitOK(v)'
    BY <1>0, <1>1, <1>4, <2>1 DEF Sso!TypeOK, Sso!RoleIsDue, Sso!VisitOK
  <2> QED BY <1>1, <1>3, <2>1, <2>2, SsoAccount
<1>5. CASE /\ members' = [members EXCEPT ![m] = [status |-> "active", role |-> role]]
           /\ due' = [due EXCEPT ![m] = role]
           /\ signIn' = [signIn EXCEPT ![v] = n(signIn[v])]
  <2>1. ASSUME NEW r \in Sso!Visit
        PROVE  /\ n(r) \in Sso!Visit /\ n(r).pc = "check" /\ n(r).who = r.who
               /\ n(r).status = "active"
    BY DEF Sso!Visit, Sso!Step
  <2>2. /\ signIn' \in [Handlers -> Sso!Visit] /\ signIn'[v] = n(signIn[v])
        /\ \A w \in Handlers \ {v} : signIn'[w] = signIn[w]
    <3> HIDE DEF n, m, role
    <3> QED BY <1>0, <1>5, <2>1
  <2>3. signIn'[v].pc = "check" /\ signIn'[v].who = m /\ signIn'[v].status = "active"
    <3> HIDE DEF n
    <3> QED BY <1>0, <2>1, <2>2
  <2> HIDE DEF m, role
  <2>4. /\ members' \in [Members -> Sso!Member] /\ due' \in [Members -> Sso!Roles]
        /\ members'[m].status = "active" /\ members'[m].role = role /\ due'[m] = role
        /\ \A o \in Members \ {m} : members'[o] = members[o] /\ due'[o] = due[o]
    <3>1. [status |-> "active", role |-> role] \in Sso!Member
      BY <1>2 DEF Sso!Member
    <3> QED BY <1>0, <1>2, <1>5, <3>1
  <2>5. Sso!TypeOK'
    BY <1>0, <1>1, <2>2, <2>4 DEF Sso!TypeOK
  <2>6. Sso!RoleIsDue'
    BY <1>0, <1>1, <1>2, <2>4 DEF Sso!RoleIsDue
  <2>7. Sso!VisitOK(v)'
    BY <1>2, <2>3, <2>4 DEF Sso!VisitOK
  <2> QED BY <1>1, <1>3, <2>2, <2>5, <2>6, <2>7, SsoAccount
<1> QED BY <1>0, <1>4, <1>5 DEF Sso!InsertUser

(* The merge raises the role it read, never lowers it.                     *)
LEMMA MergeUserStep ==
  ASSUME Sso!SamlInv, NEW v \in Handlers, Sso!MergeUser(v)
  PROVE  Sso!SamlInv'
<1>0. /\ Sso!TypeOK /\ Sso!RoleIsDue /\ Sso!SessionsAreProper /\ Sso!VisitOK(v)
      /\ signIn[v] \in Sso!Visit
      /\ members \in [Members -> Sso!Member] /\ due \in [Members -> Sso!Roles]
  BY SsoFacts DEF Sso!TypeOK
<1> DEFINE m == signIn[v].who
           role == Sso!PickMaxRole(signIn[v].role, signIn[v].asserted)
           raised == Sso!PickMaxRole(due[m], signIn[v].asserted)
           n(r) == [r EXCEPT !.role = role]
<1>1. /\ signIn[v].pc = "merge" /\ Sso!Goto(v, "check")
      /\ UNCHANGED <<idps, refresh, improper, overlap, signIns, orders>>
      /\ members' = [members EXCEPT ![m] = n(members[m])] /\ due' = [due EXCEPT ![m] = raised]
  BY DEF Sso!MergeUser, Sso!At
<1>2. m \in Members /\ signIn[v].role \in Sso!Roles /\ signIn[v].asserted \in Sso!Roles
  BY <1>0, <1>1 DEF Sso!VisitOK, Sso!Visit
<1>3. due[m] \in Sso!Roles /\ members[m] \in Sso!Member
  BY <1>0, <1>2
<1>4. role \in Sso!Roles /\ raised \in Sso!Roles
  BY <1>2, <1>3 DEF Sso!PickMaxRole
<1>5. ~overlap => /\ signIn[v].status # "none" /\ signIn[v].status = members[m].status
                  /\ role = raised
  <2> SUFFICES ASSUME ~overlap
               PROVE  /\ signIn[v].status # "none" /\ signIn[v].status = members[m].status
                      /\ signIn[v].role = due[m]
    OBVIOUS
  <2>1. /\ signIn[v].status # "none" /\ signIn[v].status = members[m].status
        /\ signIn[v].role = members[m].role
    BY <1>0, <1>1 DEF Sso!VisitOK
  <2>2. members[m].role = due[m]
    BY <1>0, <1>2, <2>1 DEF Sso!RoleIsDue
  <2> QED BY <2>1, <2>2
<1>6. /\ signIn' \in [Handlers -> Sso!Visit] /\ signIn'[v].pc = "check"
      /\ signIn'[v].who = m /\ signIn'[v].status = signIn[v].status
      /\ \A w \in Handlers \ {v} : signIn'[w] = signIn[w]
  <2>1. "check" \in Sso!Step
    BY DEF Sso!Step
  <2> QED BY <1>0, <1>1, <2>1, SsoGoes
<1>7. ASSUME NEW r \in Sso!Member
      PROVE  n(r) \in Sso!Member /\ n(r).role = role /\ n(r).status = r.status
  <2> HIDE DEF role
  <2> QED BY <1>4 DEF Sso!Member
<1> HIDE DEF n, role, raised, m
<1>8. /\ members' \in [Members -> Sso!Member] /\ due' \in [Members -> Sso!Roles]
      /\ members'[m].status = members[m].status /\ members'[m].role = role /\ due'[m] = raised
      /\ \A o \in Members \ {m} : members'[o] = members[o] /\ due'[o] = due[o]
  BY <1>0, <1>1, <1>2, <1>3, <1>4, <1>7
<1>9. Sso!TypeOK' /\ Sso!SessionsAreProper'
  BY <1>0, <1>1, <1>6, <1>8 DEF Sso!TypeOK, Sso!SessionsAreProper
<1>10. Sso!RoleIsDue'
  BY <1>0, <1>1, <1>2, <1>5, <1>8 DEF Sso!RoleIsDue
<1>11. Sso!VisitOK(v)'
  BY <1>1, <1>2, <1>5, <1>6, <1>8 DEF Sso!VisitOK
<1> QED BY <1>1, <1>6, <1>9, <1>10, <1>11, SsoAccount

(* A session is issued on the status that was read.                        *)
LEMMA IssueSessionStep ==
  ASSUME Sso!SamlInv, NEW v \in Handlers, Sso!IssueSession(v)
  PROVE  Sso!SamlInv'
<1>0. /\ Sso!TypeOK /\ Sso!RoleIsDue /\ Sso!SessionsAreProper /\ Sso!VisitOK(v)
  BY SsoFacts
<1> DEFINE wrong == /\ signIn[v].status = "active"
                    /\ members[signIn[v].who].status # "active"
<1>1. /\ signIn[v].pc = "check" /\ Sso!Return(v)
      /\ UNCHANGED <<idps, members, refresh, due, overlap, signIns, orders>>
      /\ improper' = (improper \/ wrong)
  BY DEF Sso!IssueSession, Sso!At
<1>2. /\ signIn' \in [Handlers -> Sso!Visit] /\ signIn'[v].pc = "idle"
      /\ \A w \in Handlers \ {v} : signIn'[w] = signIn[w]
  BY <1>0, <1>1, SsoReturns
<1>3. ~overlap => ~wrong
  BY <1>0, <1>1 DEF Sso!VisitOK
<1>4. improper' \in BOOLEAN
  BY <1>0, <1>1 DEF Sso!TypeOK
<1> HIDE DEF wrong
<1>5. Sso!TypeOK'
  BY <1>0, <1>1, <1>2, <1>4 DEF Sso!TypeOK
<1>6. Sso!RoleIsDue'
  BY <1>0, <1>1 DEF Sso!RoleIsDue
<1>7. Sso!SessionsAreProper'
  BY <1>0, <1>1, <1>3 DEF Sso!SessionsAreProper
<1>8. Sso!VisitOK(v)'
  BY <1>2 DEF Sso!VisitOK
<1> QED BY <1>1, <1>2, <1>5, <1>6, <1>7, <1>8, SsoAccount

(* The administrator's step: while a call is under way, it is an overlap.  *)
LEMMA AdministerStep ==
  ASSUME Sso!SamlInv, NEW m \in Members, NEW status \in {"active", "suspended"},
         NEW role \in Sso!Roles, Sso!Administer(m, status, role)
  PROVE  Sso!SamlInv'
<1>0. /\ Sso!TypeOK /\ Sso!ExtractIsCurrent /\ \A q \in IdPs : Sso!RefreshOK(q)
      /\ Sso!RoleIsDue /\ Sso!SessionsAreProper /\ Sso!Alone
      /\ \A v \in Handlers : Sso!VisitOK(v)
      /\ members \in [Members -> Sso!Member] /\ due \in [Members -> Sso!Roles]
      /\ overlap \in BOOLEAN /\ orders \in 0..MaxOrders
  BY SsoFacts DEF Sso!TypeOK
<1>1. /\ UNCHANGED <<idps, signIn, refresh, improper, signIns>>
      /\ members' = [members EXCEPT ![m] = [status |-> status, role |-> role]]
      /\ due' = [due EXCEPT ![m] = role]
      /\ orders < MaxOrders /\ orders' = orders + 1
      /\ overlap' = (overlap \/ Sso!Busy)
  BY DEF Sso!Administer
<1>2. [status |-> status, role |-> role] \in Sso!Member
  BY DEF Sso!Member
<1>3. /\ members' \in [Members -> Sso!Member] /\ due' \in [Members -> Sso!Roles]
      /\ members'[m].role = role /\ due'[m] = role
      /\ \A o \in Members \ {m} : members'[o] = members[o] /\ due'[o] = due[o]
  BY <1>0, <1>1, <1>2
<1>4. orders' \in 0..MaxOrders
  BY <1>0, <1>1
<1>5. overlap' \in BOOLEAN /\ (overlap => overlap')
  BY <1>0, <1>1 DEF Sso!Busy
<1>6. Sso!TypeOK'
  BY <1>0, <1>1, <1>3, <1>4, <1>5 DEF Sso!TypeOK
<1>7. Sso!ExtractIsCurrent' /\ Sso!SessionsAreProper' /\ Sso!Alone'
  BY <1>0, <1>1, <1>5 DEF Sso!ExtractIsCurrent, Sso!SessionsAreProper, Sso!Alone, Sso!At
<1>8. Sso!RoleIsDue'
  BY <1>0, <1>3, <1>5 DEF Sso!RoleIsDue
<1>9. \A q \in IdPs : Sso!RefreshOK(q)'
  BY <1>0, <1>1, <1>5 DEF Sso!RefreshOK
<1>10. ASSUME NEW v \in Handlers PROVE Sso!VisitOK(v)'
  <2>1. overlap' \/ signIn[v].pc = "idle"
    BY <1>1 DEF Sso!Busy, Sso!At
  <2> QED BY <1>0, <1>1, <1>5, <2>1 DEF Sso!VisitOK
<1> QED BY <1>6, <1>7, <1>8, <1>9, <1>10 DEF Sso!SamlInv

LEMMA SsoFrame ==
  ASSUME Sso!SamlInv, UNCHANGED samlVars
  PROVE  Sso!SamlInv'
<1>0. /\ Sso!TypeOK /\ Sso!ExtractIsCurrent /\ Sso!RoleIsDue /\ Sso!SessionsAreProper
      /\ Sso!Alone /\ \A p \in IdPs : Sso!RefreshOK(p)
      /\ \A v \in Handlers : Sso!VisitOK(v)
  BY SsoFacts
<1>1. UNCHANGED <<idps, members, signIn, refresh, due, improper, overlap, signIns, orders>>
  BY DEF samlVars
<1>2. Sso!TypeOK' /\ Sso!ExtractIsCurrent' /\ Sso!RoleIsDue' /\ Sso!SessionsAreProper'
  BY <1>0, <1>1 DEF Sso!TypeOK, Sso!ExtractIsCurrent, Sso!RoleIsDue, Sso!SessionsAreProper
<1>3. Sso!Alone'
  BY <1>0, <1>1 DEF Sso!Alone, Sso!At
<1>4. \A p \in IdPs : Sso!RefreshOK(p)'
  BY <1>0, <1>1 DEF Sso!RefreshOK
<1>5. \A v \in Handlers : Sso!VisitOK(v)'
  BY <1>0, <1>1 DEF Sso!VisitOK
<1> QED BY <1>2, <1>3, <1>4, <1>5 DEF Sso!SamlInv

LEMMA SsoStep == Sso!SamlInv /\ (Sso!Next \/ UNCHANGED samlVars) => Sso!SamlInv'
<1> SUFFICES ASSUME Sso!SamlInv, Sso!Next \/ UNCHANGED samlVars
             PROVE  Sso!SamlInv'
  OBVIOUS
<1>1. ASSUME Sso!SamlRequest PROVE Sso!SamlInv'
  BY <1>1, ProviderStep, RefreshStep, SsoBeginStep DEF Sso!SamlRequest
<1>2. ASSUME NEW v \in Handlers, Sso!VisitStep(v) PROVE Sso!SamlInv'
  BY <1>2, WriteProviderStep, ReadUserStep, InsertUserStep, MergeUserStep, IssueSessionStep
  DEF Sso!VisitStep
<1> QED BY <1>1, <1>2, ProviderStep, AdministerStep, SsoFrame DEF Sso!Next

(* Unless calls overlapped: what is kept of a provider's metadata, the     *)
(* address logins are sent to with it, is of the document on file, a role  *)
(* is the one given and since raised by assertions, and no session goes to *)
(* a suspended account.  Whose assertions they are is not part of it: no   *)
(* signature is verified.                                                  *)
THEOREM SignInIsProper == IdentitySpec => []SamlInv
<1>1. IdentityInit => Sso!SamlInv
  BY SsoInit DEF IdentityInit
<1>2. Sso!SamlInv /\ [IdentityNext]_everything => Sso!SamlInv'
  BY SsoStep DEF IdentityNext, everything
<1>3. IdentitySpec => []Sso!SamlInv
  BY <1>1, <1>2, PTL DEF IdentitySpec
<1> QED BY <1>3, PTL DEF SamlInv

-----------------------------------------------------------------------------
(* LTI launches: how calls move *)

LEMMA LtiFacts ==
  ASSUME Lti!LaunchInv
  PROVE  /\ Lti!TypeOK /\ Lti!OneSessionPerLaunch /\ Lti!OneAccountPerSubject
         /\ Lti!TicketsAreGood /\ Lti!Linked /\ Lti!Alone
         /\ \A t \in Tickets : Lti!TicketOK(t) /\ tickets[t] \in Lti!Ticket
         /\ \A c \in Handlers : Lti!PilotOK(c) /\ Lti!PilotAlone(c) /\ pilot[c] \in Lti!Pilot
         /\ \A s \in States : launches[s] \in Lti!LaunchRow
         /\ \A e \in Users : accounts[e] \in Lti!Account
BY DEF Lti!LaunchInv, Lti!TypeOK

LEMMA LtiIdle ==
  /\ Lti!Idle \in Lti!Pilot /\ Lti!Idle.pc = "idle" /\ ~Lti!Idle.relink
  /\ Lti!Launching = {"verify", "use"} /\ Lti!Known = {"link", "record", "enrol", "ticket"}
  /\ Lti!Step = Lti!Launching \union {"subject", "email", "insert"} \union Lti!Known
                  \union {"idle", "account"}
BY DEF Lti!Idle, Lti!Pilot, Lti!Step, Lti!Launching, Lti!Known

LEMMA LtiReturns ==
  ASSUME Lti!TypeOK, NEW c \in Handlers, Lti!Return(c)
  PROVE  /\ pilot' \in [Handlers -> Lti!Pilot] /\ pilot'[c].pc = "idle"
         /\ \A d \in Handlers \ {c} : pilot'[d] = pilot[d]
<1>1. pilot \in [Handlers -> Lti!Pilot] /\ pilot' = [pilot EXCEPT ![c] = Lti!Idle]
  BY DEF Lti!TypeOK, Lti!Return
<1> QED BY <1>1, LtiIdle

LEMMA LtiGoes ==
  ASSUME Lti!TypeOK, NEW c \in Handlers, NEW s \in Lti!Step, Lti!Goto(c, s)
  PROVE  /\ pilot' \in [Handlers -> Lti!Pilot] /\ pilot'[c].pc = s
         /\ pilot'[c].state = pilot[c].state /\ pilot'[c].subject = pilot[c].subject
         /\ pilot'[c].email = pilot[c].email /\ pilot'[c].course = pilot[c].course
         /\ pilot'[c].relink = pilot[c].relink
         /\ \A d \in Handlers \ {c} : pilot'[d] = pilot[d]
<1> DEFINE n(r) == [r EXCEPT !.pc = s]
<1>1. ASSUME NEW r \in Lti!Pilot
      PROVE  /\ n(r) \in Lti!Pilot /\ n(r).pc = s /\ n(r).state = r.state
             /\ n(r).subject = r.subject /\ n(r).email = r.email /\ n(r).course = r.course
             /\ n(r).relink = r.relink
  BY DEF Lti!Pilot
<1>2. pilot \in [Handlers -> Lti!Pilot] /\ pilot' = [pilot EXCEPT ![c] = n(pilot[c])]
  BY DEF Lti!TypeOK, Lti!Goto
<1> HIDE DEF n
<1>3. pilot[c] \in Lti!Pilot /\ pilot'[c] = n(pilot[c])
  BY <1>2
<1> QED BY <1>1, <1>2, <1>3

(* A call that begins is alone, or calls are tangled from then on.         *)
LEMMA LtiBegins ==
  ASSUME Lti!TypeOK, NEW c \in Handlers, NEW p \in Lti!Pilot, Lti!Begin(c, p)
  PROVE  /\ pilot' \in [Handlers -> Lti!Pilot] /\ pilot'[c] = p /\ pilot[c].pc = "idle"
         /\ \A d \in Handlers \ {c} : pilot'[d] = pilot[d]
         /\ turns' \in 0..MaxTurns /\ tangled' \in BOOLEAN
         /\ ~tangled' => ~tangled /\ \A d \in Handlers : pilot[d].pc = "idle"
<1>1. pilot \in [Handlers -> Lti!Pilot] /\ pilot' = [pilot EXCEPT ![c] = p]
  BY DEF Lti!TypeOK, Lti!Begin
<1>2. turns' \in 0..MaxTurns
  BY DEF Lti!TypeOK, Lti!Begin
<1>3. /\ tangled' = (tangled \/ \E d \in Handlers \ {c} : ~Lti!At(d, "idle"))
      /\ tangled \in BOOLEAN /\ Lti!At(c, "idle")
  BY DEF Lti!TypeOK, Lti!Begin
<1>4. tangled' \in BOOLEAN
  BY <1>3
<1> QED BY <1>1, <1>2, <1>3, <1>4 DEF Lti!At

(* What the launches and accounts that stand are worth to a call that does *)
(* not move: used launches stay used, accounts stay there.                 *)
LEMMA LtiStands ==
  ASSUME NEW d \in Handlers, Lti!PilotOK(d), pilot' [d] = pilot[d],
         \A s \in States : /\ launches[s].status = "used" => launches'[s].status = "used"
                           /\ launches[s].status # "none" => launches'[s].status # "none",
         \A e \in Users : accounts[e].status # "none" => accounts'[e].status # "none",
         pilot[d].pc = "account" =>
           /\ \A t \in Tickets : tickets[t].status = "spent" => tickets'[t].status = "spent"
           /\ signedIn'[pilot[d].ticket] = signedIn[pilot[d].ticket]
           /\ \A o \in Handlers \ {d} : pilot'[o].pc = "account" =>
                pilot'[o].ticket # pilot[d].ticket
  PROVE  Lti!PilotOK(d)'
<1> DEFINE p == pilot[d]
<1>1. /\ p.pc \in Lti!Launching => /\ p.state \in States /\ launches[p.state].status # "none"
      /\ p.pc \in {"subject", "email", "insert"} \union Lti!Known =>
           p.state \in States /\ launches[p.state].status = "used"
      /\ p.pc \in {"insert"} \union Lti!Known => p.email \in Users
      /\ p.pc \in Lti!Known => accounts[p.email].status # "none"
      /\ p.pc \in Lti!Launching \union {"subject", "email", "insert"} =>
           ~p.relink /\ p.subject # Nobody
      /\ p.pc = "account" => /\ p.ticket \in Tickets /\ tickets[p.ticket].status = "spent"
                             /\ signedIn[p.ticket] = 0
  BY DEF Lti!PilotOK
<1> QED BY <1>1 DEF Lti!PilotOK, Lti!At, Lti!Launching, Lti!Known

(* A step of one call that touches at most its own launch, adds people to  *)
(* the course and accounts to those that are there, and no ticket.         *)
LEMMA LtiCall ==
  ASSUME Lti!LaunchInv, NEW c \in Handlers, pilot[c].pc \notin {"idle", "account"},
         pilot'[c].pc # "account", Lti!TypeOK', UNCHANGED <<tickets, signedIn, tangled>>,
         \A d \in Handlers \ {c} : pilot'[d] = pilot[d],
         \A s \in States : /\ launches'[s] = launches[s] \/ s = pilot[c].state
                           /\ launches[s].status = "used" => launches'[s].status = "used"
                           /\ launches[s].status # "none" => launches'[s].status # "none",
         \A e \in Users : accounts[e].status # "none" => accounts'[e].status # "none",
         onCourse \subseteq onCourse',
         Lti!PilotOK(c)', Lti!PilotAlone(c)', Lti!OneAccountPerSubject', Lti!Linked'
  PROVE  Lti!LaunchInv'
<1>0. /\ Lti!OneSessionPerLaunch /\ Lti!TicketsAreGood /\ Lti!Alone
      /\ \A t \in Tickets : Lti!TicketOK(t)
      /\ \A d \in Handlers : Lti!PilotOK(d) /\ Lti!PilotAlone(d)
      /\ pilot[c] \in Lti!Pilot
  BY LtiFacts
<1>1. Lti!OneSessionPerLaunch'
  BY <1>0 DEF Lti!OneSessionPerLaunch
<1>2. ASSUME ~tangled, NEW t \in Tickets, tickets[t].status # "none"
      PROVE  tickets[t].state # pilot[c].state
  <2>1. pilot[c].pc \in Lti!Launching \union {"subject", "email", "insert"} \union Lti!Known
    BY <1>0, LtiIdle DEF Lti!Pilot
  <2> QED BY <1>0, <1>2, <2>1 DEF Lti!PilotAlone
<1>3. Lti!TicketsAreGood'
  <2> SUFFICES ASSUME NEW t \in Tickets, tickets[t].status # "none"
               PROVE  /\ accounts'[tickets[t].user].status # "none"
                      /\ ~tangled /\ launches'[tickets[t].state].platform # Nobody =>
                           /\ launches'[tickets[t].state].status = "used"
                           /\ launches'[tickets[t].state].user = tickets[t].user
                           /\ launches'[tickets[t].state].course => tickets[t].user \in onCourse'
    BY DEF Lti!TicketsAreGood
  <2>1. tickets[t].state \in States /\ tickets[t].user \in Users
    BY <1>0 DEF Lti!TicketOK
  <2>2. ~tangled => launches'[tickets[t].state] = launches[tickets[t].state]
    BY <1>2, <2>1
  <2>3. /\ accounts[tickets[t].user].status # "none"
        /\ ~tangled /\ launches[tickets[t].state].platform # Nobody =>
             /\ launches[tickets[t].state].status = "used"
             /\ launches[tickets[t].state].user = tickets[t].user
             /\ launches[tickets[t].state].course => tickets[t].user \in onCourse
    BY <1>0 DEF Lti!TicketsAreGood
  <2> QED BY <2>1, <2>2, <2>3
<1>4. ASSUME NEW t \in Tickets PROVE Lti!TicketOK(t)'
  BY <1>0 DEF Lti!TicketOK
<1>5. Lti!Alone'
  BY <1>0 DEF Lti!Alone, Lti!At
<1>6. ASSUME NEW d \in Handlers \ {c} PROVE Lti!PilotOK(d)' /\ Lti!PilotAlone(d)'
  <2>1. ASSUME NEW o \in Handlers \ {d}, pilot[d].pc = "account", pilot'[o].pc = "account"
        PROVE  pilot'[o].ticket # pilot[d].ticket
    BY <1>0, <2>1 DEF Lti!PilotOK, Lti!At
  <2>2. Lti!PilotOK(d)'
    BY <1>0, <2>1, LtiStands
  <2>3. tangled \/ pilot'[d].pc = "idle"
    BY <1>0 DEF Lti!Alone, Lti!At
  <2>4. Lti!PilotAlone(d)'
    BY <2>3, LtiIdle DEF Lti!PilotAlone
  <2> QED BY <2>2, <2>4
<1> QED BY <1>1, <1>3, <1>4, <1>5, <1>6 DEF Lti!LaunchInv

-----------------------------------------------------------------------------
(* LTI launches: the steps *)

LEMMA LtiInit == Lti!Init => Lti!LaunchInv
<1> SUFFICES ASSUME Lti!Init PROVE Lti!LaunchInv
  OBVIOUS
<1>1. /\ platforms \in [Platforms -> {"none", "active", "inactive", "deleted"}]
      /\ onCourse = {} /\ signedIn = [t \in Tickets |-> 0]
      /\ tickets = [t \in Tickets |-> [status |-> "none", user |-> Nobody, state |-> Nobody]]
      /\ accounts \in [Users -> [status : {"none", "active"}, subject : {Nobody}]]
  BY DEF Lti!Init
<1>2. launches \in [States -> Lti!LaunchRow]
  BY DEF Lti!Init, Lti!LaunchRow, Lti!NoLaunch
<1>3. accounts \in [Users -> Lti!Account]
  BY <1>1 DEF Lti!Account
<1>4. tickets \in [Tickets -> Lti!Ticket]
  BY <1>1 DEF Lti!Ticket
<1>5. pilot \in [Handlers -> Lti!Pilot] /\ \A c \in Handlers : pilot[c].pc = "idle"
  BY LtiIdle DEF Lti!Init
<1>6. tangled = FALSE /\ turns = 0 /\ troubles = 0
  BY DEF Lti!Init
<1>7. turns \in 0..MaxTurns /\ troubles \in 0..MaxTroubles
  BY <1>6
<1>8. Lti!TypeOK
  BY <1>1, <1>2, <1>3, <1>4, <1>5, <1>6, <1>7 DEF Lti!TypeOK
<1>9. \A t \in Tickets : tickets[t].status = "none" /\ tickets[t].state = Nobody
  BY <1>1
<1>10. \A e \in Users : accounts[e].subject = Nobody
  BY <1>1
<1>11. Lti!OneSessionPerLaunch /\ Lti!OneAccountPerSubject /\ Lti!TicketsAreGood /\ Lti!Linked
  BY <1>1, <1>9, <1>10
  DEF Lti!OneSessionPerLaunch, Lti!OneAccountPerSubject, Lti!TicketsAreGood, Lti!Linked
<1>12. \A t \in Tickets : Lti!TicketOK(t)
  BY <1>1, <1>9 DEF Lti!TicketOK
<1>13. Lti!Alone /\ \A c \in Handlers : Lti!PilotOK(c) /\ Lti!PilotAlone(c)
  BY <1>5, LtiIdle DEF Lti!Alone, Lti!PilotOK, Lti!PilotAlone, Lti!At
<1> QED BY <1>8, <1>11, <1>12, <1>13 DEF Lti!LaunchInv

(* The token is verified, or the call returns.                             *)
LEMMA VerifyTokenStep ==
  ASSUME Lti!LaunchInv, NEW c \in Handlers, Lti!VerifyToken(c)
  PROVE  Lti!LaunchInv'
<1>0. /\ Lti!TypeOK /\ Lti!PilotOK(c) /\ Lti!PilotAlone(c) /\ Lti!OneAccountPerSubject
      /\ Lti!Linked /\ pilot[c].pc = "verify"
      /\ UNCHANGED <<platforms, launches, accounts, onCourse, tickets, signedIn, tangled, turns,
                     troubles>>
  BY LtiFacts DEF Lti!VerifyToken, Lti!At, Lti!history
<1>1. Lti!OneAccountPerSubject' /\ Lti!Linked'
  BY <1>0 DEF Lti!OneAccountPerSubject, Lti!Linked
<1>2. CASE Lti!Return(c)
  <2>1. /\ pilot' \in [Handlers -> Lti!Pilot] /\ pilot'[c].pc = "idle"
        /\ \A d \in Handlers \ {c} : pilot'[d] = pilot[d]
    BY <1>0, <1>2, LtiReturns
  <2>2. Lti!TypeOK'
    BY <1>0, <2>1 DEF Lti!TypeOK
  <2>3. Lti!PilotOK(c)' /\ Lti!PilotAlone(c)'
    BY <2>1, LtiIdle DEF Lti!PilotOK, Lti!PilotAlone
  <2> QED BY <1>0, <1>1, <2>1, <2>2, <2>3, LtiCall
<1>3. CASE Lti!Goto(c, "use")
  <2>1. /\ pilot' \in [Handlers -> Lti!Pilot] /\ pilot'[c].pc = "use"
        /\ pilot'[c].state = pilot[c].state /\ pilot'[c].subject = pilot[c].subject
        /\ pilot'[c].relink = pilot[c].relink
        /\ \A d \in Handlers \ {c} : pilot'[d] = pilot[d]
    BY <1>0, <1>3, LtiGoes, LtiIdle
  <2>2. Lti!TypeOK'
    BY <1>0, <2>1 DEF Lti!TypeOK
  <2>3. Lti!PilotOK(c)'
    BY <1>0, <2>1, LtiIdle DEF Lti!PilotOK
  <2>4. Lti!PilotAlone(c)'
    BY <1>0, <2>1, LtiIdle DEF Lti!PilotAlone
  <2> QED BY <1>0, <1>1, <2>1, <2>2, <2>3, <2>4, LtiCall
<1> QED BY <1>2, <1>3 DEF Lti!VerifyToken

LEMMA MarkUsedStep ==
  ASSUME Lti!LaunchInv, NEW c \in Handlers, Lti!MarkUsed(c)
  PROVE  Lti!LaunchInv'
<1>0. /\ Lti!TypeOK /\ Lti!PilotOK(c) /\ Lti!PilotAlone(c) /\ Lti!OneAccountPerSubject
      /\ Lti!Linked /\ pilot[c].pc = "use" /\ Lti!Goto(c, "subject")
      /\ UNCHANGED <<platforms, accounts, onCourse, tickets, signedIn, tangled, turns, troubles>>
  BY LtiFacts DEF Lti!MarkUsed, Lti!At, Lti!history
<1>1. Lti!OneAccountPerSubject' /\ Lti!Linked'
  BY <1>0 DEF Lti!OneAccountPerSubject, Lti!Linked
<1>2. /\ pilot' \in [Handlers -> Lti!Pilot] /\ pilot'[c].pc = "subject"
      /\ pilot'[c].state = pilot[c].state /\ pilot'[c].subject = pilot[c].subject
      /\ pilot'[c].relink = pilot[c].relink
      /\ \A d \in Handlers \ {c} : pilot'[d] = pilot[d]
  BY <1>0, LtiGoes, LtiIdle
<1> DEFINE s == pilot[c].state
           n(r) == [r EXCEPT !.status = "used"]
<1>3. s \in States /\ launches \in [States -> Lti!LaunchRow]
  BY <1>0, LtiIdle DEF Lti!PilotOK, Lti!TypeOK
<1>4. ASSUME NEW r \in Lti!LaunchRow PROVE n(r) \in Lti!LaunchRow /\ n(r).status = "used"
  BY DEF Lti!LaunchRow
<1>5. launches' = [launches EXCEPT ![s] = n(launches[s])]
  BY DEF Lti!MarkUsed
<1> HIDE DEF n, s
<1>6. /\ launches' \in [States -> Lti!LaunchRow] /\ launches'[s].status = "used"
      /\ \A o \in States \ {s} : launches'[o] = launches[o]
  BY <1>3, <1>4, <1>5
<1> USE DEF s
<1>7. Lti!TypeOK'
  BY <1>0, <1>2, <1>6 DEF Lti!TypeOK
<1>8. Lti!PilotOK(c)'
  BY <1>0, <1>2, <1>3, <1>6, LtiIdle DEF Lti!PilotOK
<1>9. Lti!PilotAlone(c)'
  BY <1>0, <1>2, LtiIdle DEF Lti!PilotAlone
<1>10. \A o \in States : /\ launches'[o] = launches[o] \/ o = pilot[c].state
                         /\ launches[o].status = "used" => launches'[o].status = "used"
                         /\ launches[o].status # "none" => launches'[o].status # "none"
  BY <1>6
<1> QED BY <1>0, <1>1, <1>2, <1>7, <1>8, <1>9, <1>10, LtiCall

(* The subject's account is found, or nobody's account is linked to it.    *)
LEMMA FindBySubjectStep ==
  ASSUME Lti!LaunchInv, NEW c \in Handlers, Lti!FindBySubject(c)
  PROVE  Lti!LaunchInv'
<1>0. /\ Lti!TypeOK /\ Lti!PilotOK(c) /\ Lti!PilotAlone(c) /\ Lti!OneAccountPerSubject
      /\ Lti!Linked /\ pilot[c].pc = "subject"
      /\ UNCHANGED <<platforms, launches, accounts, onCourse, tickets, signedIn, tangled, turns,
                     troubles>>
  BY LtiFacts DEF Lti!FindBySubject, Lti!At, Lti!history
<1>1. Lti!OneAccountPerSubject' /\ Lti!Linked'
  BY <1>0 DEF Lti!OneAccountPerSubject, Lti!Linked
<1>2. CASE /\ \A e \in Users : accounts[e].subject # pilot[c].subject
           /\ Lti!Goto(c, "email")
  <2>1. /\ pilot' \in [Handlers -> Lti!Pilot] /\ pilot'[c].pc = "email"
        /\ pilot'[c].state = pilot[c].state /\ pilot'[c].subject = pilot[c].subject
        /\ pilot'[c].relink = pilot[c].relink
        /\ \A d \in Handlers \ {c} : pilot'[d] = pilot[d]
    BY <1>0, <1>2, LtiGoes, LtiIdle
  <2>2. Lti!TypeOK'
    BY <1>0, <2>1 DEF Lti!TypeOK
  <2>3. Lti!PilotOK(c)'
    BY <1>0, <2>1, LtiIdle DEF Lti!PilotOK
  <2>4. Lti!PilotAlone(c)'
    BY <1>0, <1>2, <2>1, LtiIdle DEF Lti!PilotAlone
  <2> QED BY <1>0, <1>1, <2>1, <2>2, <2>3, <2>4, LtiCall
<1>3. ASSUME NEW e \in Users, accounts[e].subject = pilot[c].subject,
             pilot' = [pilot EXCEPT ![c].pc = "link", ![c].email = e, ![c].relink = FALSE]
      PROVE  Lti!LaunchInv'
  <2> DEFINE n(r) == [r EXCEPT !.pc = "link", !.email = e, !.relink = FALSE]
  <2>1. ASSUME NEW r \in Lti!Pilot
        PROVE  /\ n(r) \in Lti!Pilot /\ n(r).pc = "link" /\ n(r).email = e /\ ~n(r).relink
               /\ n(r).state = r.state
    BY DEF Lti!Pilot, Lti!Step
  <2>2. pilot \in [Handlers -> Lti!Pilot] /\ pilot' = [pilot EXCEPT ![c] = n(pilot[c])]
    BY <1>0, <1>3 DEF Lti!TypeOK
  <2> HIDE DEF n
  <2>3. pilot[c] \in Lti!Pilot /\ pilot'[c] = n(pilot[c])
    BY <2>2
  <2>4. /\ pilot' \in [Handlers -> Lti!Pilot] /\ \A d \in Handlers \ {c} : pilot'[d] = pilot[d]
        /\ pilot'[c].pc = "link" /\ pilot'[c].email = e /\ ~pilot'[c].relink
        /\ pilot'[c].state = pilot[c].state
    BY <2>1, <2>2, <2>3
  <2>5. Lti!TypeOK'
    BY <1>0, <2>4 DEF Lti!TypeOK
  <2>6. accounts[e].status # "none"
    BY <1>0, <1>3, LtiIdle DEF Lti!PilotOK, Lti!Linked
  <2>7. Lti!PilotOK(c)'
    BY <1>0, <2>4, <2>6, LtiIdle DEF Lti!PilotOK
  <2>8. Lti!PilotAlone(c)'
    BY <1>0, <2>4, LtiIdle DEF Lti!PilotAlone
  <2> QED BY <1>0, <1>1, <2>4, <2>5, <2>7, <2>8, LtiCall
<1> QED BY <1>2, <1>3 DEF Lti!FindBySubject

(* Of an address: no account, or one that is to be linked with the subject.*)
LEMMA FindByEmailStep ==
  ASSUME Lti!LaunchInv, NEW c \in Handlers, Lti!FindByEmail(c)
  PROVE  Lti!LaunchInv'
<1>0. /\ Lti!TypeOK /\ Lti!PilotOK(c) /\ Lti!PilotAlone(c) /\ Lti!OneAccountPerSubject
      /\ Lti!Linked /\ pilot[c].pc = "email" /\ pilot[c].email \in Users \union {Nobody}
      /\ UNCHANGED <<platforms, launches, accounts, onCourse, tickets, signedIn, tangled, turns,
                     troubles>>
  BY LtiFacts DEF Lti!FindByEmail, Lti!At, Lti!history, Lti!Pilot
<1>1. Lti!OneAccountPerSubject' /\ Lti!Linked'
  BY <1>0 DEF Lti!OneAccountPerSubject, Lti!Linked
<1>2. CASE Lti!Return(c)
  <2>1. /\ pilot' \in [Handlers -> Lti!Pilot] /\ pilot'[c].pc = "idle"
        /\ \A d \in Handlers \ {c} : pilot'[d] = pilot[d]
    BY <1>0, <1>2, LtiReturns
  <2>2. Lti!TypeOK'
    BY <1>0, <2>1 DEF Lti!TypeOK
  <2>3. Lti!PilotOK(c)' /\ Lti!PilotAlone(c)'
    BY <2>1, LtiIdle DEF Lti!PilotOK, Lti!PilotAlone
  <2> QED BY <1>0, <1>1, <2>1, <2>2, <2>3, LtiCall
<1>3. CASE pilot[c].email # Nobody /\ Lti!Goto(c, "insert")
  <2>1. /\ pilot' \in [Handlers -> Lti!Pilot] /\ pilot'[c].pc = "insert"
        /\ pilot'[c].state = pilot[c].state /\ pilot'[c].subject = pilot[c].subject
        /\ pilot'[c].relink = pilot[c].relink /\ pilot'[c].email = pilot[c].email
        /\ \A d \in Handlers \ {c} : pilot'[d] = pilot[d]
    BY <1>0, <1>3, LtiGoes, LtiIdle
  <2>2. Lti!TypeOK'
    BY <1>0, <2>1 DEF Lti!TypeOK
  <2>3. Lti!PilotOK(c)'
    BY <1>0, <1>3, <2>1, LtiIdle DEF Lti!PilotOK
  <2>4. Lti!PilotAlone(c)'
    BY <1>0, <2>1, LtiIdle DEF Lti!PilotAlone
  <2> QED BY <1>0, <1>1, <2>1, <2>2, <2>3, <2>4, LtiCall
<1>4. CASE /\ pilot[c].email # Nobody /\ accounts[pilot[c].email].status # "none"
           /\ pilot' = [pilot EXCEPT ![c].pc = "link", ![c].relink = TRUE]
  <2> DEFINE n(r) == [r EXCEPT !.pc = "link", !.relink = TRUE]
  <2>1. ASSUME NEW r \in Lti!Pilot
        PROVE  /\ n(r) \in Lti!Pilot /\ n(r).pc = "link" /\ n(r).email = r.email
               /\ n(r).state = r.state /\ n(r).subject = r.subject
    BY DEF Lti!Pilot, Lti!Step
  <2>2. pilot \in [Handlers -> Lti!Pilot] /\ pilot' = [pilot EXCEPT ![c] = n(pilot[c])]
    BY <1>0, <1>4 DEF Lti!TypeOK
  <2> HIDE DEF n
  <2>3. pilot[c] \in Lti!Pilot /\ pilot'[c] = n(pilot[c])
    BY <2>2
  <2>4. /\ pilot' \in [Handlers -> Lti!Pilot] /\ \A d \in Handlers \ {c} : pilot'[d] = pilot[d]
        /\ pilot'[c].pc = "link" /\ pilot'[c].email = pilot[c].email
        /\ pilot'[c].state = pilot[c].state /\ pilot'[c].subject = pilot[c].subject
    BY <2>1, <2>2, <2>3
  <2>5. Lti!TypeOK'
    BY <1>0, <2>4 DEF Lti!TypeOK
  <2>6. Lti!PilotOK(c)'
    BY <1>0, <1>4, <2>4, LtiIdle DEF Lti!PilotOK
  <2>7. Lti!PilotAlone(c)'
    BY <1>0, <2>4, LtiIdle DEF Lti!PilotAlone
  <2> QED BY <1>0, <1>1, <2>4, <2>5, <2>6, <2>7, LtiCall
<1> QED BY <1>0, <1>2, <1>3, <1>4 DEF Lti!FindByEmail

(* A new account is linked with a subject that was nobody's.               *)
LEMMA InsertLearnerStep ==
  ASSUME Lti!LaunchInv, NEW c \in Handlers, Lti!InsertLearner(c)
  PROVE  Lti!LaunchInv'
<1>0. /\ Lti!TypeOK /\ Lti!PilotOK(c) /\ Lti!PilotAlone(c) /\ Lti!OneAccountPerSubject
      /\ Lti!Linked /\ pilot[c].pc = "insert" /\ pilot[c] \in Lti!Pilot
      /\ UNCHANGED <<platforms, launches, onCourse, tickets, signedIn, tangled, turns, troubles>>
  BY LtiFacts DEF Lti!InsertLearner, Lti!At, Lti!history
<1> DEFINE e == pilot[c].email
           s == pilot[c].subject
<1>1. e \in Users /\ s \in Subjects \union {Nobody}
  BY <1>0, LtiIdle DEF Lti!PilotOK, Lti!Pilot
<1>2. CASE UNCHANGED accounts /\ Lti!Return(c)
  <2>1. /\ pilot' \in [Handlers -> Lti!Pilot] /\ pilot'[c].pc = "idle"
        /\ \A d \in Handlers \ {c} : pilot'[d] = pilot[d]
    BY <1>0, <1>2, LtiReturns
  <2>2. Lti!TypeOK'
    BY <1>0, <1>2, <2>1 DEF Lti!TypeOK
  <2>3. Lti!PilotOK(c)' /\ Lti!PilotAlone(c)'
    BY <2>1, LtiIdle DEF Lti!PilotOK, Lti!PilotAlone
  <2>4. Lti!OneAccountPerSubject' /\ Lti!Linked'
    BY <1>0, <1>2 DEF Lti!OneAccountPerSubject, Lti!Linked
  <2> QED BY <1>0, <1>2, <2>1, <2>2, <2>3, <2>4, LtiCall
<1>3. CASE /\ accounts' = [accounts EXCEPT ![e] = [status |-> "active", subject |-> s]]
           /\ Lti!Goto(c, "link")
  <2>1. /\ pilot' \in [Handlers -> Lti!Pilot] /\ pilot'[c].pc = "link"
        /\ pilot'[c].state = pilot[c].state /\ pilot'[c].email = e
        /\ pilot'[c].relink = pilot[c].relink
        /\ \A d \in Handlers \ {c} : pilot'[d] = pilot[d]
    BY <1>0, <1>3, LtiGoes, LtiIdle
  <2> HIDE DEF e, s
  <2>2. /\ accounts' \in [Users -> Lti!Account] /\ accounts'[e].status = "active"
        /\ accounts'[e].subject = s /\ \A o \in Users \ {e} : accounts'[o] = accounts[o]
    <3>1. [status |-> "active", subject |-> s] \in Lti!Account
      BY <1>1 DEF Lti!Account
    <3>2. accounts \in [Users -> Lti!Account]
      BY <1>0 DEF Lti!TypeOK
    <3> QED BY <1>1, <1>3, <3>1, <3>2
  <2>3. Lti!TypeOK'
    BY <1>0, <2>1, <2>2 DEF Lti!TypeOK
  <2>4. ~tangled => \A o \in Users : accounts[o].subject # s
    BY <1>0 DEF Lti!PilotAlone, s
  <2>5. Lti!OneAccountPerSubject'
    BY <1>0, <2>2, <2>4 DEF Lti!OneAccountPerSubject
  <2>6. Lti!Linked'
    BY <1>0, <2>2 DEF Lti!Linked
  <2>7. Lti!PilotOK(c)'
    BY <1>0, <1>1, <2>1, <2>2, LtiIdle DEF Lti!PilotOK
  <2>8. Lti!PilotAlone(c)'
    BY <1>0, <2>1, LtiIdle DEF Lti!PilotAlone, Lti!PilotOK
  <2>9. \A o \in Users : accounts[o].status # "none" => accounts'[o].status # "none"
    BY <2>2
  <2> QED BY <1>0, <2>1, <2>3, <2>5, <2>6, <2>7, <2>8, <2>9, LtiCall
<1> QED BY <1>0, <1>2, <1>3 DEF Lti!InsertLearner

(* An account found by its address takes the subject.                      *)
LEMMA LinkSubjectStep ==
  ASSUME Lti!LaunchInv, NEW c \in Handlers, Lti!LinkSubject(c)
  PROVE  Lti!LaunchInv'
<1>0. /\ Lti!TypeOK /\ Lti!PilotOK(c) /\ Lti!PilotAlone(c) /\ Lti!OneAccountPerSubject
      /\ Lti!Linked /\ pilot[c].pc = "link" /\ pilot[c] \in Lti!Pilot /\ Lti!Goto(c, "record")
      /\ UNCHANGED <<platforms, launches, onCourse, tickets, signedIn, tangled, turns, troubles>>
  BY LtiFacts DEF Lti!LinkSubject, Lti!At, Lti!history
<1> DEFINE e == pilot[c].email
           s == pilot[c].subject
           n(r) == [r EXCEPT !.subject = s]
<1>1. e \in Users /\ s \in Subjects \union {Nobody} /\ accounts[e].status # "none"
  BY <1>0, LtiIdle DEF Lti!PilotOK, Lti!Pilot
<1>2. /\ pilot' \in [Handlers -> Lti!Pilot] /\ pilot'[c].pc = "record"
      /\ pilot'[c].state = pilot[c].state /\ pilot'[c].email = e
      /\ \A d \in Handlers \ {c} : pilot'[d] = pilot[d]
  BY <1>0, LtiGoes, LtiIdle
<1>3. accounts \in [Users -> Lti!Account]
  BY <1>0 DEF Lti!TypeOK
<1>4. \/ accounts' = accounts
      \/ pilot[c].relink /\ accounts' = [accounts EXCEPT ![e] = n(accounts[e])]
  BY <1>0 DEF Lti!LinkSubject
<1>5. ASSUME NEW r \in Lti!Account
      PROVE  n(r) \in Lti!Account /\ n(r).status = r.status /\ n(r).subject = s
  <2> HIDE DEF s
  <2> QED BY <1>1 DEF Lti!Account
<1>6. ~tangled /\ pilot[c].relink => \A o \in Users : accounts[o].subject # s
  BY <1>0 DEF Lti!PilotAlone
<1> HIDE DEF n, s, e
<1>7. /\ accounts' \in [Users -> Lti!Account] /\ accounts'[e].status # "none"
      /\ \A o \in Users \ {e} : accounts'[o] = accounts[o]
      /\ accounts'[e] = accounts[e] \/ (accounts'[e].subject = s /\ pilot[c].relink)
  BY <1>1, <1>3, <1>4, <1>5
<1>8. Lti!TypeOK'
  BY <1>0, <1>2, <1>7 DEF Lti!TypeOK
<1>9. Lti!OneAccountPerSubject'
  BY <1>0, <1>1, <1>6, <1>7 DEF Lti!OneAccountPerSubject
<1>10. Lti!Linked'
  BY <1>0, <1>7 DEF Lti!Linked
<1>11. Lti!PilotOK(c)'
  BY <1>0, <1>1, <1>2, <1>7, LtiIdle DEF Lti!PilotOK
<1>12. Lti!PilotAlone(c)'
  BY <1>0, <1>2, LtiIdle DEF Lti!PilotAlone
<1>13. \A o \in Users : accounts[o].status # "none" => accounts'[o].status # "none"
  BY <1>7
<1> QED BY <1>0, <1>2, <1>8, <1>9, <1>10, <1>11, <1>12, <1>13, LtiCall

(* What the launch's row is told is what the call goes by.                 *)
LEMMA RecordLaunchStep ==
  ASSUME Lti!LaunchInv, NEW c \in Handlers, Lti!RecordLaunch(c)
  PROVE  Lti!LaunchInv'
<1>0. /\ Lti!TypeOK /\ Lti!PilotOK(c) /\ Lti!PilotAlone(c) /\ Lti!OneAccountPerSubject
      /\ Lti!Linked /\ pilot[c].pc = "record" /\ pilot[c] \in Lti!Pilot
      /\ UNCHANGED <<platforms, accounts, onCourse, tickets, signedIn, tangled, turns, troubles>>
  BY LtiFacts DEF Lti!RecordLaunch, Lti!At, Lti!history
<1> DEFINE e == pilot[c].email
           s == pilot[c].state
           k == pilot[c].course
           n(r) == [r EXCEPT !.user = e, !.course = k]
<1>1. /\ e \in Users /\ s \in States /\ k \in BOOLEAN /\ launches[s].status = "used"
      /\ launches \in [States -> Lti!LaunchRow]
  BY <1>0, LtiIdle DEF Lti!PilotOK, Lti!Pilot, Lti!TypeOK
<1>2. Lti!OneAccountPerSubject' /\ Lti!Linked'
  BY <1>0 DEF Lti!OneAccountPerSubject, Lti!Linked
<1>3. PICK to \in {"enrol", "ticket"} : Lti!Goto(c, to) /\ (to = "ticket" => ~k)
  BY DEF Lti!RecordLaunch
<1>4. /\ pilot' \in [Handlers -> Lti!Pilot] /\ pilot'[c].pc = to
      /\ pilot'[c].state = s /\ pilot'[c].email = e /\ pilot'[c].course = k
      /\ \A d \in Handlers \ {c} : pilot'[d] = pilot[d]
  <2>1. to \in Lti!Step
    BY DEF Lti!Step
  <2> QED BY <1>0, <1>3, <2>1, LtiGoes
<1>5. ASSUME NEW r \in Lti!LaunchRow
      PROVE  /\ n(r) \in Lti!LaunchRow /\ n(r).status = r.status /\ n(r).user = e
             /\ n(r).course = k /\ n(r).platform = r.platform
  <2> HIDE DEF e, k
  <2> QED BY <1>1 DEF Lti!LaunchRow
<1>6. \/ launches[s].platform = Nobody /\ launches' = launches
      \/ launches' = [launches EXCEPT ![s] = n(launches[s])]
  BY DEF Lti!RecordLaunch
<1> HIDE DEF n, s, e, k
<1>7. /\ launches' \in [States -> Lti!LaunchRow] /\ launches'[s].status = "used"
      /\ launches'[s].platform # Nobody => launches'[s].user = e /\ launches'[s].course = k
      /\ \A o \in States \ {s} : launches'[o] = launches[o]
  BY <1>1, <1>5, <1>6
<1>8. Lti!TypeOK'
  BY <1>0, <1>4, <1>7 DEF Lti!TypeOK
<1>9. Lti!PilotOK(c)'
  BY <1>0, <1>1, <1>4, <1>7, LtiIdle DEF Lti!PilotOK, e
<1>10. ~tangled => \A t \in Tickets : tickets[t].status # "none" => tickets[t].state # s
  BY <1>0, LtiIdle DEF Lti!PilotAlone, s
<1>11. Lti!PilotAlone(c)'
  BY <1>0, <1>3, <1>4, <1>7, <1>10, LtiIdle DEF Lti!PilotAlone
<1>12. \A o \in States : /\ launches'[o] = launches[o] \/ o = pilot[c].state
                         /\ launches[o].status = "used" => launches'[o].status = "used"
                         /\ launches[o].status # "none" => launches'[o].status # "none"
  BY <1>7 DEF s
<1> QED BY <1>0, <1>2, <1>4, <1>8, <1>9, <1>11, <1>12, LtiCall

LEMMA EnrolLearnerStep ==
  ASSUME Lti!LaunchInv, NEW c \in Handlers, Lti!EnrolLearner(c)
  PROVE  Lti!LaunchInv'
<1>0. /\ Lti!TypeOK /\ Lti!PilotOK(c) /\ Lti!PilotAlone(c) /\ Lti!OneAccountPerSubject
      /\ Lti!Linked /\ pilot[c].pc = "enrol" /\ Lti!Goto(c, "ticket")
      /\ onCourse' = onCourse \union {pilot[c].email}
      /\ UNCHANGED <<platforms, launches, accounts, tickets, signedIn, tangled, turns, troubles>>
  BY LtiFacts DEF Lti!EnrolLearner, Lti!At, Lti!history
<1>1. Lti!OneAccountPerSubject' /\ Lti!Linked'
  BY <1>0 DEF Lti!OneAccountPerSubject, Lti!Linked
<1>2. /\ pilot' \in [Handlers -> Lti!Pilot] /\ pilot'[c].pc = "ticket"
      /\ pilot'[c].state = pilot[c].state /\ pilot'[c].email = pilot[c].email
      /\ pilot'[c].course = pilot[c].course
      /\ \A d \in Handlers \ {c} : pilot'[d] = pilot[d]
  BY <1>0, LtiGoes, LtiIdle
<1>3. onCourse' \in SUBSET Users
  BY <1>0, LtiIdle DEF Lti!TypeOK, Lti!PilotOK
<1>4. Lti!TypeOK'
  BY <1>0, <1>2, <1>3 DEF Lti!TypeOK
<1>5. Lti!PilotOK(c)'
  BY <1>0, <1>2, LtiIdle DEF Lti!PilotOK
<1>6. Lti!PilotAlone(c)'
  BY <1>0, <1>2, LtiIdle DEF Lti!PilotAlone
<1> QED BY <1>0, <1>1, <1>2, <1>4, <1>5, <1>6, LtiCall

(* A ticket is issued: when the call is alone, the launch's only one, to   *)
(* the person the launch's row names, who is enrolled if it names a course.*)
LEMMA IssueTicketStep ==
  ASSUME Lti!LaunchInv, NEW c \in Handlers, NEW t \in Tickets, Lti!IssueTicket(c, t)
  PROVE  Lti!LaunchInv'
<1>0. /\ Lti!TypeOK /\ Lti!PilotOK(c) /\ Lti!PilotAlone(c) /\ Lti!OneAccountPerSubject
      /\ Lti!Linked /\ Lti!OneSessionPerLaunch /\ Lti!TicketsAreGood /\ Lti!Alone
      /\ \A u \in Tickets : Lti!TicketOK(u)
      /\ \A d \in Handlers : Lti!PilotOK(d) /\ Lti!PilotAlone(d)
      /\ pilot[c].pc = "ticket" /\ tickets[t].status = "none" /\ Lti!Return(c)
      /\ UNCHANGED <<platforms, launches, accounts, onCourse, signedIn, tangled, turns, troubles>>
  BY LtiFacts DEF Lti!IssueTicket, Lti!At, Lti!history
<1> DEFINE e == pilot[c].email
           s == pilot[c].state
           k == [status |-> "open", user |-> e, state |-> s]
<1>1. /\ e \in Users /\ s \in States /\ launches[s].status = "used"
      /\ accounts[e].status # "none"
  BY <1>0, LtiIdle DEF Lti!PilotOK
<1>2. /\ pilot' \in [Handlers -> Lti!Pilot] /\ pilot'[c].pc = "idle"
      /\ \A d \in Handlers \ {c} : pilot'[d] = pilot[d]
  BY <1>0, LtiReturns
<1>3. k \in Lti!Ticket /\ k.status = "open" /\ k.user = e /\ k.state = s
  <2> HIDE DEF e, s
  <2> QED BY <1>1 DEF Lti!Ticket
<1>4. tickets' = [tickets EXCEPT ![t] = k] /\ tickets \in [Tickets -> Lti!Ticket]
  BY <1>0 DEF Lti!IssueTicket, Lti!TypeOK
<1> HIDE DEF k
<1>5. /\ tickets' \in [Tickets -> Lti!Ticket] /\ tickets'[t].status = "open"
      /\ tickets'[t].user = e /\ tickets'[t].state = s
      /\ \A u \in Tickets \ {t} : tickets'[u] = tickets[u]
  BY <1>3, <1>4
<1>6. ~tangled => \A u \in Tickets : tickets[u].status # "none" => tickets[u].state # s
  BY <1>0, LtiIdle DEF Lti!PilotAlone
<1> HIDE DEF e, s
<1>7. Lti!TypeOK'
  BY <1>0, <1>2, <1>5 DEF Lti!TypeOK
<1>8. Lti!OneSessionPerLaunch'
  <2>1. ASSUME ~tangled, NEW u \in Tickets \ {t}, s # Nobody
        PROVE  tickets[u].state # s
    <3>1. CASE tickets[u].status = "none"
      BY <1>0, <2>1, <3>1 DEF Lti!TicketOK
    <3>2. CASE tickets[u].status # "none"
      BY <1>6, <2>1, <3>2
    <3> QED BY <3>1, <3>2
  <2>2. ASSUME ~tangled, NEW u \in Tickets, NEW o \in Tickets, u # o,
               tickets'[u].state # Nobody
        PROVE  tickets'[u].state # tickets'[o].state
    <3>1. CASE u = t
      BY <1>5, <2>1, <2>2, <3>1
    <3>2. CASE o = t /\ s # Nobody
      BY <1>5, <2>1, <2>2, <3>2
    <3>3. CASE o = t /\ s = Nobody
      BY <1>5, <2>2, <3>3
    <3>4. CASE u # t /\ o # t
      BY <1>0, <1>5, <2>2, <3>4 DEF Lti!OneSessionPerLaunch
    <3> QED BY <3>1, <3>2, <3>3, <3>4
  <2>3. \A u \in Tickets : signedIn'[u] <= 1
    BY <1>0 DEF Lti!OneSessionPerLaunch
  <2>4. tangled' = tangled
    BY <1>0
  <2> QED BY <2>2, <2>3, <2>4 DEF Lti!OneSessionPerLaunch
<1>9. Lti!OneAccountPerSubject' /\ Lti!Linked'
  BY <1>0 DEF Lti!OneAccountPerSubject, Lti!Linked
<1>10. Lti!TicketsAreGood'
  <2>1. ~tangled /\ launches[s].platform # Nobody =>
          launches[s].user = e /\ (launches[s].course => e \in onCourse)
    BY <1>0 DEF Lti!PilotAlone, e, s
  <2>2. ASSUME NEW u \in Tickets, tickets'[u].status # "none"
        PROVE  /\ accounts'[tickets'[u].user].status # "none"
               /\ ~tangled' /\ launches'[tickets'[u].state].platform # Nobody =>
                    /\ launches'[tickets'[u].state].status = "used"
                    /\ launches'[tickets'[u].state].user = tickets'[u].user
                    /\ launches'[tickets'[u].state].course => tickets'[u].user \in onCourse'
    <3>1. CASE u = t
      BY <1>0, <1>1, <1>5, <2>1, <3>1
    <3>2. CASE u # t
      BY <1>0, <1>5, <2>2, <3>2 DEF Lti!TicketsAreGood
    <3> QED BY <3>1, <3>2
  <2> QED BY <2>2 DEF Lti!TicketsAreGood
<1>11. ASSUME NEW u \in Tickets PROVE Lti!TicketOK(u)'
  <2>1. CASE u = t
    <3>1. signedIn[t] = 0
      BY <1>0 DEF Lti!TicketOK
    <3> QED BY <1>0, <1>1, <1>5, <2>1, <3>1 DEF Lti!TicketOK
  <2>2. CASE u # t
    BY <1>0, <1>5, <2>2 DEF Lti!TicketOK
  <2> QED BY <2>1, <2>2
<1>12. Lti!Alone'
  BY <1>0, <1>2 DEF Lti!Alone, Lti!At
<1>13. ASSUME NEW d \in Handlers PROVE Lti!PilotOK(d)' /\ Lti!PilotAlone(d)'
  <2>1. CASE d = c
    BY <1>2, <2>1, LtiIdle DEF Lti!PilotOK, Lti!PilotAlone
  <2>2. CASE d # c
    <3>1. ASSUME NEW o \in Handlers \ {d}, pilot[d].pc = "account", pilot'[o].pc = "account"
          PROVE  pilot'[o].ticket # pilot[d].ticket
      BY <1>0, <1>2, <2>2, <3>1 DEF Lti!PilotOK, Lti!At
    <3>2. \A u \in Tickets : tickets[u].status = "spent" => tickets'[u].status = "spent"
      BY <1>0, <1>5
    <3>3. Lti!PilotOK(d)'
      BY <1>0, <1>2, <2>2, <3>1, <3>2, LtiStands
    <3>4. tangled' \/ pilot'[d].pc = "idle"
      BY <1>0, <1>2, <2>2 DEF Lti!Alone, Lti!At
    <3> QED BY <3>3, <3>4, LtiIdle DEF Lti!PilotAlone
  <2> QED BY <2>1, <2>2
<1> QED BY <1>7, <1>8, <1>9, <1>10, <1>11, <1>12, <1>13 DEF Lti!LaunchInv

(* A session for whoever spent the ticket: its first, and its only one.    *)
LEMMA CheckAccountStep ==
  ASSUME Lti!LaunchInv, NEW c \in Handlers, Lti!CheckAccount(c)
  PROVE  Lti!LaunchInv'
<1>0. /\ Lti!TypeOK /\ Lti!OneAccountPerSubject /\ Lti!Linked /\ Lti!OneSessionPerLaunch
      /\ Lti!TicketsAreGood /\ Lti!Alone
      /\ \A u \in Tickets : Lti!TicketOK(u)
      /\ \A d \in Handlers : Lti!PilotOK(d) /\ Lti!PilotAlone(d)
      /\ pilot[c].pc = "account" /\ Lti!Return(c)
      /\ UNCHANGED <<platforms, launches, accounts, onCourse, tickets, tangled, turns, troubles>>
  BY LtiFacts DEF Lti!CheckAccount, Lti!At
<1> DEFINE t == pilot[c].ticket
<1>1. t \in Tickets /\ tickets[t].status = "spent" /\ signedIn[t] = 0
  BY <1>0 DEF Lti!PilotOK
<1>2. signedIn \in [Tickets -> Nat]
  BY <1>0 DEF Lti!TypeOK
<1>3. signedIn' = signedIn \/ signedIn' = [signedIn EXCEPT ![t] = signedIn[t] + 1]
  BY DEF Lti!CheckAccount
<1> HIDE DEF t
<1>4. /\ signedIn' \in [Tickets -> Nat] /\ signedIn'[t] <= 1
      /\ \A u \in Tickets \ {t} : signedIn'[u] = signedIn[u]
  BY <1>1, <1>2, <1>3
<1>5. /\ pilot' \in [Handlers -> Lti!Pilot] /\ pilot'[c].pc = "idle"
      /\ \A d \in Handlers \ {c} : pilot'[d] = pilot[d]
  BY <1>0, LtiReturns
<1>6. Lti!TypeOK'
  BY <1>0, <1>4, <1>5 DEF Lti!TypeOK
<1>7. Lti!OneSessionPerLaunch'
  <2>1. \A u \in Tickets : signedIn'[u] <= 1
    BY <1>0, <1>4 DEF Lti!OneSessionPerLaunch
  <2> QED BY <1>0, <2>1 DEF Lti!OneSessionPerLaunch
<1>8. Lti!OneAccountPerSubject' /\ Lti!Linked' /\ Lti!TicketsAreGood'
  BY <1>0 DEF Lti!OneAccountPerSubject, Lti!Linked, Lti!TicketsAreGood
<1>9. ASSUME NEW u \in Tickets PROVE Lti!TicketOK(u)'
  <2>1. tickets[u].status \in {"none", "open"} => u # t
    BY <1>1
  <2> QED BY <1>0, <1>4, <2>1 DEF Lti!TicketOK
<1>10. Lti!Alone'
  BY <1>0, <1>5 DEF Lti!Alone, Lti!At
<1>11. ASSUME NEW d \in Handlers PROVE Lti!PilotOK(d)' /\ Lti!PilotAlone(d)'
  <2>1. CASE d = c
    BY <1>5, <2>1, LtiIdle DEF Lti!PilotOK, Lti!PilotAlone
  <2>2. CASE d # c
    <3>1. ASSUME NEW o \in Handlers \ {d}, pilot[d].pc = "account", pilot'[o].pc = "account"
          PROVE  pilot'[o].ticket # pilot[d].ticket
      BY <1>0, <1>5, <2>2, <3>1 DEF Lti!PilotOK, Lti!At
    <3>2. pilot[d].pc = "account" => /\ pilot[d].ticket \in Tickets /\ pilot[d].ticket # t
      BY <1>0, <2>2 DEF Lti!PilotOK, Lti!At, t
    <3>3. Lti!PilotOK(d)'
      BY <1>0, <1>4, <1>5, <2>2, <3>1, <3>2, LtiStands
    <3>4. tangled' \/ pilot'[d].pc = "idle"
      BY <1>0, <1>5, <2>2 DEF Lti!Alone, Lti!At
    <3> QED BY <3>3, <3>4, LtiIdle DEF Lti!PilotAlone
  <2> QED BY <2>1, <2>2
<1> QED BY <1>6, <1>7, <1>8, <1>9, <1>10, <1>11 DEF Lti!LaunchInv

(* A call begins.                                                          *)
LEMMA CompleteLaunchStep ==
  ASSUME Lti!LaunchInv, NEW c \in Handlers, NEW s \in States, NEW subject \in Subjects,
         NEW email \in Users \union {Nobody}, NEW course \in BOOLEAN,
         Lti!CompleteLaunch(c, s, subject, email, course)
  PROVE  Lti!LaunchInv'
<1>0. /\ Lti!TypeOK /\ Lti!OneAccountPerSubject /\ Lti!Linked /\ Lti!OneSessionPerLaunch
      /\ Lti!TicketsAreGood /\ Lti!Alone
      /\ \A u \in Tickets : Lti!TicketOK(u)
      /\ \A d \in Handlers : Lti!PilotOK(d) /\ Lti!PilotAlone(d)
      /\ launches[s] \in Lti!LaunchRow /\ launches[s].status = "open"
      /\ UNCHANGED <<platforms, launches, accounts, onCourse, tickets, signedIn, troubles>>
  BY LtiFacts DEF Lti!CompleteLaunch
<1> DEFINE platform == launches[s].platform
           n(r) == [r EXCEPT !.pc = "verify", !.state = s, !.platform = platform,
                             !.subject = subject, !.email = email, !.course = course]
<1>1. platform \in Platforms \union {Nobody}
  BY <1>0 DEF Lti!LaunchRow
<1>2. ASSUME NEW r \in Lti!Pilot
      PROVE  /\ n(r) \in Lti!Pilot /\ n(r).pc = "verify" /\ n(r).state = s
             /\ n(r).subject = subject /\ n(r).relink = r.relink
  <2> HIDE DEF platform
  <2> QED BY <1>1 DEF Lti!Pilot, Lti!Step
<1>3. Lti!Begin(c, n(Lti!Idle))
  BY DEF Lti!CompleteLaunch
<1> HIDE DEF n
<1>4. /\ n(Lti!Idle) \in Lti!Pilot /\ n(Lti!Idle).pc = "verify" /\ n(Lti!Idle).state = s
      /\ n(Lti!Idle).subject = subject /\ ~n(Lti!Idle).relink
  BY <1>2, LtiIdle
<1>5. /\ pilot' \in [Handlers -> Lti!Pilot] /\ pilot[c].pc = "idle"
      /\ pilot'[c].pc = "verify" /\ pilot'[c].state = s
      /\ pilot'[c].subject = subject /\ ~pilot'[c].relink
      /\ \A d \in Handlers \ {c} : pilot'[d] = pilot[d]
      /\ turns' \in 0..MaxTurns /\ tangled' \in BOOLEAN
      /\ ~tangled' => ~tangled /\ \A d \in Handlers : pilot[d].pc = "idle"
  BY <1>0, <1>3, <1>4, LtiBegins
<1>6. Lti!TypeOK'
  BY <1>0, <1>5 DEF Lti!TypeOK
<1>7. Lti!OneSessionPerLaunch' /\ Lti!OneAccountPerSubject' /\ Lti!Linked'
  BY <1>0, <1>5 DEF Lti!OneSessionPerLaunch, Lti!OneAccountPerSubject, Lti!Linked
<1>8. Lti!TicketsAreGood' /\ \A u \in Tickets : Lti!TicketOK(u)'
  BY <1>0, <1>5 DEF Lti!TicketsAreGood, Lti!TicketOK
<1>9. Lti!Alone'
  BY <1>0, <1>5 DEF Lti!Alone, Lti!At
<1>10. Lti!PilotOK(c)'
  BY <1>0, <1>5, LtiIdle DEF Lti!PilotOK
<1>11. \A u \in Tickets : tickets[u].status # "none" => tickets[u].state # s
  BY <1>0 DEF Lti!TicketOK
<1>12. Lti!PilotAlone(c)'
  BY <1>0, <1>5, <1>11, LtiIdle DEF Lti!PilotAlone
<1>13. ASSUME NEW d \in Handlers \ {c} PROVE Lti!PilotOK(d)' /\ Lti!PilotAlone(d)'
  <2>1. ASSUME NEW o \in Handlers \ {d}, pilot[d].pc = "account", pilot'[o].pc = "account"
        PROVE  pilot'[o].ticket # pilot[d].ticket
    BY <1>0, <1>5, <2>1 DEF Lti!PilotOK, Lti!At
  <2>2. Lti!PilotOK(d)'
    BY <1>0, <1>5, <2>1, LtiStands
  <2>3. tangled' \/ pilot'[d].pc = "idle"
    BY <1>5
  <2> QED BY <2>2, <2>3, LtiIdle DEF Lti!PilotAlone
<1> QED BY <1>6, <1>7, <1>8, <1>9, <1>10, <1>12, <1>13 DEF Lti!LaunchInv

(* The ticket is spent before the call is, so no other call has it.        *)
LEMMA ExchangeTicketStep ==
  ASSUME Lti!LaunchInv, NEW c \in Handlers, NEW t \in Tickets, Lti!ExchangeTicket(c, t)
  PROVE  Lti!LaunchInv'
<1>0. /\ Lti!TypeOK /\ Lti!OneAccountPerSubject /\ Lti!Linked /\ Lti!OneSessionPerLaunch
      /\ Lti!TicketsAreGood /\ Lti!Alone
      /\ \A u \in Tickets : Lti!TicketOK(u)
      /\ \A d \in Handlers : Lti!PilotOK(d) /\ Lti!PilotAlone(d)
      /\ tickets[t].status = "open" /\ tickets \in [Tickets -> Lti!Ticket]
      /\ UNCHANGED <<platforms, launches, accounts, onCourse, signedIn, troubles>>
  BY LtiFacts DEF Lti!ExchangeTicket, Lti!TypeOK
<1> DEFINE n(r) == [r EXCEPT !.pc = "account", !.ticket = t]
           k(r) == [r EXCEPT !.status = "spent"]
<1>1. ASSUME NEW r \in Lti!Pilot
      PROVE  n(r) \in Lti!Pilot /\ n(r).pc = "account" /\ n(r).ticket = t
  BY DEF Lti!Pilot, Lti!Step
<1>2. ASSUME NEW r \in Lti!Ticket
      PROVE  /\ k(r) \in Lti!Ticket /\ k(r).status = "spent" /\ k(r).user = r.user
             /\ k(r).state = r.state
  BY DEF Lti!Ticket
<1>3. Lti!Begin(c, n(Lti!Idle)) /\ tickets' = [tickets EXCEPT ![t] = k(tickets[t])]
  BY DEF Lti!ExchangeTicket
<1> HIDE DEF n, k
<1>4. n(Lti!Idle) \in Lti!Pilot /\ n(Lti!Idle).pc = "account" /\ n(Lti!Idle).ticket = t
  BY <1>1, LtiIdle
<1>5. /\ pilot' \in [Handlers -> Lti!Pilot] /\ pilot[c].pc = "idle"
      /\ pilot'[c].pc = "account" /\ pilot'[c].ticket = t
      /\ \A d \in Handlers \ {c} : pilot'[d] = pilot[d]
      /\ turns' \in 0..MaxTurns /\ tangled' \in BOOLEAN
      /\ ~tangled' => ~tangled /\ \A d \in Handlers : pilot[d].pc = "idle"
  BY <1>0, <1>3, <1>4, LtiBegins
<1>6. /\ tickets' \in [Tickets -> Lti!Ticket] /\ tickets'[t].status = "spent"
      /\ tickets'[t].user = tickets[t].user /\ tickets'[t].state = tickets[t].state
      /\ \A u \in Tickets \ {t} : tickets'[u] = tickets[u]
  BY <1>0, <1>2, <1>3
<1>7. Lti!TypeOK'
  BY <1>0, <1>5, <1>6 DEF Lti!TypeOK
<1>8. Lti!OneAccountPerSubject' /\ Lti!Linked'
  BY <1>0, <1>5 DEF Lti!OneAccountPerSubject, Lti!Linked
<1>9. \A u \in Tickets : /\ tickets'[u].state = tickets[u].state
                         /\ tickets'[u].user = tickets[u].user
                         /\ tickets'[u].status = "none" <=> tickets[u].status = "none"
                         /\ tickets'[u].status = "open" => tickets[u].status = "open"
                         /\ tickets[u].status = "spent" => tickets'[u].status = "spent"
  BY <1>0, <1>6
<1>10. Lti!OneSessionPerLaunch'
  BY <1>0, <1>5, <1>9 DEF Lti!OneSessionPerLaunch
<1>11. Lti!TicketsAreGood'
  BY <1>0, <1>5, <1>9 DEF Lti!TicketsAreGood
<1>12. ASSUME NEW u \in Tickets PROVE Lti!TicketOK(u)'
  BY <1>0, <1>9 DEF Lti!TicketOK
<1>13. Lti!Alone'
  BY <1>0, <1>5 DEF Lti!Alone, Lti!At
<1>14. \A d \in Handlers : pilot[d].pc = "account" => pilot[d].ticket # t
  BY <1>0 DEF Lti!PilotOK
<1>15. Lti!PilotOK(c)' /\ Lti!PilotAlone(c)'
  <2>1. signedIn[t] = 0
    BY <1>0 DEF Lti!TicketOK
  <2> QED BY <1>0, <1>5, <1>6, <1>14, <2>1, LtiIdle DEF Lti!PilotOK, Lti!PilotAlone, Lti!At
<1>16. ASSUME NEW d \in Handlers \ {c} PROVE Lti!PilotOK(d)' /\ Lti!PilotAlone(d)'
  <2>1. ASSUME NEW o \in Handlers \ {d}, pilot[d].pc = "account", pilot'[o].pc = "account"
        PROVE  pilot'[o].ticket # pilot[d].ticket
    <3>1. CASE o = c
      BY <1>5, <1>14, <2>1, <3>1
    <3>2. CASE o # c
      BY <1>0, <1>5, <2>1, <3>2 DEF Lti!PilotOK, Lti!At
    <3> QED BY <3>1, <3>2
  <2>2. Lti!PilotOK(d)'
    BY <1>0, <1>5, <1>9, <2>1, LtiStands
  <2>3. tangled' \/ pilot'[d].pc = "idle"
    BY <1>5
  <2> QED BY <2>2, <2>3, LtiIdle DEF Lti!PilotAlone
<1> QED BY <1>7, <1>8, <1>10, <1>11, <1>12, <1>13, <1>15, <1>16 DEF Lti!LaunchInv

(* What goes on around the calls: used launches keep what they were told   *)
(* or lose their platform, tickets keep their person, accounts their link. *)
LEMMA LtiAround ==
  ASSUME Lti!LaunchInv, Lti!TypeOK', UNCHANGED <<onCourse, pilot, signedIn, tangled>>,
         \A s \in States :
           /\ launches[s].status = "used" =>
                /\ launches'[s].status = "used"
                /\ launches'[s].platform # Nobody => launches'[s] = launches[s]
           /\ launches[s].status # "none" => launches'[s].status # "none",
         \A e \in Users : /\ accounts'[e].status = "none" <=> accounts[e].status = "none"
                          /\ accounts'[e].subject = accounts[e].subject,
         \A u \in Tickets : /\ tickets'[u].state = tickets[u].state
                            /\ tickets'[u].user = tickets[u].user
                            /\ tickets'[u].status = "none" <=> tickets[u].status = "none"
                            /\ tickets'[u].status = "open" => tickets[u].status = "open"
                            /\ tickets[u].status = "spent" => tickets'[u].status = "spent"
  PROVE  Lti!LaunchInv'
<1>0. /\ Lti!OneSessionPerLaunch /\ Lti!TicketsAreGood /\ Lti!Alone
      /\ Lti!OneAccountPerSubject /\ Lti!Linked
      /\ \A u \in Tickets : Lti!TicketOK(u)
      /\ \A d \in Handlers : Lti!PilotOK(d) /\ Lti!PilotAlone(d)
  BY LtiFacts
<1>1. Lti!OneSessionPerLaunch' /\ Lti!Alone'
  BY <1>0 DEF Lti!OneSessionPerLaunch, Lti!Alone, Lti!At
<1>2. Lti!OneAccountPerSubject' /\ Lti!Linked'
  BY <1>0 DEF Lti!OneAccountPerSubject, Lti!Linked
<1>3. Lti!TicketsAreGood'
  <2> SUFFICES ASSUME NEW u \in Tickets, tickets[u].status # "none"
               PROVE  /\ accounts'[tickets[u].user].status # "none"
                      /\ ~tangled /\ launches'[tickets[u].state].platform # Nobody =>
                           /\ launches'[tickets[u].state].status = "used"
                           /\ launches'[tickets[u].state].user = tickets[u].user
                           /\ launches'[tickets[u].state].course => tickets[u].user \in onCourse
    BY DEF Lti!TicketsAreGood
  <2>1. /\ tickets[u].state \in States /\ tickets[u].user \in Users
        /\ launches[tickets[u].state].status = "used"
    BY <1>0 DEF Lti!TicketOK
  <2>2. /\ accounts[tickets[u].user].status # "none"
        /\ ~tangled /\ launches[tickets[u].state].platform # Nobody =>
             /\ launches[tickets[u].state].user = tickets[u].user
             /\ launches[tickets[u].state].course => tickets[u].user \in onCourse
    BY <1>0 DEF Lti!TicketsAreGood
  <2> QED BY <2>1, <2>2
<1>4. ASSUME NEW u \in Tickets PROVE Lti!TicketOK(u)'
  BY <1>0 DEF Lti!TicketOK
<1>5. ASSUME NEW d \in Handlers PROVE Lti!PilotOK(d)'
  <2>1. ASSUME NEW o \in Handlers \ {d}, pilot[d].pc = "account", pilot'[o].pc = "account"
        PROVE  pilot'[o].ticket # pilot[d].ticket
    BY <1>0, <2>1 DEF Lti!PilotOK, Lti!At
  <2> QED BY <1>0, <2>1, LtiStands
<1>6. ASSUME NEW d \in Handlers PROVE Lti!PilotAlone(d)'
  <2>1. pilot[d].pc \in {"enrol", "ticket"} =>
          pilot[d].state \in States /\ launches[pilot[d].state].status = "used"
    BY <1>0, LtiIdle DEF Lti!PilotOK
  <2>2. pilot[d].pc \in {"enrol", "ticket"} /\ launches'[pilot[d].state].platform # Nobody =>
          launches'[pilot[d].state] = launches[pilot[d].state]
    BY <2>1
  <2> QED BY <1>0, <2>2 DEF Lti!PilotAlone
<1> QED BY <1>1, <1>2, <1>3, <1>4, <1>5, <1>6 DEF Lti!LaunchInv

(* Registrations come and go, and launches with them; logins open launches.*)
LEMMA RegistrationStep ==
  ASSUME Lti!LaunchInv,
         \/ \E p \in Platforms, status \in {"active", "inactive"} :
              Lti!CreateRegistration(p, status) \/ Lti!UpdateRegistration(p, status)
         \/ \E p \in Platforms :
              Lti!DeleteRegistration(p) \/ \E s \in States : Lti!StartLoginInitiation(p, s)
         \/ \E s \in States : Lti!TenMinutes(s)
  PROVE  Lti!LaunchInv'
<1>0. /\ Lti!TypeOK /\ launches \in [States -> Lti!LaunchRow]
      /\ platforms \in [Platforms -> {"none", "active", "inactive", "deleted"}]
      /\ UNCHANGED <<accounts, onCourse, tickets, pilot, signedIn, tangled, turns, troubles>>
  BY LtiFacts DEF Lti!TypeOK, Lti!CreateRegistration, Lti!UpdateRegistration,
     Lti!DeleteRegistration, Lti!StartLoginInitiation, Lti!TenMinutes, Lti!history
<1>1. platforms' \in [Platforms -> {"none", "active", "inactive", "deleted"}]
  BY <1>0 DEF Lti!CreateRegistration, Lti!UpdateRegistration,
     Lti!DeleteRegistration, Lti!StartLoginInitiation, Lti!TenMinutes
<1>2. /\ launches' \in [States -> Lti!LaunchRow]
      /\ \A s \in States :
           /\ launches[s].status = "used" =>
                /\ launches'[s].status = "used"
                /\ launches'[s].platform # Nobody => launches'[s] = launches[s]
           /\ launches[s].status # "none" => launches'[s].status # "none"
  <2>0. Lti!NoLaunch \in Lti!LaunchRow /\ Lti!NoLaunch.platform = Nobody
    BY DEF Lti!NoLaunch, Lti!LaunchRow
  <2>1. CASE launches' = launches
    BY <1>0, <2>1
  <2>2. ASSUME NEW p \in Platforms, Lti!DeleteRegistration(p)
        PROVE  <1>2!1 /\ <1>2!2
    <3> DEFINE n(r) == [r EXCEPT !.status = "used"]
               gone == n(Lti!NoLaunch)
    <3>0. ASSUME NEW r \in Lti!LaunchRow
          PROVE  n(r) \in Lti!LaunchRow /\ n(r).status = "used" /\ n(r).platform = r.platform
      BY DEF Lti!LaunchRow
    <3>1. gone \in Lti!LaunchRow /\ gone.status = "used" /\ gone.platform = Nobody
      <4> HIDE DEF n
      <4> QED BY <2>0, <3>0
    <3>2. launches' = [s \in States |-> IF launches[s].platform = p THEN gone ELSE launches[s]]
      BY <2>2 DEF Lti!DeleteRegistration
    <3> HIDE DEF gone
    <3> QED BY <1>0, <3>1, <3>2
  <2>3. ASSUME NEW p \in Platforms, NEW s \in States, Lti!StartLoginInitiation(p, s)
        PROVE  <1>2!1 /\ <1>2!2
    <3> DEFINE new == [Lti!NoLaunch EXCEPT !.status = "open", !.platform = p]
    <3>1. new \in Lti!LaunchRow /\ new.status = "open"
      BY DEF Lti!LaunchRow, Lti!NoLaunch
    <3>2. launches' = [launches EXCEPT ![s] = new] /\ launches[s].status = "none"
      BY <2>3 DEF Lti!StartLoginInitiation
    <3> HIDE DEF new
    <3> QED BY <1>0, <3>1, <3>2
  <2>4. ASSUME NEW s \in States, Lti!TenMinutes(s)
        PROVE  <1>2!1 /\ <1>2!2
    <3> DEFINE n(r) == [r EXCEPT !.status = "late"]
    <3>1. ASSUME NEW r \in Lti!LaunchRow PROVE n(r) \in Lti!LaunchRow /\ n(r).status = "late"
      BY DEF Lti!LaunchRow
    <3>2. launches' = [launches EXCEPT ![s] = n(launches[s])] /\ launches[s].status = "open"
      BY <2>4 DEF Lti!TenMinutes
    <3> HIDE DEF n
    <3> QED BY <1>0, <3>1, <3>2
  <2>5. \/ launches' = launches
        \/ \E p \in Platforms :
             Lti!DeleteRegistration(p) \/ \E s \in States : Lti!StartLoginInitiation(p, s)
        \/ \E s \in States : Lti!TenMinutes(s)
    BY DEF Lti!CreateRegistration, Lti!UpdateRegistration
  <2> QED BY <2>1, <2>2, <2>3, <2>4, <2>5
<1>3. Lti!TypeOK'
  BY <1>0, <1>1, <1>2 DEF Lti!TypeOK
<1> QED BY <1>0, <1>2, <1>3, LtiAround

(* Tickets grow late, accounts are suspended, the process restarts.        *)
LEMMA LtiElse ==
  ASSUME Lti!LaunchInv,
         \/ \E t \in Tickets : Lti!OneMinute(t)
         \/ \E e \in Users : Lti!SuspendAccount(e)
         \/ UNCHANGED launchVars
  PROVE  Lti!LaunchInv'
<1>0. /\ Lti!TypeOK /\ tickets \in [Tickets -> Lti!Ticket] /\ accounts \in [Users -> Lti!Account]
      /\ UNCHANGED <<platforms, launches, onCourse, pilot, signedIn, tangled, turns, troubles>>
  BY LtiFacts DEF Lti!TypeOK, Lti!OneMinute, Lti!SuspendAccount, Lti!history, launchVars
<1>1. /\ tickets' \in [Tickets -> Lti!Ticket]
      /\ \A u \in Tickets : /\ tickets'[u].state = tickets[u].state
                            /\ tickets'[u].user = tickets[u].user
                            /\ tickets'[u].status = "none" <=> tickets[u].status = "none"
                            /\ tickets'[u].status = "open" => tickets[u].status = "open"
                            /\ tickets[u].status = "spent" => tickets'[u].status = "spent"
  <2>1. CASE tickets' = tickets
    BY <1>0, <2>1
  <2>2. ASSUME NEW t \in Tickets, Lti!OneMinute(t)
        PROVE  <1>1!1 /\ <1>1!2
    <3> DEFINE n(r) == [r EXCEPT !.status = "late"]
    <3>1. ASSUME NEW r \in Lti!Ticket
          PROVE  /\ n(r) \in Lti!Ticket /\ n(r).status = "late" /\ n(r).user = r.user
                 /\ n(r).state = r.state
      BY DEF Lti!Ticket
    <3>2. tickets' = [tickets EXCEPT ![t] = n(tickets[t])] /\ tickets[t].status = "open"
      BY <2>2 DEF Lti!OneMinute
    <3> HIDE DEF n
    <3> QED BY <1>0, <3>1, <3>2
  <2> QED BY <2>1, <2>2 DEF Lti!SuspendAccount, launchVars
<1>2. /\ accounts' \in [Users -> Lti!Account]
      /\ \A e \in Users : /\ accounts'[e].status = "none" <=> accounts[e].status = "none"
                          /\ accounts'[e].subject = accounts[e].subject
  <2>1. CASE accounts' = accounts
    BY <1>0, <2>1
  <2>2. ASSUME NEW e \in Users, Lti!SuspendAccount(e)
        PROVE  <1>2!1 /\ <1>2!2
    <3> DEFINE n(r) == [r EXCEPT !.status = "suspended"]
    <3>1. ASSUME NEW r \in Lti!Account
          PROVE  /\ n(r) \in Lti!Account /\ n(r).status = "suspended" /\ n(r).subject = r.subject
      BY DEF Lti!Account
    <3>2. accounts' = [accounts EXCEPT ![e] = n(accounts[e])] /\ accounts[e].status = "active"
      BY <2>2 DEF Lti!SuspendAccount
    <3> HIDE DEF n
    <3> QED BY <1>0, <3>1, <3>2
  <2> QED BY <2>1, <2>2 DEF Lti!OneMinute, launchVars
<1>3. Lti!TypeOK'
  BY <1>0, <1>1, <1>2 DEF Lti!TypeOK
<1> QED BY <1>0, <1>1, <1>2, <1>3, LtiAround

(* A restart forgets the calls and the tickets not yet exchanged.          *)
LEMMA LtiRestart ==
  ASSUME Lti!LaunchInv, Lti!Restart
  PROVE  Lti!LaunchInv'
<1>0. /\ Lti!TypeOK /\ Lti!OneAccountPerSubject /\ Lti!Linked /\ Lti!OneSessionPerLaunch
      /\ Lti!TicketsAreGood
      /\ \A u \in Tickets : Lti!TicketOK(u)
      /\ tickets \in [Tickets -> Lti!Ticket] /\ troubles \in 0..MaxTroubles
      /\ troubles < MaxTroubles /\ troubles' = troubles + 1
      /\ UNCHANGED <<platforms, launches, accounts, onCourse, signedIn, tangled, turns>>
  BY LtiFacts DEF Lti!TypeOK, Lti!Restart
<1>1. pilot' \in [Handlers -> Lti!Pilot] /\ \A c \in Handlers : pilot'[c].pc = "idle"
  BY LtiIdle DEF Lti!Restart
<1>2. troubles' \in 0..MaxTroubles
  BY <1>0
<1>3. /\ tickets' \in [Tickets -> Lti!Ticket]
      /\ \A u \in Tickets : /\ tickets'[u].state = tickets[u].state
                            /\ tickets'[u].user = tickets[u].user
                            /\ tickets'[u].status = "none" <=> tickets[u].status = "none"
                            /\ tickets'[u].status = "open" => tickets[u].status = "open"
  <2> DEFINE n(r) == [r EXCEPT !.status = "late"]
  <2>1. ASSUME NEW r \in Lti!Ticket
        PROVE  /\ n(r) \in Lti!Ticket /\ n(r).status = "late" /\ n(r).user = r.user
               /\ n(r).state = r.state
    BY DEF Lti!Ticket
  <2>2. tickets' = [u \in Tickets |-> IF tickets[u].status = "open" THEN n(tickets[u])
                                                                    ELSE tickets[u]]
    BY DEF Lti!Restart
  <2> HIDE DEF n
  <2> QED BY <1>0, <2>1, <2>2
<1>4. Lti!TypeOK'
  BY <1>0, <1>1, <1>2, <1>3 DEF Lti!TypeOK
<1>5. Lti!OneAccountPerSubject' /\ Lti!Linked'
  BY <1>0 DEF Lti!OneAccountPerSubject, Lti!Linked
<1>6. Lti!OneSessionPerLaunch'
  BY <1>0, <1>3 DEF Lti!OneSessionPerLaunch
<1>7. Lti!TicketsAreGood'
  BY <1>0, <1>3 DEF Lti!TicketsAreGood
<1>8. ASSUME NEW u \in Tickets PROVE Lti!TicketOK(u)'
  BY <1>0, <1>3 DEF Lti!TicketOK
<1>9. Lti!Alone' /\ \A c \in Handlers : Lti!PilotOK(c)' /\ Lti!PilotAlone(c)'
  BY <1>1, LtiIdle DEF Lti!Alone, Lti!PilotOK, Lti!PilotAlone, Lti!At
<1> QED BY <1>4, <1>5, <1>6, <1>7, <1>8, <1>9 DEF Lti!LaunchInv

LEMMA LtiStep == Lti!LaunchInv /\ (Lti!Next \/ UNCHANGED launchVars) => Lti!LaunchInv'
<1> SUFFICES ASSUME Lti!LaunchInv, Lti!Next \/ UNCHANGED launchVars
             PROVE  Lti!LaunchInv'
  OBVIOUS
<1>1. ASSUME Lti!LtiRequest PROVE Lti!LaunchInv'
  BY <1>1, RegistrationStep, CompleteLaunchStep, ExchangeTicketStep DEF Lti!LtiRequest
<1>2. ASSUME NEW c \in Handlers, Lti!PilotStep(c) PROVE Lti!LaunchInv'
  BY <1>2, VerifyTokenStep, MarkUsedStep, FindBySubjectStep, FindByEmailStep,
     InsertLearnerStep, LinkSubjectStep, RecordLaunchStep, EnrolLearnerStep, IssueTicketStep,
     CheckAccountStep
  DEF Lti!PilotStep
<1> QED BY <1>1, <1>2, RegistrationStep, LtiElse, LtiRestart DEF Lti!Next

(* However many launches and ticket exchanges are in flight: a ticket buys *)
(* one session, its holder has an account; and unless calls overlapped, a  *)
(* launch buys one ticket, a subject has one account, and who holds the    *)
(* ticket of a launch into the course is enrolled.                         *)
THEOREM LaunchesAreSound == IdentitySpec => []LaunchInv
<1>1. IdentityInit => Lti!LaunchInv
  BY LtiInit DEF IdentityInit
<1>2. Lti!LaunchInv /\ [IdentityNext]_everything => Lti!LaunchInv'
  BY LtiStep DEF IdentityNext, everything
<1>3. IdentitySpec => []Lti!LaunchInv
  BY <1>1, <1>2, PTL DEF IdentitySpec
<1> QED BY <1>3, PTL DEF LaunchInv

-----------------------------------------------------------------------------
(* Sessions: how calls move *)

LEMMA SesFacts ==
  ASSUME SignIn!SessionsInv
  PROVE  /\ SignIn!IInv /\ SignIn!OneSuccessor /\ SignIn!ResetEndsSessions /\ SignIn!Alone
         /\ SignIn!TypeOK /\ SignIn!RotatedAreDead /\ SignIn!SessionsAreVerified
         /\ \A v \in Handlers : SignIn!VisitOK(v) /\ SignIn!VisitAlone(v)
                                /\ visit[v] \in SignIn!Visit
         /\ (\E l \in 1..MaxResets : links[l] # "none") => person.exists
         /\ letter # "none" => person.exists
         /\ ~person.exists => person.password = 0
         /\ cookie <= Len(sessions)
         /\ person \in SignIn!Person /\ sessions \in Seq(SignIn!Session)
         /\ Len(sessions) \in Nat /\ DOMAIN sessions = 1..Len(sessions)
         /\ \A k \in 1..Len(sessions) : sessions[k] \in SignIn!Session
<1>1. /\ SignIn!IInv /\ SignIn!OneSuccessor /\ SignIn!ResetEndsSessions /\ SignIn!Alone
      /\ \A v \in Handlers : SignIn!VisitAlone(v)
  BY DEF SignIn!SessionsInv
<1>2. SignIn!TypeOK
  BY <1>1 DEF SignIn!IInv
<1>3. sessions \in Seq(SignIn!Session)
  BY <1>2 DEF SignIn!TypeOK
<1>4. /\ Len(sessions) \in Nat /\ DOMAIN sessions = 1..Len(sessions)
      /\ \A k \in 1..Len(sessions) : sessions[k] \in SignIn!Session
  BY <1>3
<1>5. person \in SignIn!Person /\ \A v \in Handlers : visit[v] \in SignIn!Visit
  BY <1>2 DEF SignIn!TypeOK
<1> QED BY <1>1, <1>2, <1>3, <1>4, <1>5 DEF SignIn!IInv

LEMMA SesIdle ==
  /\ SignIn!Idle \in SignIn!Visit /\ SignIn!Idle.pc = "idle" /\ SignIn!Idle.token = 0
  /\ SignIn!Idle.password = 0 /\ SignIn!Idle.tab = Nobody /\ SignIn!Idle.link = 0
<1>1. 0 \in 0..MaxSessions /\ 0 \in 0..(MaxResets + 1) /\ 0 \in 0..MaxResets
  OBVIOUS
<1> QED BY <1>1 DEF SignIn!Idle, SignIn!Visit, SignIn!Step, SignIn!Passwords

LEMMA SesReturns ==
  ASSUME SignIn!TypeOK, NEW v \in Handlers, SignIn!Return(v)
  PROVE  /\ visit' \in [Handlers -> SignIn!Visit] /\ visit'[v] = SignIn!Idle
         /\ visit'[v].pc = "idle" /\ visit'[v].token = 0
         /\ \A w \in Handlers \ {v} : visit'[w] = visit[w]
<1>1. visit \in [Handlers -> SignIn!Visit] /\ visit' = [visit EXCEPT ![v] = SignIn!Idle]
  BY DEF SignIn!TypeOK, SignIn!Return
<1> QED BY <1>1, SesIdle

LEMMA SesGoes ==
  ASSUME SignIn!TypeOK, NEW v \in Handlers, NEW s \in SignIn!Step, SignIn!Goto(v, s)
  PROVE  /\ visit' \in [Handlers -> SignIn!Visit] /\ visit'[v].pc = s
         /\ visit'[v].tab = visit[v].tab /\ visit'[v].token = visit[v].token
         /\ visit'[v].password = visit[v].password /\ visit'[v].link = visit[v].link
         /\ \A w \in Handlers \ {v} : visit'[w] = visit[w]
<1> DEFINE n(r) == [r EXCEPT !.pc = s]
<1>1. ASSUME NEW r \in SignIn!Visit
      PROVE  /\ n(r) \in SignIn!Visit /\ n(r).pc = s /\ n(r).tab = r.tab
             /\ n(r).token = r.token /\ n(r).password = r.password /\ n(r).link = r.link
  BY DEF SignIn!Visit
<1>2. visit \in [Handlers -> SignIn!Visit] /\ visit' = [visit EXCEPT ![v] = n(visit[v])]
  BY DEF SignIn!TypeOK, SignIn!Goto
<1> HIDE DEF n
<1>3. visit[v] \in SignIn!Visit /\ visit'[v] = n(visit[v])
  BY <1>2
<1> QED BY <1>1, <1>2, <1>3

(* ... and with a password that was read. *)
LEMMA SesReads ==
  ASSUME SignIn!TypeOK, NEW v \in Handlers, NEW s \in SignIn!Step, NEW x \in SignIn!Passwords,
         visit' = [visit EXCEPT ![v].pc = s, ![v].password = x]
  PROVE  /\ visit' \in [Handlers -> SignIn!Visit] /\ visit'[v].pc = s
         /\ visit'[v].tab = visit[v].tab /\ visit'[v].token = visit[v].token
         /\ visit'[v].password = x /\ visit'[v].link = visit[v].link
         /\ \A w \in Handlers \ {v} : visit'[w] = visit[w]
<1> DEFINE n(r) == [r EXCEPT !.pc = s, !.password = x]
<1>1. ASSUME NEW r \in SignIn!Visit
      PROVE  /\ n(r) \in SignIn!Visit /\ n(r).pc = s /\ n(r).tab = r.tab
             /\ n(r).token = r.token /\ n(r).password = x /\ n(r).link = r.link
  BY DEF SignIn!Visit
<1>2. visit \in [Handlers -> SignIn!Visit] /\ visit' = [visit EXCEPT ![v] = n(visit[v])]
  BY DEF SignIn!TypeOK
<1> HIDE DEF n
<1>3. visit[v] \in SignIn!Visit /\ visit'[v] = n(visit[v])
  BY <1>2
<1> QED BY <1>1, <1>2, <1>3

(* A call that begins is alone, or the overlap is seen.                    *)
LEMMA SesBegins ==
  ASSUME SignIn!TypeOK, NEW v \in Handlers, NEW c \in SignIn!Visit, SignIn!Begin(v, c)
  PROVE  /\ visit' \in [Handlers -> SignIn!Visit] /\ visit'[v] = c /\ visit[v].pc = "idle"
         /\ \A w \in Handlers \ {v} : visit'[w] = visit[w]
         /\ visits' \in 0..MaxVisits /\ mixed' \in BOOLEAN
         /\ ~mixed' => ~mixed /\ \A w \in Handlers : visit[w].pc = "idle"
<1>1. visit \in [Handlers -> SignIn!Visit] /\ visit' = [visit EXCEPT ![v] = c]
  BY DEF SignIn!TypeOK, SignIn!Begin
<1>2. visits' \in 0..MaxVisits
  BY DEF SignIn!TypeOK, SignIn!Begin
<1>3. /\ mixed' = (mixed \/ \E w \in Handlers \ {v} : ~SignIn!IsIdle(w))
      /\ mixed \in BOOLEAN /\ SignIn!IsIdle(v)
  BY DEF SignIn!TypeOK, SignIn!Begin
<1>4. mixed' \in BOOLEAN
  BY <1>3
<1> QED BY <1>1, <1>2, <1>3, <1>4 DEF SignIn!IsIdle

(* What calls rely on and no step takes away: no session comes back to     *)
(* life, the person stays, verified or deleted.                            *)
Dying ==
  /\ sessions' \in Seq(SignIn!Session) /\ Len(sessions') = Len(sessions)
  /\ \A k \in 1..Len(sessions) :
       /\ sessions'[k].from = sessions[k].from /\ sessions'[k].password = sessions[k].password
       /\ sessions'[k].state = "live" => sessions[k].state = "live"
Staying ==
  /\ person.exists => person'.exists
  /\ person.verified \/ person.status = "deleted" =>
       person'.verified \/ person'.status = "deleted"

LEMMA SesStands ==
  ASSUME NEW v \in Handlers, SignIn!VisitOK(v), visit'[v] = visit[v],
         Len(sessions) \in Nat, Len(sessions') \in Nat, Len(sessions) <= Len(sessions'),
         \A k \in 1..Len(sessions) : sessions'[k].state = "live" => sessions[k].state = "live",
         Staying
  PROVE  SignIn!VisitOK(v)'
<1> DEFINE c == visit[v]
<1>1. c.token \in 0..Len(sessions')
  BY DEF SignIn!VisitOK
<1>2. c.pc = "issue" /\ c.token # 0 => sessions'[c.token].state # "live"
  BY DEF SignIn!VisitOK
<1>3. /\ c.pc \in {"letter", "mail", "use", "verify", "link", "issue"} => person'.exists
      /\ c.pc = "issue" => person'.verified \/ person'.status = "deleted"
      /\ c.pc \in {"account", "set", "spend", "revokeAll"} => c.link # 0 /\ person'.exists
  BY DEF SignIn!VisitOK, Staying
<1>4. /\ c.pc \in {"token", "owner", "revoke", "end", "answer"} => c.token # 0
      /\ c.pc \in {"create", "link", "token", "owner", "revoke", "issue", "answer"} =>
           c.tab \in Tabs
      /\ c.pc = "create" => c.password = 0
      /\ c.pc = "link" => c.token = 0
  BY DEF SignIn!VisitOK
<1> QED BY <1>1, <1>2, <1>3, <1>4 DEF SignIn!VisitOK

LEMMA DyingKeeps ==
  ASSUME SignIn!SessionsInv, Dying, Staying
  PROVE  /\ SignIn!RotatedAreDead' /\ SignIn!SessionsAreVerified'
         /\ (mixed => mixed') => SignIn!OneSuccessor'
<1>0. /\ SignIn!RotatedAreDead /\ SignIn!SessionsAreVerified /\ SignIn!OneSuccessor
      /\ DOMAIN sessions = 1..Len(sessions) /\ Len(sessions) \in Nat
      /\ \A k \in 1..Len(sessions) : sessions[k] \in SignIn!Session
  BY SesFacts
<1>1. DOMAIN sessions' = 1..Len(sessions)
  BY DEF Dying
<1>2. SignIn!RotatedAreDead'
  <2> SUFFICES ASSUME NEW k \in 1..Len(sessions), sessions'[k].from # 0
               PROVE  /\ sessions'[k].from < k
                      /\ sessions'[sessions'[k].from].state # "live"
    BY <1>1 DEF SignIn!RotatedAreDead
  <2> DEFINE j == sessions[k].from
  <2>1. sessions'[k].from = j /\ j # 0 /\ j \in 0..MaxSessions
    BY <1>0 DEF Dying, SignIn!Session
  <2>2. j < k /\ sessions[j].state # "live"
    BY <1>0, <2>1 DEF SignIn!RotatedAreDead
  <2>3. j \in 1..Len(sessions)
    BY <1>0, <2>1, <2>2
  <2> HIDE DEF j
  <2> QED BY <2>1, <2>2, <2>3 DEF Dying
<1>3. SignIn!SessionsAreVerified'
  <2>1. sessions' # <<>> => sessions # <<>>
    BY <1>0 DEF Dying
  <2> QED BY <1>0, <2>1 DEF SignIn!SessionsAreVerified, Staying
<1>4. (mixed => mixed') => SignIn!OneSuccessor'
  BY <1>0, <1>1 DEF SignIn!OneSuccessor, Dying
<1> QED BY <1>2, <1>3, <1>4

(* A step of one call that adds no session.                                *)
LEMMA SesCall ==
  ASSUME SignIn!SessionsInv, NEW v \in Handlers, visit[v].pc # "idle", SignIn!TypeOK',
         mixed' = mixed, \A w \in Handlers \ {v} : visit'[w] = visit[w], Dying, Staying,
         cookie' <= Len(sessions),
         (\E l \in 1..MaxResets : links'[l] # "none") => person'.exists,
         letter' # "none" => person'.exists,
         ~person'.exists => person'.password = 0,
         SignIn!VisitOK(v)', SignIn!VisitAlone(v)',
         \/ SignIn!ResetEndsSessions'
         \/ /\ lost' = lost /\ person'.password = person.password
            /\ person'.status = person.status /\ visit[v].pc \notin {"spend", "revokeAll"}
  PROVE  SignIn!SessionsInv'
<1>0. /\ SignIn!Alone /\ SignIn!ResetEndsSessions
      /\ \A w \in Handlers : SignIn!VisitOK(w) /\ SignIn!VisitAlone(w)
      /\ DOMAIN sessions = 1..Len(sessions) /\ Len(sessions) \in Nat
  BY SesFacts
<1>1. DOMAIN sessions' = 1..Len(sessions) /\ Len(sessions') = Len(sessions)
  BY DEF Dying
<1>2. SignIn!RotatedAreDead' /\ SignIn!SessionsAreVerified' /\ SignIn!OneSuccessor'
  BY DyingKeeps
<1>3. ASSUME NEW w \in Handlers PROVE SignIn!VisitOK(w)' /\ SignIn!VisitAlone(w)'
  <2>1. CASE w = v
    BY <2>1
  <2>2. CASE w # v
    <3>1. \A k \in 1..Len(sessions) :
            sessions'[k].state = "live" => sessions[k].state = "live"
      BY DEF Dying
    <3>2. SignIn!VisitOK(w)'
      BY <1>0, <1>1, <2>2, <3>1, SesStands
    <3>3. mixed \/ visit'[w].pc = "idle"
      BY <1>0, <2>2 DEF SignIn!Alone, SignIn!IsIdle
    <3>4. SignIn!VisitAlone(w)'
      BY <3>3 DEF SignIn!VisitAlone
    <3> QED BY <3>2, <3>4
  <2> QED BY <2>1, <2>2
<1>4. SignIn!Alone'
  BY <1>0 DEF SignIn!Alone, SignIn!IsIdle
<1>5. SignIn!ResetEndsSessions'
  <2> SUFFICES ASSUME lost' = lost, person'.password = person.password,
                      person'.status = person.status,
                      visit[v].pc \notin {"spend", "revokeAll"},
                      ~mixed, lost = 0, person.status # "deleted",
                      \A w \in Handlers : visit'[w].pc \notin {"spend", "revokeAll"},
                      NEW k \in 1..Len(sessions), sessions'[k].state = "live"
               PROVE  sessions'[k].password = person'.password
    BY <1>1 DEF SignIn!ResetEndsSessions
  <2>1. \A w \in Handlers : visit[w].pc \notin {"spend", "revokeAll"}
    OBVIOUS
  <2>2. sessions[k].state = "live" /\ sessions'[k].password = sessions[k].password
    BY DEF Dying
  <2>3. sessions[k].password = person.password
    BY <1>0, <2>1, <2>2 DEF SignIn!ResetEndsSessions
  <2> QED BY <2>2, <2>3
<1>6. cookie' <= Len(sessions')
  BY <1>1
<1> QED BY <1>2, <1>3, <1>4, <1>5, <1>6 DEF SignIn!SessionsInv, SignIn!IInv

(* ... that changes no session and no row.                                 *)
LEMMA SesQuiet ==
  ASSUME SignIn!SessionsInv, NEW v \in Handlers, visit[v].pc \notin {"idle", "spend", "revokeAll"},
         visit' \in [Handlers -> SignIn!Visit],
         \A w \in Handlers \ {v} : visit'[w] = visit[w],
         UNCHANGED <<person, letter, links, sessions, cookie, access, mixed, visits, lost>>,
         SignIn!VisitOK(v)', SignIn!VisitAlone(v)'
  PROVE  SignIn!SessionsInv'
<1>0. /\ SignIn!TypeOK
      /\ (\E l \in 1..MaxResets : links[l] # "none") => person.exists
      /\ letter # "none" => person.exists
      /\ ~person.exists => person.password = 0
      /\ cookie <= Len(sessions)
      /\ sessions \in Seq(SignIn!Session)
  BY SesFacts
<1>1. SignIn!TypeOK'
  BY <1>0 DEF SignIn!TypeOK
<1>2. Dying /\ Staying
  BY <1>0 DEF Dying, Staying
<1> QED BY <1>0, <1>1, <1>2, SesCall

(* A call begins.                                                          *)
LEMMA SesBegin ==
  ASSUME SignIn!SessionsInv, NEW v \in Handlers, NEW c \in SignIn!Visit, SignIn!Begin(v, c),
         UNCHANGED <<person, letter, links, sessions, cookie, access, lost>>,
         c.token \in 0..Len(sessions),
         \/ c.pc \in {"user", "create"} /\ c.password = 0
         \/ c.pc \in {"use", "link"} /\ c.token = 0 /\ person.exists
         \/ /\ c.pc = "issue" /\ c.token = 0 /\ person.exists /\ person.verified
            /\ c.password = person.password
         \/ c.pc \in {"token", "end"} /\ c.token # 0
         \/ c.pc = "account" /\ c.link # 0 /\ person.exists,
         c.pc \in {"create", "link", "token", "issue"} => c.tab \in Tabs
  PROVE  SignIn!SessionsInv'
<1>0. /\ SignIn!TypeOK /\ SignIn!Alone /\ SignIn!ResetEndsSessions
      /\ SignIn!RotatedAreDead /\ SignIn!SessionsAreVerified /\ SignIn!OneSuccessor
      /\ \A w \in Handlers : SignIn!VisitOK(w)
      /\ (\E l \in 1..MaxResets : links[l] # "none") => person.exists
      /\ letter # "none" => person.exists
      /\ ~person.exists => person.password = 0
      /\ cookie <= Len(sessions)
      /\ sessions \in Seq(SignIn!Session) /\ Len(sessions) \in Nat
  BY SesFacts
<1>1. /\ visit' \in [Handlers -> SignIn!Visit] /\ visit'[v] = c /\ visit[v].pc = "idle"
      /\ \A w \in Handlers \ {v} : visit'[w] = visit[w]
      /\ visits' \in 0..MaxVisits /\ mixed' \in BOOLEAN
      /\ ~mixed' => ~mixed /\ \A w \in Handlers : visit[w].pc = "idle"
  BY <1>0, SesBegins
<1>2. SignIn!TypeOK'
  BY <1>0, <1>1 DEF SignIn!TypeOK
<1>3. Dying /\ Staying
  BY <1>0 DEF Dying, Staying
<1>4. SignIn!RotatedAreDead' /\ SignIn!SessionsAreVerified' /\ SignIn!OneSuccessor'
  BY <1>1, <1>3, DyingKeeps
<1>5. SignIn!VisitOK(v)'
  BY <1>1 DEF SignIn!VisitOK
<1>6. SignIn!VisitAlone(v)'
  BY <1>1 DEF SignIn!VisitAlone
<1>7. ASSUME NEW w \in Handlers \ {v} PROVE SignIn!VisitOK(w)' /\ SignIn!VisitAlone(w)'
  <2>1. SignIn!VisitOK(w)'
    BY <1>0, <1>1, <1>3, SesStands
  <2>2. mixed' \/ visit'[w].pc = "idle"
    BY <1>1
  <2> QED BY <2>1, <2>2 DEF SignIn!VisitAlone
<1>8. SignIn!Alone'
  BY <1>1 DEF SignIn!Alone, SignIn!IsIdle
<1>9. SignIn!ResetEndsSessions'
  <2>1. ~mixed' => ~mixed /\ \A w \in Handlers : visit[w].pc \notin {"spend", "revokeAll"}
    BY <1>1
  <2> QED BY <1>0, <2>1 DEF SignIn!ResetEndsSessions
<1> QED BY <1>0, <1>2, <1>4, <1>5, <1>6, <1>7, <1>8, <1>9 DEF SignIn!SessionsInv, SignIn!IInv

(* What goes on around the calls: tokens and links expire, the account is  *)
(* suspended, restored or anonymised.                                      *)
LEMMA SesAround ==
  ASSUME SignIn!SessionsInv, SignIn!TypeOK', UNCHANGED <<visit, mixed, visits, lost, cookie>>,
         Dying, Staying, person'.exists = person.exists,
         (\E l \in 1..MaxResets : links'[l] # "none") => person.exists,
         letter' # "none" => letter # "none",
         \/ /\ person'.password = person.password
            /\ person'.status = "deleted" <=> person.status = "deleted"
         \/ person'.status = "deleted" /\ person'.password = 0
  PROVE  SignIn!SessionsInv'
<1>0. /\ SignIn!Alone /\ SignIn!ResetEndsSessions
      /\ \A w \in Handlers : SignIn!VisitOK(w) /\ SignIn!VisitAlone(w)
      /\ letter # "none" => person.exists
      /\ ~person.exists => person.password = 0
      /\ cookie <= Len(sessions)
      /\ DOMAIN sessions = 1..Len(sessions) /\ Len(sessions) \in Nat
  BY SesFacts
<1>1. DOMAIN sessions' = 1..Len(sessions) /\ Len(sessions') = Len(sessions)
  BY DEF Dying
<1>2. SignIn!RotatedAreDead' /\ SignIn!SessionsAreVerified' /\ SignIn!OneSuccessor'
  BY DyingKeeps
<1>3. \A k \in 1..Len(sessions) :
        /\ sessions'[k].state = "live" => sessions[k].state = "live"
        /\ sessions'[k].from = sessions[k].from
        /\ sessions'[k].password = sessions[k].password
  BY DEF Dying
<1>4. ASSUME NEW w \in Handlers PROVE SignIn!VisitOK(w)'
  BY <1>0, <1>1, <1>3, SesStands
<1>5. ASSUME NEW w \in Handlers PROVE SignIn!VisitAlone(w)'
  BY <1>0, <1>1, <1>3 DEF SignIn!VisitAlone
<1>6. SignIn!Alone'
  BY <1>0 DEF SignIn!Alone, SignIn!IsIdle
<1>7. SignIn!ResetEndsSessions'
  BY <1>0, <1>1, <1>3 DEF SignIn!ResetEndsSessions
<1>8. /\ cookie' <= Len(sessions')
      /\ letter' # "none" => person'.exists
      /\ ~person'.exists => person'.password = 0
      /\ (\E l \in 1..MaxResets : links'[l] # "none") => person'.exists
  BY <1>0, <1>1
<1>9. SignIn!IInv'
  BY <1>2, <1>4, <1>8 DEF SignIn!IInv
<1> QED BY <1>2, <1>5, <1>6, <1>7, <1>9 DEF SignIn!SessionsInv

-----------------------------------------------------------------------------
(* Sessions: the steps *)

LEMMA SesInit == SignIn!Init => SignIn!SessionsInv
<1> SUFFICES ASSUME SignIn!Init PROVE SignIn!SessionsInv
  OBVIOUS
<1>1. /\ person = [exists |-> FALSE, verified |-> FALSE, sso |-> FALSE, password |-> 0,
                   status |-> "active"]
      /\ letter = "none" /\ sessions = <<>> /\ cookie = 0 /\ access = {} /\ mixed = FALSE
      /\ links = [l \in 1..MaxResets |-> "none"]
  BY DEF SignIn!Init
<1>2. visits = 0 /\ lost = 0
  BY DEF SignIn!Init
<1>3. visit \in [Handlers -> SignIn!Visit] /\ \A v \in Handlers : visit[v] = SignIn!Idle
  BY SesIdle DEF SignIn!Init
<1>4. person \in SignIn!Person
  BY <1>1 DEF SignIn!Person, SignIn!Passwords
<1>5. visits \in 0..MaxVisits /\ lost \in 0..MaxLost /\ cookie \in 0..MaxSessions
  BY <1>1, <1>2
<1>6. sessions \in Seq(SignIn!Session) /\ Len(sessions) = 0 /\ DOMAIN sessions = {}
  BY <1>1
<1>7. SignIn!TypeOK
  <2>1. Len(sessions) <= MaxSessions
    BY <1>6
  <2>2. letter \in {"none", "stored", "mailed", "used", "late"} /\ access \in SUBSET Tabs
        /\ links \in [1..MaxResets -> {"none", "open", "used", "late"}] /\ mixed \in BOOLEAN
    BY <1>1
  <2> QED BY <1>3, <1>4, <1>5, <1>6, <2>1, <2>2 DEF SignIn!TypeOK
<1>8. \A v \in Handlers : SignIn!VisitOK(v) /\ SignIn!VisitAlone(v)
  BY <1>3, <1>6, SesIdle DEF SignIn!VisitOK, SignIn!VisitAlone
<1>9. SignIn!RotatedAreDead /\ SignIn!SessionsAreVerified /\ SignIn!OneSuccessor
      /\ SignIn!ResetEndsSessions
  BY <1>1, <1>6 DEF SignIn!RotatedAreDead, SignIn!SessionsAreVerified, SignIn!OneSuccessor,
     SignIn!ResetEndsSessions
<1>10. SignIn!Alone
  BY <1>3, SesIdle DEF SignIn!Alone, SignIn!IsIdle
<1>11. /\ cookie <= Len(sessions) /\ letter = "none" /\ person.password = 0
       /\ \A l \in 1..MaxResets : links[l] = "none"
  BY <1>1, <1>6
<1>12. SignIn!IInv
  BY <1>7, <1>8, <1>9, <1>11 DEF SignIn!IInv
<1> QED BY <1>8, <1>9, <1>10, <1>12 DEF SignIn!SessionsInv

LEMMA AuthRequestStep ==
  ASSUME SignIn!SessionsInv, SignIn!AuthRequest
  PROVE  SignIn!SessionsInv'
<1>0. /\ person \in SignIn!Person /\ (letter # "none" => person.exists)
      /\ (\E l \in 1..MaxResets : links[l] # "none") => person.exists
      /\ cookie \in 0..MaxSessions /\ cookie <= Len(sessions) /\ Len(sessions) \in Nat
  BY SesFacts DEF SignIn!TypeOK
<1>1. ASSUME NEW v \in Handlers, NEW s \in {"user", "use"},
             SignIn!Begin(v, [SignIn!Idle EXCEPT !.pc = s]), s = "use" => person.exists,
             UNCHANGED <<person, letter, links, sessions, cookie, access, lost>>
      PROVE  SignIn!SessionsInv'
  <2> DEFINE n(r) == [r EXCEPT !.pc = s]
  <2>1. ASSUME NEW r \in SignIn!Visit
        PROVE  n(r) \in SignIn!Visit /\ n(r).pc = s /\ n(r).token = r.token
               /\ n(r).password = r.password
    BY DEF SignIn!Visit, SignIn!Step
  <2>2. SignIn!Begin(v, n(SignIn!Idle))
    BY <1>1
  <2> HIDE DEF n
  <2>3. /\ n(SignIn!Idle) \in SignIn!Visit /\ n(SignIn!Idle).pc = s
        /\ n(SignIn!Idle).token = 0 /\ n(SignIn!Idle).password = 0
    BY <2>1, SesIdle
  <2>4. n(SignIn!Idle).token \in 0..Len(sessions)
    BY <1>0, <2>3
  <2> QED BY <1>1, <2>2, <2>3, <2>4, SesBegin
<1>2. ASSUME NEW v \in Handlers, NEW t \in Tabs, NEW s \in {"link", "create"},
             SignIn!Begin(v, [SignIn!Idle EXCEPT !.pc = s, !.tab = t]),
             s = "link" => person.exists,
             UNCHANGED <<person, letter, links, sessions, cookie, access, lost>>
      PROVE  SignIn!SessionsInv'
  <2> DEFINE n(r) == [r EXCEPT !.pc = s, !.tab = t]
  <2>1. ASSUME NEW r \in SignIn!Visit
        PROVE  n(r) \in SignIn!Visit /\ n(r).pc = s /\ n(r).token = r.token
               /\ n(r).password = r.password /\ n(r).tab = t
    BY DEF SignIn!Visit, SignIn!Step
  <2>2. SignIn!Begin(v, n(SignIn!Idle))
    BY <1>2
  <2> HIDE DEF n
  <2>3. /\ n(SignIn!Idle) \in SignIn!Visit /\ n(SignIn!Idle).pc = s
        /\ n(SignIn!Idle).token = 0 /\ n(SignIn!Idle).password = 0
        /\ n(SignIn!Idle).tab = t
    BY <2>1, SesIdle
  <2>4. n(SignIn!Idle).token \in 0..Len(sessions)
    BY <1>0, <2>3
  <2> QED BY <1>2, <2>2, <2>3, <2>4, SesBegin
<1>3. ASSUME NEW v \in Handlers, NEW t \in Tabs, SignIn!Login(v, t)
      PROVE  SignIn!SessionsInv'
  <2> DEFINE x == person.password
             n(r) == [r EXCEPT !.pc = "issue", !.tab = t, !.password = x]
  <2>0. x \in SignIn!Passwords
    BY <1>0 DEF SignIn!Person
  <2>1. ASSUME NEW r \in SignIn!Visit
        PROVE  n(r) \in SignIn!Visit /\ n(r).pc = "issue" /\ n(r).token = r.token
               /\ n(r).password = x /\ n(r).tab = t
    <3> HIDE DEF x
    <3> QED BY <2>0 DEF SignIn!Visit, SignIn!Step
  <2>2. /\ SignIn!Begin(v, n(SignIn!Idle)) /\ person.exists /\ person.verified
        /\ UNCHANGED <<person, letter, links, sessions, cookie, access, lost>>
    BY <1>3 DEF SignIn!Login, SignIn!rows, SignIn!browser
  <2> HIDE DEF n
  <2>3. /\ n(SignIn!Idle) \in SignIn!Visit /\ n(SignIn!Idle).pc = "issue"
        /\ n(SignIn!Idle).token = 0 /\ n(SignIn!Idle).password = x /\ n(SignIn!Idle).tab = t
    BY <2>1, SesIdle
  <2>4. n(SignIn!Idle).token \in 0..Len(sessions)
    BY <1>0, <2>3
  <2> QED BY <2>2, <2>3, <2>4, SesBegin
<1>4. ASSUME NEW v \in Handlers, NEW t \in Tabs, NEW s \in {"token", "end"}, cookie # 0,
             SignIn!Begin(v, [SignIn!Idle EXCEPT !.pc = s, !.tab = t, !.token = cookie]),
             UNCHANGED <<person, letter, links, sessions, cookie, access, lost>>
      PROVE  SignIn!SessionsInv'
  <2> DEFINE n(r) == [r EXCEPT !.pc = s, !.tab = t, !.token = cookie]
  <2>1. ASSUME NEW r \in SignIn!Visit
        PROVE  n(r) \in SignIn!Visit /\ n(r).pc = s /\ n(r).token = cookie /\ n(r).tab = t
    BY <1>0 DEF SignIn!Visit, SignIn!Step
  <2>2. SignIn!Begin(v, n(SignIn!Idle))
    BY <1>4
  <2> HIDE DEF n
  <2>3. /\ n(SignIn!Idle) \in SignIn!Visit /\ n(SignIn!Idle).pc = s
        /\ n(SignIn!Idle).token = cookie /\ n(SignIn!Idle).tab = t
    BY <2>1, SesIdle
  <2>4. n(SignIn!Idle).token \in 0..Len(sessions)
    BY <1>0, <2>3
  <2> QED BY <1>4, <2>2, <2>3, <2>4, SesBegin
<1>5. ASSUME NEW v \in Handlers, NEW l \in 1..MaxResets, SignIn!ResetPasswordWithToken(v, l)
      PROVE  SignIn!SessionsInv'
  <2> DEFINE n(r) == [r EXCEPT !.pc = "account", !.link = l]
  <2>1. ASSUME NEW r \in SignIn!Visit
        PROVE  n(r) \in SignIn!Visit /\ n(r).pc = "account" /\ n(r).token = r.token
               /\ n(r).link = l
    <3>1. l \in 0..MaxResets
      OBVIOUS
    <3> QED BY <3>1 DEF SignIn!Visit, SignIn!Step
  <2>2. /\ SignIn!Begin(v, n(SignIn!Idle)) /\ person.exists
        /\ UNCHANGED <<person, letter, links, sessions, cookie, access, lost>>
    BY <1>0, <1>5 DEF SignIn!ResetPasswordWithToken, SignIn!rows, SignIn!browser
  <2> HIDE DEF n
  <2>3. /\ n(SignIn!Idle) \in SignIn!Visit /\ n(SignIn!Idle).pc = "account"
        /\ n(SignIn!Idle).token = 0 /\ n(SignIn!Idle).link = l
    BY <2>1, SesIdle
  <2>4. n(SignIn!Idle).token \in 0..Len(sessions) /\ l # 0
    BY <1>0, <2>3
  <2> QED BY <2>2, <2>3, <2>4, SesBegin
<1>6. ASSUME NEW v \in Handlers, SignIn!Register(v) \/ SignIn!VerifyEmail(v)
      PROVE  SignIn!SessionsInv'
  <2>1. CASE SignIn!Register(v)
    BY <1>1, <2>1 DEF SignIn!Register, SignIn!rows, SignIn!browser
  <2>2. CASE SignIn!VerifyEmail(v)
    BY <1>0, <1>1, <2>2 DEF SignIn!VerifyEmail, SignIn!rows, SignIn!browser
  <2> QED BY <1>6, <2>1, <2>2
<1>7. ASSUME NEW v \in Handlers, NEW t \in Tabs, SignIn!SsoCallback(v, t)
      PROVE  SignIn!SessionsInv'
  <2>1. /\ UNCHANGED <<person, letter, links, sessions, cookie, access, lost>>
        /\ SignIn!Begin(v, [SignIn!Idle EXCEPT
                              !.pc = IF person.exists THEN "link" ELSE "create", !.tab = t])
    BY <1>7 DEF SignIn!SsoCallback, SignIn!rows, SignIn!browser
  <2>2. CASE person.exists
    <3>1. SignIn!Begin(v, [SignIn!Idle EXCEPT !.pc = "link", !.tab = t])
      BY <2>1, <2>2
    <3> QED BY <1>2, <2>1, <2>2, <3>1
  <2>3. CASE ~person.exists
    <3>1. SignIn!Begin(v, [SignIn!Idle EXCEPT !.pc = "create", !.tab = t])
      BY <2>1, <2>3
    <3> QED BY <1>2, <2>1, <3>1
  <2> QED BY <2>2, <2>3
<1>8. ASSUME NEW v \in Handlers, NEW t \in Tabs, SignIn!TryRefresh(v, t) \/ SignIn!Logout(v, t)
      PROVE  SignIn!SessionsInv'
  <2>1. CASE SignIn!TryRefresh(v, t)
    BY <1>4, <2>1 DEF SignIn!TryRefresh, SignIn!rows, SignIn!browser
  <2>2. CASE SignIn!Logout(v, t)
    BY <1>4, <2>2 DEF SignIn!Logout, SignIn!rows, SignIn!browser
  <2> QED BY <1>8, <2>1, <2>2
<1> QED BY <1>3, <1>5, <1>6, <1>7, <1>8 DEF SignIn!AuthRequest

(* An idle call relies on nothing. *)
LEMMA SesRests ==
  ASSUME NEW v \in Handlers, visit'[v].pc = "idle", visit'[v].token = 0, Len(sessions') \in Nat
  PROVE  SignIn!VisitOK(v)' /\ SignIn!VisitAlone(v)'
BY DEF SignIn!VisitOK, SignIn!VisitAlone

(* The letter's steps: stored, mailed, used, and the address verified.     *)
LEMMA LetterStep ==
  ASSUME SignIn!SessionsInv, NEW v \in Handlers,
         \/ SignIn!InsertLetter(v) \/ SignIn!SendVerificationEmail(v)
         \/ SignIn!UseLetter(v) \/ SignIn!MarkVerified(v)
  PROVE  SignIn!SessionsInv'
<1>0. /\ SignIn!TypeOK /\ SignIn!VisitOK(v) /\ person \in SignIn!Person
      /\ (\E l \in 1..MaxResets : links[l] # "none") => person.exists
      /\ letter # "none" => person.exists
      /\ ~person.exists => person.password = 0
      /\ cookie <= Len(sessions)
      /\ sessions \in Seq(SignIn!Session) /\ Len(sessions) \in Nat
  BY SesFacts
<1>1. /\ visit[v].pc \in {"letter", "mail", "use", "verify"} /\ person.exists
      /\ UNCHANGED <<links, sessions, cookie, access, mixed, visits, lost>>
      /\ letter' \in {letter, "stored", "mailed", "used"}
      /\ person' \in {person, [person EXCEPT !.verified = TRUE]}
      /\ \/ SignIn!Return(v)
         \/ \E s \in {"mail", "verify"} : SignIn!Goto(v, s)
  BY <1>0 DEF SignIn!InsertLetter, SignIn!SendVerificationEmail, SignIn!UseLetter,
     SignIn!MarkVerified, SignIn!At, SignIn!browser, SignIn!VisitOK
<1> DEFINE n(r) == [r EXCEPT !.verified = TRUE]
<1>2. ASSUME NEW r \in SignIn!Person
      PROVE  /\ n(r) \in SignIn!Person /\ n(r).exists = r.exists /\ n(r).verified
             /\ n(r).password = r.password /\ n(r).status = r.status
  BY DEF SignIn!Person
<1>3. person' \in {person, n(person)}
  BY <1>1
<1> HIDE DEF n
<1>4. /\ person' \in SignIn!Person /\ person'.exists /\ person'.password = person.password
      /\ person'.status = person.status /\ (person.verified => person'.verified)
  BY <1>0, <1>1, <1>2, <1>3
<1>5. Dying /\ Staying
  BY <1>0, <1>1, <1>4 DEF Dying, Staying
<1>6. /\ visit' \in [Handlers -> SignIn!Visit]
      /\ \A w \in Handlers \ {v} : visit'[w] = visit[w]
      /\ SignIn!VisitOK(v)' /\ SignIn!VisitAlone(v)'
  <2>1. CASE SignIn!Return(v)
    BY <1>0, <1>1, <2>1, SesReturns, SesRests
  <2>2. ASSUME NEW s \in {"mail", "verify"}, SignIn!Goto(v, s)
        PROVE  <1>6!1 /\ <1>6!2 /\ <1>6!3
    <3>1. s \in SignIn!Step
      BY DEF SignIn!Step
    <3>2. /\ visit' \in [Handlers -> SignIn!Visit] /\ visit'[v].pc = s
          /\ visit'[v].token = visit[v].token
          /\ \A w \in Handlers \ {v} : visit'[w] = visit[w]
      BY <1>0, <2>2, <3>1, SesGoes
    <3>3. visit'[v].token \in 0..Len(sessions')
      BY <1>0, <1>1, <3>2 DEF SignIn!VisitOK
    <3> QED BY <1>4, <3>2, <3>3 DEF SignIn!VisitOK, SignIn!VisitAlone
  <2> QED BY <1>1, <2>1, <2>2
<1>7. letter' \in {"none", "stored", "mailed", "used", "late"}
  BY <1>0, <1>1 DEF SignIn!TypeOK
<1>8. SignIn!TypeOK'
  BY <1>0, <1>1, <1>4, <1>6, <1>7 DEF SignIn!TypeOK
<1> QED BY <1>0, <1>1, <1>4, <1>5, <1>6, <1>8, SesCall

(* A new account: nobody has a session yet.                                *)
LEMMA NewUserStep ==
  ASSUME SignIn!SessionsInv, NEW v \in Handlers,
         \/ SignIn!InsertUser(v) \/ SignIn!CreateSsoUser(v)
  PROVE  SignIn!SessionsInv'
<1>0. /\ SignIn!TypeOK /\ SignIn!VisitOK(v) /\ person \in SignIn!Person
      /\ (\E l \in 1..MaxResets : links[l] # "none") => person.exists
      /\ letter # "none" => person.exists
      /\ ~person.exists => person.password = 0
      /\ cookie <= Len(sessions) /\ SignIn!SessionsAreVerified
      /\ sessions \in Seq(SignIn!Session) /\ Len(sessions) \in Nat
      /\ DOMAIN sessions = 1..Len(sessions)
  BY SesFacts
<1>1. /\ visit[v].pc \in {"user", "create"}
      /\ UNCHANGED <<letter, links, sessions, cookie, access, mixed, visits, lost>>
  BY DEF SignIn!InsertUser, SignIn!CreateSsoUser, SignIn!At, SignIn!browser
<1>2. CASE UNCHANGED person /\ SignIn!Return(v)
  <2>1. visit' \in [Handlers -> SignIn!Visit] /\ \A w \in Handlers \ {v} : visit'[w] = visit[w]
    BY <1>0, <1>2, SesReturns
  <2>2. SignIn!VisitOK(v)' /\ SignIn!VisitAlone(v)'
    BY <1>0, <1>1, <1>2, SesReturns, SesRests
  <2> QED BY <1>1, <1>2, <2>1, <2>2, SesQuiet
<1>3. CASE /\ ~person.exists /\ visit[v].pc = "user" /\ SignIn!Goto(v, "letter")
           /\ person' = [person EXCEPT !.exists = TRUE, !.password = 1]
  <2> DEFINE n(r) == [r EXCEPT !.exists = TRUE, !.password = 1]
  <2>1. 1 \in SignIn!Passwords
    BY DEF SignIn!Passwords
  <2>2. ASSUME NEW r \in SignIn!Person
        PROVE  /\ n(r) \in SignIn!Person /\ n(r).exists /\ n(r).verified = r.verified
               /\ n(r).status = r.status
    BY <2>1 DEF SignIn!Person
  <2>3. person' = n(person)
    BY <1>3
  <2> HIDE DEF n
  <2>4. /\ person' \in SignIn!Person /\ person'.exists /\ person'.verified = person.verified
        /\ person'.status = person.status
    BY <1>0, <2>2, <2>3
  <2>5. /\ visit' \in [Handlers -> SignIn!Visit] /\ visit'[v].pc = "letter"
        /\ visit'[v].token = visit[v].token
        /\ \A w \in Handlers \ {v} : visit'[w] = visit[w]
    <3>1. "letter" \in SignIn!Step
      BY DEF SignIn!Step
    <3> QED BY <1>0, <1>3, <3>1, SesGoes
  <2>6. SignIn!TypeOK'
    BY <1>0, <1>1, <2>4, <2>5 DEF SignIn!TypeOK
  <2>7. Dying /\ Staying
    BY <1>0, <1>1, <2>4 DEF Dying, Staying
  <2>8. SignIn!VisitOK(v)' /\ SignIn!VisitAlone(v)'
    BY <1>0, <1>1, <2>4, <2>5 DEF SignIn!VisitOK, SignIn!VisitAlone
  <2>9. SignIn!ResetEndsSessions'
    <3>1. sessions = <<>>
      BY <1>0, <1>3 DEF SignIn!SessionsAreVerified
    <3>2. DOMAIN sessions' = {}
      BY <1>1, <3>1
    <3> QED BY <3>2 DEF SignIn!ResetEndsSessions
  <2> QED BY <1>0, <1>1, <2>4, <2>5, <2>6, <2>7, <2>8, <2>9, SesCall
<1>4. CASE /\ ~person.exists /\ visit[v].pc = "create" /\ SignIn!Goto(v, "issue")
           /\ person' = [person EXCEPT !.exists = TRUE, !.verified = TRUE, !.sso = TRUE]
  <2> DEFINE n(r) == [r EXCEPT !.exists = TRUE, !.verified = TRUE, !.sso = TRUE]
  <2>1. ASSUME NEW r \in SignIn!Person
        PROVE  /\ n(r) \in SignIn!Person /\ n(r).exists /\ n(r).verified
               /\ n(r).status = r.status /\ n(r).password = r.password
    BY DEF SignIn!Person
  <2>2. person' = n(person)
    BY <1>4
  <2> HIDE DEF n
  <2>3. /\ person' \in SignIn!Person /\ person'.exists /\ person'.verified
        /\ person'.status = person.status /\ person'.password = 0
        /\ person.password = 0
    BY <1>0, <1>4, <2>1, <2>2
  <2>4. /\ visit' \in [Handlers -> SignIn!Visit] /\ visit'[v].pc = "issue"
        /\ visit'[v].token = visit[v].token /\ visit'[v].tab = visit[v].tab
        /\ visit'[v].password = visit[v].password
        /\ \A w \in Handlers \ {v} : visit'[w] = visit[w]
    <3>1. "issue" \in SignIn!Step
      BY DEF SignIn!Step
    <3> QED BY <1>0, <1>4, <3>1, SesGoes
  <2>5. SignIn!TypeOK'
    BY <1>0, <1>1, <2>3, <2>4 DEF SignIn!TypeOK
  <2>6. Dying /\ Staying
    BY <1>0, <1>1, <2>3 DEF Dying, Staying
  <2>7. /\ visit[v].token = 0 /\ visit[v].password = 0 /\ visit[v].tab \in Tabs
    <3>1. sessions = <<>>
      BY <1>0, <1>4 DEF SignIn!SessionsAreVerified
    <3>2. Len(sessions) = 0
      BY <3>1
    <3>3. visit[v].token \in 0..Len(sessions)
      BY <1>0 DEF SignIn!VisitOK
    <3> QED BY <1>0, <1>4, <3>2, <3>3 DEF SignIn!VisitOK
  <2>8. SignIn!VisitOK(v)' /\ SignIn!VisitAlone(v)'
    BY <1>0, <1>1, <2>3, <2>4, <2>7 DEF SignIn!VisitOK, SignIn!VisitAlone
  <2> QED BY <1>0, <1>1, <2>3, <2>4, <2>5, <2>6, <2>8, SesCall
<1> QED BY <1>2, <1>3, <1>4 DEF SignIn!InsertUser, SignIn!CreateSsoUser, SignIn!At

(* The account a provider vouches for is linked, its password read.        *)
LEMMA LinkSsoUserStep ==
  ASSUME SignIn!SessionsInv, NEW v \in Handlers, SignIn!LinkSsoUser(v)
  PROVE  SignIn!SessionsInv'
<1>0. /\ SignIn!TypeOK /\ SignIn!VisitOK(v) /\ SignIn!VisitAlone(v) /\ person \in SignIn!Person
      /\ (\E l \in 1..MaxResets : links[l] # "none") => person.exists
      /\ letter # "none" => person.exists
      /\ cookie <= Len(sessions) /\ SignIn!SessionsAreVerified
      /\ sessions \in Seq(SignIn!Session) /\ Len(sessions) \in Nat
      /\ visit[v].pc = "link" /\ person.password \in SignIn!Passwords
      /\ UNCHANGED <<letter, links, sessions, cookie, access, mixed, visits, lost>>
      /\ visit' = [visit EXCEPT ![v].pc = "issue", ![v].password = person.password]
  BY SesFacts DEF SignIn!LinkSsoUser, SignIn!At, SignIn!browser, SignIn!Person
<1> DEFINE n(r) == [r EXCEPT !.sso = TRUE, !.verified = TRUE]
<1>1. ASSUME NEW r \in SignIn!Person
      PROVE  /\ n(r) \in SignIn!Person /\ n(r).exists = r.exists /\ n(r).verified
             /\ n(r).status = r.status /\ n(r).password = r.password
  BY DEF SignIn!Person
<1>2. person' = n(person)
  BY DEF SignIn!LinkSsoUser
<1> HIDE DEF n
<1>3. /\ person' \in SignIn!Person /\ person'.exists = person.exists /\ person'.verified
      /\ person'.status = person.status /\ person'.password = person.password
  BY <1>0, <1>1, <1>2
<1>4. /\ visit' \in [Handlers -> SignIn!Visit] /\ visit'[v].pc = "issue"
      /\ visit'[v].token = visit[v].token /\ visit'[v].tab = visit[v].tab
      /\ visit'[v].password = person.password
      /\ \A w \in Handlers \ {v} : visit'[w] = visit[w]
  <2>1. "issue" \in SignIn!Step
    BY DEF SignIn!Step
  <2> QED BY <1>0, <2>1, SesReads
<1>5. SignIn!TypeOK'
  BY <1>0, <1>3, <1>4 DEF SignIn!TypeOK
<1>6. Dying /\ Staying
  BY <1>0, <1>3 DEF Dying, Staying
<1>7. person.exists /\ visit[v].tab \in Tabs /\ visit[v].token = 0
  BY <1>0 DEF SignIn!VisitOK
<1>8. SignIn!VisitOK(v)' /\ SignIn!VisitAlone(v)'
  BY <1>0, <1>3, <1>4, <1>7 DEF SignIn!VisitOK, SignIn!VisitAlone
<1> QED BY <1>0, <1>3, <1>4, <1>5, <1>6, <1>7, <1>8, SesCall

(* The token is read, found live: then nothing came of it yet; its owner's *)
(* password is read, if the account is active.                             *)
LEMMA ReadTokenStep ==
  ASSUME SignIn!SessionsInv, NEW v \in Handlers, SignIn!ReadToken(v)
  PROVE  SignIn!SessionsInv'
<1>0. /\ SignIn!TypeOK /\ SignIn!VisitOK(v) /\ SignIn!RotatedAreDead
      /\ Len(sessions) \in Nat /\ DOMAIN sessions = 1..Len(sessions)
      /\ visit[v].pc = "token"
      /\ UNCHANGED <<person, letter, links, sessions, cookie, access, mixed, visits, lost>>
      /\ \/ sessions[visit[v].token].state = "live" /\ SignIn!Goto(v, "owner")
         \/ SignIn!Return(v)
  BY SesFacts DEF SignIn!ReadToken, SignIn!At, SignIn!rows, SignIn!browser
<1>1. CASE SignIn!Return(v)
  <2>1. visit' \in [Handlers -> SignIn!Visit] /\ \A w \in Handlers \ {v} : visit'[w] = visit[w]
    BY <1>0, <1>1, SesReturns
  <2>2. SignIn!VisitOK(v)' /\ SignIn!VisitAlone(v)'
    BY <1>0, <1>1, SesReturns, SesRests
  <2> QED BY <1>0, <2>1, <2>2, SesQuiet
<1>2. CASE sessions[visit[v].token].state = "live" /\ SignIn!Goto(v, "owner")
  <2>1. /\ visit' \in [Handlers -> SignIn!Visit] /\ visit'[v].pc = "owner"
        /\ visit'[v].token = visit[v].token /\ visit'[v].tab = visit[v].tab
        /\ \A w \in Handlers \ {v} : visit'[w] = visit[w]
    <3>1. "owner" \in SignIn!Step
      BY DEF SignIn!Step
    <3> QED BY <1>0, <1>2, <3>1, SesGoes
  <2>2. SignIn!VisitOK(v)'
    BY <1>0, <2>1 DEF SignIn!VisitOK
  <2>3. ASSUME NEW k \in 1..Len(sessions) PROVE sessions[k].from # visit[v].token
    <3>1. visit[v].token # 0
      BY <1>0 DEF SignIn!VisitOK
    <3> QED BY <1>0, <1>2, <3>1 DEF SignIn!RotatedAreDead
  <2>4. SignIn!VisitAlone(v)'
    BY <1>0, <2>1, <2>3 DEF SignIn!VisitAlone
  <2> QED BY <1>0, <2>1, <2>2, <2>4, SesQuiet
<1> QED BY <1>0, <1>1, <1>2

LEMMA ReadOwnerStep ==
  ASSUME SignIn!SessionsInv, NEW v \in Handlers, SignIn!ReadOwner(v) \/ SignIn!ReadAccount(v)
  PROVE  SignIn!SessionsInv'
<1>0. /\ SignIn!TypeOK /\ SignIn!VisitOK(v) /\ SignIn!VisitAlone(v)
      /\ Len(sessions) \in Nat /\ person.password \in SignIn!Passwords
      /\ visit[v].pc \in {"owner", "account"}
      /\ UNCHANGED <<person, letter, links, sessions, cookie, access, mixed, visits, lost>>
      /\ \/ /\ visit[v].pc = "owner"
            /\ visit' = [visit EXCEPT ![v].pc = "revoke", ![v].password = person.password]
         \/ visit[v].pc = "account" /\ SignIn!Goto(v, "set")
         \/ SignIn!Return(v)
  BY SesFacts DEF SignIn!ReadOwner, SignIn!ReadAccount, SignIn!At, SignIn!rows,
     SignIn!browser, SignIn!Person
<1>1. CASE SignIn!Return(v)
  <2>1. visit' \in [Handlers -> SignIn!Visit] /\ \A w \in Handlers \ {v} : visit'[w] = visit[w]
    BY <1>0, <1>1, SesReturns
  <2>2. SignIn!VisitOK(v)' /\ SignIn!VisitAlone(v)'
    BY <1>0, <1>1, SesReturns, SesRests
  <2> QED BY <1>0, <2>1, <2>2, SesQuiet
<1>2. CASE /\ visit[v].pc = "owner"
           /\ visit' = [visit EXCEPT ![v].pc = "revoke", ![v].password = person.password]
  <2>1. /\ visit' \in [Handlers -> SignIn!Visit] /\ visit'[v].pc = "revoke"
        /\ visit'[v].token = visit[v].token /\ visit'[v].tab = visit[v].tab
        /\ visit'[v].password = person.password
        /\ \A w \in Handlers \ {v} : visit'[w] = visit[w]
    <3>1. "revoke" \in SignIn!Step
      BY DEF SignIn!Step
    <3> QED BY <1>0, <1>2, <3>1, SesReads
  <2>2. SignIn!VisitOK(v)' /\ SignIn!VisitAlone(v)'
    BY <1>0, <1>2, <2>1 DEF SignIn!VisitOK, SignIn!VisitAlone
  <2> QED BY <1>0, <2>1, <2>2, SesQuiet
<1>3. CASE visit[v].pc = "account" /\ SignIn!Goto(v, "set")
  <2>1. /\ visit' \in [Handlers -> SignIn!Visit] /\ visit'[v].pc = "set"
        /\ visit'[v].token = visit[v].token /\ visit'[v].link = visit[v].link
        /\ \A w \in Handlers \ {v} : visit'[w] = visit[w]
    <3>1. "set" \in SignIn!Step
      BY DEF SignIn!Step
    <3> QED BY <1>0, <1>3, <3>1, SesGoes
  <2>2. SignIn!VisitOK(v)' /\ SignIn!VisitAlone(v)'
    BY <1>0, <1>3, <2>1 DEF SignIn!VisitOK, SignIn!VisitAlone
  <2> QED BY <1>0, <2>1, <2>2, SesQuiet
<1> QED BY <1>0, <1>1, <1>2, <1>3

(* What the browser is told: the new cookie, or none.                      *)
LEMMA AnswerStep ==
  ASSUME SignIn!SessionsInv, NEW v \in Handlers, SignIn!SendSession(v) \/ SignIn!ClearCookie(v)
  PROVE  SignIn!SessionsInv'
<1>0. /\ SignIn!TypeOK /\ SignIn!VisitOK(v) /\ visit[v] \in SignIn!Visit
      /\ (\E l \in 1..MaxResets : links[l] # "none") => person.exists
      /\ letter # "none" => person.exists
      /\ ~person.exists => person.password = 0
      /\ cookie <= Len(sessions)
      /\ sessions \in Seq(SignIn!Session) /\ Len(sessions) \in Nat
  BY SesFacts
<1>1. /\ visit[v].pc \in {"answer", "clear"} /\ SignIn!Return(v)
      /\ UNCHANGED <<person, letter, links, sessions, mixed, visits, lost>>
      /\ \/ cookie' = visit[v].token /\ access' = access \union {visit[v].tab}
            /\ visit[v].pc = "answer"
         \/ cookie' = 0 /\ access' = access \ {visit[v].tab}
  BY DEF SignIn!SendSession, SignIn!ClearCookie, SignIn!At, SignIn!rows
<1>2. visit[v].token \in 0..Len(sessions) /\ (visit[v].pc = "answer" => visit[v].tab \in Tabs)
  BY <1>0 DEF SignIn!VisitOK
<1>3. visit[v].token \in 0..MaxSessions
  BY <1>0 DEF SignIn!Visit
<1>4. cookie' \in 0..MaxSessions /\ cookie' <= Len(sessions)
  BY <1>0, <1>1, <1>2, <1>3
<1>5. access' \in SUBSET Tabs
  <2>1. access \in SUBSET Tabs
    BY <1>0 DEF SignIn!TypeOK
  <2> QED BY <1>1, <1>2, <2>1
<1>6. visit' \in [Handlers -> SignIn!Visit] /\ \A w \in Handlers \ {v} : visit'[w] = visit[w]
  BY <1>0, <1>1, SesReturns
<1>7. SignIn!VisitOK(v)' /\ SignIn!VisitAlone(v)'
  BY <1>0, <1>1, SesReturns, SesRests
<1>8. SignIn!TypeOK'
  BY <1>0, <1>1, <1>4, <1>5, <1>6 DEF SignIn!TypeOK
<1>9. Dying /\ Staying
  BY <1>0, <1>1 DEF Dying, Staying
<1> QED BY <1>0, <1>1, <1>4, <1>6, <1>7, <1>8, <1>9, SesCall

(* A token is revoked, by a refresh or a logout.                           *)
LEMMA RevokeStep ==
  ASSUME SignIn!SessionsInv, NEW v \in Handlers, SignIn!RevokeToken(v) \/ SignIn!EndSession(v)
  PROVE  SignIn!SessionsInv'
<1>0. /\ SignIn!TypeOK /\ SignIn!VisitOK(v) /\ SignIn!VisitAlone(v)
      /\ (\E l \in 1..MaxResets : links[l] # "none") => person.exists
      /\ letter # "none" => person.exists
      /\ ~person.exists => person.password = 0
      /\ cookie <= Len(sessions) /\ SignIn!SessionsAreVerified
      /\ sessions \in Seq(SignIn!Session) /\ Len(sessions) \in Nat
      /\ DOMAIN sessions = 1..Len(sessions)
      /\ \A k \in 1..Len(sessions) : sessions[k] \in SignIn!Session
  BY SesFacts
<1> DEFINE j == visit[v].token
           n(r) == [r EXCEPT !.state = "revoked"]
<1>1. /\ visit[v].pc \in {"revoke", "end"}
      /\ UNCHANGED <<person, letter, links, cookie, access, mixed, visits, lost>>
      /\ sessions' = [sessions EXCEPT ![j] = n(sessions[j])]
  BY DEF SignIn!RevokeToken, SignIn!EndSession, SignIn!At, SignIn!browser
<1>2. PICK s \in {"issue", "clear"} :
        SignIn!Goto(v, s) /\ (s = "issue" => visit[v].pc = "revoke")
  BY DEF SignIn!RevokeToken, SignIn!EndSession, SignIn!At
<1>3. j \in 1..Len(sessions)
  BY <1>0, <1>1 DEF SignIn!VisitOK
<1>4. ASSUME NEW r \in SignIn!Session
      PROVE  /\ n(r) \in SignIn!Session /\ n(r).state = "revoked" /\ n(r).from = r.from
             /\ n(r).password = r.password
  BY DEF SignIn!Session
<1>5. /\ visit' \in [Handlers -> SignIn!Visit] /\ visit'[v].pc = s
      /\ visit'[v].token = visit[v].token /\ visit'[v].tab = visit[v].tab
      /\ visit'[v].password = visit[v].password
      /\ \A w \in Handlers \ {v} : visit'[w] = visit[w]
  <2>1. s \in SignIn!Step
    BY DEF SignIn!Step
  <2> QED BY <1>0, <1>2, <2>1, SesGoes
<1> HIDE DEF n, j
<1>6. /\ sessions' \in Seq(SignIn!Session) /\ Len(sessions') = Len(sessions)
      /\ \A k \in 1..Len(sessions) :
           sessions'[k] = IF k = j THEN n(sessions[j]) ELSE sessions[k]
  BY <1>0, <1>1, <1>3, <1>4, ExceptSeq
<1>7. Dying /\ Staying
  BY <1>0, <1>1, <1>4, <1>6 DEF Dying, Staying
<1>8. SignIn!TypeOK'
  BY <1>0, <1>1, <1>5, <1>6 DEF SignIn!TypeOK
<1>9. sessions'[j].state # "live"
  BY <1>0, <1>3, <1>4, <1>6
<1>10. sessions # <<>>
  BY <1>0, <1>3
<1>11. SignIn!VisitOK(v)'
  BY <1>0, <1>1, <1>2, <1>3, <1>5, <1>6, <1>9, <1>10
  DEF SignIn!VisitOK, SignIn!SessionsAreVerified, j
<1>12. ASSUME ~mixed', s = "issue"
       PROVE  /\ \A k \in DOMAIN sessions' : sessions'[k].from # j
              /\ person.status # "deleted" => visit[v].password = person.password
  <2>1. /\ \A k \in 1..Len(sessions) : sessions[k].from # j
        /\ person.status # "deleted" => visit[v].password = person.password
    BY <1>0, <1>1, <1>2, <1>3, <1>12 DEF SignIn!VisitAlone, j
  <2>2. DOMAIN sessions' = 1..Len(sessions)
    BY <1>6
  <2> QED BY <2>1, <2>2, <1>7 DEF Dying
<1>13. SignIn!VisitAlone(v)'
  BY <1>1, <1>5, <1>12 DEF SignIn!VisitAlone, j
<1> QED BY <1>0, <1>1, <1>5, <1>7, <1>8, <1>11, <1>13, SesCall

(* A reset sets the password and spends the link ...                       *)
LEMMA ResetStep ==
  ASSUME SignIn!SessionsInv, NEW v \in Handlers, SignIn!SetPassword(v) \/ SignIn!SpendLink(v)
  PROVE  SignIn!SessionsInv'
<1>0. /\ SignIn!TypeOK /\ SignIn!VisitOK(v) /\ SignIn!VisitAlone(v) /\ person \in SignIn!Person
      /\ visit[v] \in SignIn!Visit
      /\ (\E l \in 1..MaxResets : links[l] # "none") => person.exists
      /\ letter # "none" => person.exists
      /\ cookie <= Len(sessions)
      /\ sessions \in Seq(SignIn!Session) /\ Len(sessions) \in Nat
  BY SesFacts
<1> DEFINE x == visit[v].link + 1
           n(r) == [r EXCEPT !.password = x]
<1>1. /\ visit[v].pc \in {"set", "spend"}
      /\ UNCHANGED <<letter, sessions, cookie, access, mixed, visits, lost>>
      /\ \/ person' = n(person) /\ UNCHANGED links /\ SignIn!Goto(v, "spend")
         \/ /\ UNCHANGED person /\ SignIn!Goto(v, "revokeAll")
            /\ links' = [links EXCEPT ![visit[v].link] = "used"]
  BY DEF SignIn!SetPassword, SignIn!SpendLink, SignIn!At, SignIn!browser
<1>2. visit[v].link # 0 /\ person.exists /\ visit[v].link \in 0..MaxResets
  BY <1>0, <1>1 DEF SignIn!VisitOK, SignIn!Visit
<1>3. x \in SignIn!Passwords
  BY <1>2 DEF SignIn!Passwords
<1>4. ASSUME NEW r \in SignIn!Person
      PROVE  /\ n(r) \in SignIn!Person /\ n(r).exists = r.exists
             /\ n(r).verified = r.verified /\ n(r).status = r.status
  <2> HIDE DEF x
  <2> QED BY <1>3 DEF SignIn!Person
<1> HIDE DEF n
<1>5. /\ person' \in SignIn!Person /\ person'.exists /\ person'.verified = person.verified
      /\ person'.status = person.status
  BY <1>0, <1>1, <1>2, <1>4
<1>6. links' \in [1..MaxResets -> {"none", "open", "used", "late"}]
  <2>1. links \in [1..MaxResets -> {"none", "open", "used", "late"}]
    BY <1>0 DEF SignIn!TypeOK
  <2> QED BY <1>1, <2>1
<1>7. PICK s \in {"spend", "revokeAll"} : SignIn!Goto(v, s)
  BY <1>1
<1>8. /\ visit' \in [Handlers -> SignIn!Visit] /\ visit'[v].pc = s
      /\ visit'[v].token = visit[v].token /\ visit'[v].link = visit[v].link
      /\ \A w \in Handlers \ {v} : visit'[w] = visit[w]
  <2>1. s \in SignIn!Step
    BY DEF SignIn!Step
  <2> QED BY <1>0, <1>7, <2>1, SesGoes
<1>9. SignIn!TypeOK'
  BY <1>0, <1>1, <1>5, <1>6, <1>8 DEF SignIn!TypeOK
<1>10. Dying /\ Staying
  BY <1>0, <1>1, <1>5 DEF Dying, Staying
<1>11. SignIn!VisitOK(v)' /\ SignIn!VisitAlone(v)'
  BY <1>0, <1>1, <1>2, <1>5, <1>8 DEF SignIn!VisitOK, SignIn!VisitAlone
<1>12. SignIn!ResetEndsSessions'
  BY <1>8 DEF SignIn!ResetEndsSessions
<1> QED BY <1>0, <1>1, <1>5, <1>8, <1>9, <1>10, <1>11, <1>12, SesCall

(* ... and ends every session there is.                                    *)
LEMMA RevokeSessionsStep ==
  ASSUME SignIn!SessionsInv, NEW v \in Handlers, SignIn!RevokeSessions(v)
  PROVE  SignIn!SessionsInv'
<1>0. /\ SignIn!TypeOK /\ SignIn!VisitOK(v)
      /\ (\E l \in 1..MaxResets : links[l] # "none") => person.exists
      /\ letter # "none" => person.exists
      /\ ~person.exists => person.password = 0
      /\ cookie <= Len(sessions)
      /\ sessions \in Seq(SignIn!Session) /\ Len(sessions) \in Nat
      /\ DOMAIN sessions = 1..Len(sessions)
      /\ \A k \in 1..Len(sessions) : sessions[k] \in SignIn!Session
  BY SesFacts
<1> DEFINE n(r) == [r EXCEPT !.state = "revoked"]
<1>1. /\ visit[v].pc = "revokeAll" /\ SignIn!Return(v)
      /\ UNCHANGED <<person, letter, links, cookie, access, mixed, visits, lost>>
      /\ sessions' = [k \in DOMAIN sessions |-> n(sessions[k])]
  BY DEF SignIn!RevokeSessions, SignIn!At, SignIn!browser
<1>2. ASSUME NEW r \in SignIn!Session
      PROVE  /\ n(r) \in SignIn!Session /\ n(r).state = "revoked" /\ n(r).from = r.from
             /\ n(r).password = r.password
  BY DEF SignIn!Session
<1> HIDE DEF n
<1>3. sessions' \in [1..Len(sessions) -> SignIn!Session]
  BY <1>0, <1>1, <1>2
<1>4. sessions' \in Seq(SignIn!Session)
  BY <1>0, <1>3, SeqDef
<1>5. Len(sessions') = Len(sessions) /\ DOMAIN sessions' = 1..Len(sessions)
  BY <1>0, <1>3, <1>4, LenProperties
<1>6. \A k \in 1..Len(sessions) : /\ sessions'[k].state = "revoked"
                                  /\ sessions'[k].from = sessions[k].from
                                  /\ sessions'[k].password = sessions[k].password
  BY <1>0, <1>1, <1>2
<1>7. Dying /\ Staying
  BY <1>1, <1>4, <1>5, <1>6 DEF Dying, Staying
<1>8. visit' \in [Handlers -> SignIn!Visit] /\ \A w \in Handlers \ {v} : visit'[w] = visit[w]
  BY <1>0, <1>1, SesReturns
<1>9. SignIn!VisitOK(v)' /\ SignIn!VisitAlone(v)'
  BY <1>0, <1>1, <1>5, SesReturns, SesRests
<1>10. SignIn!TypeOK'
  BY <1>0, <1>1, <1>4, <1>5, <1>8 DEF SignIn!TypeOK
<1>11. SignIn!ResetEndsSessions'
  BY <1>5, <1>6 DEF SignIn!ResetEndsSessions
<1> QED BY <1>0, <1>1, <1>7, <1>8, <1>9, <1>10, <1>11, SesCall

(* A call is cut short: nobody says what came of a reset then.             *)
LEMMA DropStep ==
  ASSUME SignIn!SessionsInv, NEW v \in Handlers, SignIn!Drop(v)
  PROVE  SignIn!SessionsInv'
<1>0. /\ SignIn!TypeOK /\ SignIn!VisitOK(v) /\ lost \in 0..MaxLost
      /\ (\E l \in 1..MaxResets : links[l] # "none") => person.exists
      /\ letter # "none" => person.exists
      /\ ~person.exists => person.password = 0
      /\ cookie <= Len(sessions)
      /\ sessions \in Seq(SignIn!Session) /\ Len(sessions) \in Nat
  BY SesFacts DEF SignIn!TypeOK
<1>1. /\ visit[v].pc # "idle" /\ SignIn!Return(v)
      /\ UNCHANGED <<person, letter, links, sessions, cookie, access, mixed, visits>>
      /\ lost < MaxLost /\ lost' = lost + 1
  BY DEF SignIn!Drop, SignIn!IsIdle, SignIn!Lose, SignIn!rows, SignIn!browser
<1>2. lost' \in 0..MaxLost /\ lost' # 0
  BY <1>0, <1>1
<1>3. visit' \in [Handlers -> SignIn!Visit] /\ \A w \in Handlers \ {v} : visit'[w] = visit[w]
  BY <1>0, <1>1, SesReturns
<1>4. SignIn!VisitOK(v)' /\ SignIn!VisitAlone(v)'
  BY <1>0, <1>1, SesReturns, SesRests
<1>5. SignIn!TypeOK'
  BY <1>0, <1>1, <1>2, <1>3 DEF SignIn!TypeOK
<1>6. Dying /\ Staying
  BY <1>0, <1>1 DEF Dying, Staying
<1>7. SignIn!ResetEndsSessions'
  BY <1>2 DEF SignIn!ResetEndsSessions
<1> QED BY <1>0, <1>1, <1>3, <1>4, <1>5, <1>6, <1>7, SesCall

(* A session is issued: if the call is alone, with the password that is    *)
(* the account's, and as the first rotated from its token.                 *)
LEMMA IssueStep ==
  ASSUME SignIn!SessionsInv, NEW v \in Handlers, SignIn!IssueSession(v)
  PROVE  SignIn!SessionsInv'
<1>0. /\ SignIn!TypeOK /\ SignIn!Alone /\ SignIn!ResetEndsSessions
      /\ SignIn!RotatedAreDead /\ SignIn!SessionsAreVerified /\ SignIn!OneSuccessor
      /\ \A w \in Handlers : SignIn!VisitOK(w) /\ SignIn!VisitAlone(w)
      /\ visit[v] \in SignIn!Visit /\ visit \in [Handlers -> SignIn!Visit]
      /\ (\E l \in 1..MaxResets : links[l] # "none") => person.exists
      /\ letter # "none" => person.exists
      /\ ~person.exists => person.password = 0
      /\ cookie <= Len(sessions)
      /\ sessions \in Seq(SignIn!Session) /\ Len(sessions) \in Nat
      /\ DOMAIN sessions = 1..Len(sessions)
      /\ \A k \in 1..Len(sessions) : sessions[k] \in SignIn!Session
  BY SesFacts DEF SignIn!TypeOK
<1> DEFINE j == visit[v].token
           x == visit[v].password
           new == [state |-> "live", from |-> j, password |-> x]
           N == Len(sessions) + 1
           n(r) == [r EXCEPT !.pc = "answer", !.token = N]
<1>1. /\ visit[v].pc = "issue" /\ Len(sessions) < MaxSessions
      /\ sessions' = Append(sessions, new) /\ visit' = [visit EXCEPT ![v] = n(visit[v])]
      /\ UNCHANGED <<person, letter, links, cookie, access, mixed, visits, lost>>
  BY <1>0 DEF SignIn!IssueSession, SignIn!At, SignIn!browser
<1>2. /\ j \in 0..Len(sessions) /\ x \in SignIn!Passwords /\ j \in 0..MaxSessions
      /\ j # 0 => sessions[j].state # "live"
      /\ person.exists /\ (person.verified \/ person.status = "deleted") /\ visit[v].tab \in Tabs
  BY <1>0, <1>1 DEF SignIn!VisitOK, SignIn!Visit
<1>3. new \in SignIn!Session /\ new.state = "live" /\ new.from = j /\ new.password = x
  <2> HIDE DEF j, x
  <2> QED BY <1>2 DEF SignIn!Session
<1>4. N \in 0..MaxSessions /\ N # 0
  BY <1>0, <1>1
<1>5. ASSUME NEW r \in SignIn!Visit
      PROVE  n(r) \in SignIn!Visit /\ n(r).pc = "answer" /\ n(r).token = N /\ n(r).tab = r.tab
  <2> HIDE DEF N
  <2> QED BY <1>4 DEF SignIn!Visit, SignIn!Step
<1> HIDE DEF n, new
<1>6. /\ visit' \in [Handlers -> SignIn!Visit] /\ visit'[v].pc = "answer"
      /\ visit'[v].token = N /\ visit'[v].tab = visit[v].tab
      /\ \A w \in Handlers \ {v} : visit'[w] = visit[w]
  <2>1. visit'[v] = n(visit[v])
    BY <1>0, <1>1
  <2> QED BY <1>0, <1>1, <1>5, <2>1
<1>7. /\ sessions' \in Seq(SignIn!Session) /\ Len(sessions') = N /\ sessions'[N] = new
      /\ \A k \in 1..Len(sessions) : sessions'[k] = sessions[k]
      /\ DOMAIN sessions' = 1..N
  BY <1>0, <1>1, <1>3
<1> HIDE DEF j, x
<1>8. SignIn!TypeOK'
  BY <1>0, <1>1, <1>4, <1>6, <1>7 DEF SignIn!TypeOK
<1>9. \A k \in DOMAIN sessions' : k = N \/ k \in 1..Len(sessions)
  BY <1>0, <1>7
<1>10. SignIn!RotatedAreDead'
  <2> SUFFICES ASSUME NEW k \in DOMAIN sessions', sessions'[k].from # 0
               PROVE  sessions'[k].from < k /\ sessions'[sessions'[k].from].state # "live"
    BY DEF SignIn!RotatedAreDead
  <2>1. CASE k = N
    <3>1. sessions'[k].from = j /\ j # 0
      BY <1>3, <1>7, <2>1
    <3>2. j \in 1..Len(sessions)
      BY <1>2, <3>1
    <3> QED BY <1>0, <1>2, <1>7, <2>1, <3>1, <3>2
  <2>2. CASE k \in 1..Len(sessions)
    <3>1. sessions'[k] = sessions[k] /\ sessions[k].from \in 0..MaxSessions
      BY <1>0, <1>7, <2>2 DEF SignIn!Session
    <3>2. sessions[k].from < k /\ sessions[sessions[k].from].state # "live"
      BY <1>0, <2>2, <3>1 DEF SignIn!RotatedAreDead
    <3>3. sessions[k].from \in 1..Len(sessions)
      BY <1>0, <2>2, <3>1, <3>2
    <3> QED BY <1>7, <3>1, <3>2, <3>3
  <2> QED BY <1>9, <2>1, <2>2
<1>11. SignIn!SessionsAreVerified'
  BY <1>1, <1>2 DEF SignIn!SessionsAreVerified
<1>12. ASSUME ~mixed
       PROVE  /\ j # 0 => \A k \in 1..Len(sessions) : sessions[k].from # j
              /\ person.status # "deleted" => x = person.password
              /\ \A w \in Handlers \ {v} : visit[w].pc = "idle"
  BY <1>0, <1>1, <1>12 DEF SignIn!VisitAlone, SignIn!Alone, SignIn!IsIdle, j, x
<1>13. SignIn!OneSuccessor'
  <2> SUFFICES ASSUME ~mixed, NEW i \in DOMAIN sessions', NEW k \in DOMAIN sessions',
                      sessions'[i].from # 0, sessions'[i].from = sessions'[k].from
               PROVE  i = k
    BY <1>1 DEF SignIn!OneSuccessor
  <2>1. CASE i = N /\ k \in 1..Len(sessions)
    BY <1>3, <1>7, <1>12, <2>1
  <2>2. CASE k = N /\ i \in 1..Len(sessions)
    BY <1>3, <1>7, <1>12, <2>2
  <2>3. CASE i \in 1..Len(sessions) /\ k \in 1..Len(sessions)
    BY <1>0, <1>7, <2>3 DEF SignIn!OneSuccessor
  <2> QED BY <1>9, <2>1, <2>2, <2>3
<1>14. SignIn!ResetEndsSessions'
  <2> SUFFICES ASSUME ~mixed, lost = 0, person.status # "deleted",
                      \A w \in Handlers : visit'[w].pc \notin {"spend", "revokeAll"},
                      NEW k \in DOMAIN sessions', sessions'[k].state = "live"
               PROVE  sessions'[k].password = person.password
    BY <1>1 DEF SignIn!ResetEndsSessions
  <2>1. CASE k = N
    BY <1>3, <1>7, <1>12, <2>1
  <2>2. CASE k \in 1..Len(sessions)
    <3>1. \A w \in Handlers : visit[w].pc \notin {"spend", "revokeAll"}
      BY <1>1, <1>6
    <3> QED BY <1>0, <1>7, <2>2, <3>1 DEF SignIn!ResetEndsSessions
  <2> QED BY <1>9, <2>1, <2>2
<1>15. SignIn!Alone'
  BY <1>0, <1>1, <1>6 DEF SignIn!Alone, SignIn!IsIdle
<1>16. SignIn!VisitOK(v)' /\ SignIn!VisitAlone(v)'
  <2>1. N \in 0..N
    BY <1>0
  <2> QED BY <1>2, <1>4, <1>6, <1>7, <2>1 DEF SignIn!VisitOK, SignIn!VisitAlone
<1>17. ASSUME NEW w \in Handlers \ {v} PROVE SignIn!VisitOK(w)' /\ SignIn!VisitAlone(w)'
  <2>1. Staying
    BY <1>1 DEF Staying
  <2>2. Len(sessions') \in Nat /\ Len(sessions) <= Len(sessions')
    BY <1>0, <1>7
  <2>3. SignIn!VisitOK(w)'
    BY <1>0, <1>6, <1>7, <2>1, <2>2, SesStands
  <2>4. mixed' \/ visit'[w].pc = "idle"
    BY <1>1, <1>6, <1>12
  <2> QED BY <2>3, <2>4 DEF SignIn!VisitAlone
<1>18. cookie' <= Len(sessions')
  <2>1. cookie \in Nat
    BY <1>0 DEF SignIn!TypeOK
  <2> QED BY <1>0, <1>1, <1>7, <2>1
<1>19. SignIn!IInv'
  BY <1>0, <1>1, <1>8, <1>10, <1>11, <1>16, <1>17, <1>18 DEF SignIn!IInv
<1> QED BY <1>13, <1>14, <1>15, <1>16, <1>17, <1>19 DEF SignIn!SessionsInv

(* Around the calls: the account's status and the expiry of what is on     *)
(* file change under them.                                                 *)
LEMMA AccountTurns ==
  ASSUME SignIn!SessionsInv, SignIn!SuspendOrRestore \/ SignIn!Anonymise
  PROVE  SignIn!SessionsInv'
<1>0. /\ SignIn!TypeOK /\ person \in SignIn!Person
      /\ (\E l \in 1..MaxResets : links[l] # "none") => person.exists
      /\ sessions \in Seq(SignIn!Session)
  BY SesFacts
<1>1. /\ person.status # "deleted"
      /\ UNCHANGED <<letter, links, sessions, cookie, access, visit, mixed, visits, lost>>
  BY DEF SignIn!SuspendOrRestore, SignIn!Anonymise, SignIn!browser
<1>2. /\ person' \in SignIn!Person /\ person'.exists = person.exists
      /\ \/ /\ person'.password = person.password /\ person'.status # "deleted"
            /\ person'.verified = person.verified
         \/ person'.status = "deleted" /\ person'.password = 0
  <2>1. CASE SignIn!SuspendOrRestore
    <3> DEFINE s == IF person.status = "active" THEN "suspended" ELSE "active"
               n(r) == [r EXCEPT !.status = s]
    <3>1. person' = n(person) /\ s \in {"active", "suspended"}
      BY <2>1 DEF SignIn!SuspendOrRestore
    <3> HIDE DEF s
    <3> QED BY <1>0, <3>1 DEF SignIn!Person
  <2>2. CASE SignIn!Anonymise
    <3>1. person' = [person EXCEPT !.status = "deleted", !.password = 0, !.verified = FALSE,
                                   !.sso = FALSE]
      BY <2>2 DEF SignIn!Anonymise
    <3>2. 0 \in SignIn!Passwords
      BY DEF SignIn!Passwords
    <3> QED BY <1>0, <3>1, <3>2 DEF SignIn!Person
  <2> QED BY <2>1, <2>2
<1>3. SignIn!TypeOK'
  BY <1>0, <1>1, <1>2 DEF SignIn!TypeOK
<1>4. Dying /\ Staying
  BY <1>0, <1>1, <1>2 DEF Dying, Staying
<1> QED BY <1>0, <1>1, <1>2, <1>3, <1>4, SesAround

LEMMA SurroundingsStep ==
  ASSUME SignIn!SessionsInv, SignIn!Surroundings \/ UNCHANGED sessionVars
  PROVE  SignIn!SessionsInv'
<1>0. /\ SignIn!TypeOK /\ person \in SignIn!Person
      /\ (\E l \in 1..MaxResets : links[l] # "none") => person.exists
      /\ letter # "none" => person.exists
      /\ links \in [1..MaxResets -> {"none", "open", "used", "late"}]
      /\ letter \in {"none", "stored", "mailed", "used", "late"} /\ access \in SUBSET Tabs
      /\ sessions \in Seq(SignIn!Session) /\ Len(sessions) \in Nat
      /\ DOMAIN sessions = 1..Len(sessions)
      /\ \A k \in 1..Len(sessions) : sessions[k] \in SignIn!Session
  BY SesFacts DEF SignIn!TypeOK
<1>1. ASSUME UNCHANGED <<person, cookie, visit, mixed, visits, lost>>,
             letter' \in {"none", "stored", "mailed", "used", "late"},
             letter' # "none" => letter # "none",
             links' \in [1..MaxResets -> {"none", "open", "used", "late"}],
             (\E l \in 1..MaxResets : links'[l] # "none") => person.exists,
             access' \in SUBSET Tabs, Dying
      PROVE  SignIn!SessionsInv'
  <2>1. SignIn!TypeOK'
    BY <1>0, <1>1 DEF SignIn!TypeOK, Dying
  <2>2. Staying
    BY <1>1 DEF Staying
  <2> QED BY <1>1, <2>1, <2>2, SesAround
<1>2. UNCHANGED sessions => Dying
  BY <1>0 DEF Dying
<1>3. ASSUME SignIn!LetterExpires PROVE SignIn!SessionsInv'
  BY <1>0, <1>1, <1>2, <1>3 DEF SignIn!LetterExpires, SignIn!browser
<1>4. ASSUME NEW t \in Tabs, SignIn!AccessExpires(t) PROVE SignIn!SessionsInv'
  BY <1>0, <1>1, <1>2, <1>4 DEF SignIn!AccessExpires, SignIn!rows
<1>5. ASSUME NEW l \in 1..MaxResets, SignIn!ForcePasswordReset(l) \/ SignIn!LinkExpires(l)
      PROVE  SignIn!SessionsInv'
  <2>1. PICK s \in {"open", "late"} :
          /\ links' = [links EXCEPT ![l] = s] /\ person.exists
          /\ UNCHANGED <<person, letter, sessions, cookie, access, visit, mixed, visits, lost>>
    BY <1>0, <1>5 DEF SignIn!ForcePasswordReset, SignIn!LinkExpires, SignIn!browser
  <2> QED BY <1>0, <1>1, <1>2, <2>1
<1>6. ASSUME NEW k \in DOMAIN sessions, SignIn!RefreshTokenExpires(k)
      PROVE  SignIn!SessionsInv'
  <2> DEFINE n(r) == [r EXCEPT !.state = "expired"]
  <2>1. /\ sessions' = [sessions EXCEPT ![k] = n(sessions[k])]
        /\ UNCHANGED <<person, letter, links, cookie, access, visit, mixed, visits, lost>>
    BY <1>6 DEF SignIn!RefreshTokenExpires, SignIn!browser
  <2>2. ASSUME NEW r \in SignIn!Session
        PROVE  /\ n(r) \in SignIn!Session /\ n(r).state = "expired" /\ n(r).from = r.from
               /\ n(r).password = r.password
    BY DEF SignIn!Session
  <2> HIDE DEF n
  <2>3. k \in 1..Len(sessions) /\ n(sessions[k]) \in SignIn!Session
    BY <1>0, <2>2
  <2>4. sessions' \in Seq(SignIn!Session) /\ Len(sessions') = Len(sessions)
    BY <1>0, <2>1, <2>3, ExceptSeq
  <2>5. \A i \in 1..Len(sessions) :
          sessions'[i] = IF i = k THEN n(sessions[i]) ELSE sessions[i]
    BY <1>0, <2>1, <2>3
  <2>6. Dying
    BY <1>0, <2>2, <2>4, <2>5 DEF Dying
  <2> QED BY <1>0, <1>1, <2>1, <2>6
<1>7. ASSUME UNCHANGED sessionVars PROVE SignIn!SessionsInv'
  BY <1>0, <1>1, <1>2, <1>7 DEF sessionVars
<1> QED BY <1>3, <1>4, <1>5, <1>6, <1>7, AccountTurns DEF SignIn!Surroundings

LEMMA SesStep ==
  SignIn!SessionsInv /\ (SignIn!Next \/ UNCHANGED sessionVars) => SignIn!SessionsInv'
<1> SUFFICES ASSUME SignIn!SessionsInv, SignIn!Next \/ UNCHANGED sessionVars
             PROVE  SignIn!SessionsInv'
  OBVIOUS
<1>1. ASSUME NEW v \in Handlers, SignIn!VisitStep(v) PROVE SignIn!SessionsInv'
  BY <1>1, LetterStep, NewUserStep, LinkSsoUserStep, IssueStep, AnswerStep, ReadTokenStep,
     ReadOwnerStep, RevokeStep, ResetStep, RevokeSessionsStep
  DEF SignIn!VisitStep
<1> QED BY <1>1, AuthRequestStep, SurroundingsStep, DropStep DEF SignIn!Next

(* However the tabs of a browser, lost answers and resets interleave: a    *)
(* rotated refresh token is dead, and whoever has a session has shown that *)
(* the address is theirs; unless calls overlapped, a refresh token has one *)
(* successor; unless one was also cut short, no session outlives a reset   *)
(* of the password it was opened with.                                     *)
THEOREM SessionsAreSound == IdentitySpec => []SessionsInv
<1>1. IdentityInit => SignIn!SessionsInv
  BY SesInit DEF IdentityInit
<1>2. SignIn!SessionsInv /\ [IdentityNext]_everything => SignIn!SessionsInv'
  BY SesStep DEF IdentityNext, everything
<1>3. IdentitySpec => []SignIn!SessionsInv
  BY <1>1, <1>2, PTL DEF IdentitySpec
<1> QED BY <1>3, PTL DEF SessionsInv
=============================================================================
