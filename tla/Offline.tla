------------------------------ MODULE Offline ------------------------------
(***************************************************************************)
(* Offline copies of a lesson for one learner (apps/api/src/modules/       *)
(* offline): a copy is a row of offline_downloads and an encrypted file in *)
(* storage, made by the call that creates it, for as long as the learner's *)
(* enrolment runs and 30 days at most.  Statements are awaited one by one; *)
(* a call's checks before its first write are part of its start.           *)
(***************************************************************************)
EXTENDS Naturals, FiniteSets

CONSTANTS
  Copies,      \* rows of offline_downloads
  Fetchers,    \* calls that may be in flight at once
  NoCopy,      \* no row
  MaxHitches   \* bound: crashes, failures of storage

VARIABLES
  copies,    \* offline_downloads: status; is file_key set?
  overdue,   \* copies past their 30 days
  ended,     \* has the enrolment expired?
  files,     \* copies whose file the storage holds
  fetch,     \* the calls in flight
  tangled,   \* history: have two calls ever been in flight at once?
  hitches    \* crashes and failures so far

clock == <<overdue, ended>>
vars == <<copies, clock, files, fetch, tangled, hitches>>

Copy  == [status : {"none", "queued", "processing", "ready", "expired", "revoked"},
          key : BOOLEAN]
Step  == {"idle", "insert", "process", "put", "finish", "answer",
          "load", "overdue", "ended", "expire", "found",
          "delete", "revoke", "read", "touch"}
Fetch == [pc : Step, copy : Copies \union {NoCopy}, verb : {"create", "get", "file", "cancel"},
          row : Copy, after : BOOLEAN]
NoRow == [status |-> "none", key |-> FALSE]
Idle  == [pc |-> "idle", copy |-> NoCopy, verb |-> "get", row |-> NoRow, after |-> FALSE]

(* Rows, files and calls have their types. *)
TypeOK ==
  /\ copies \in [Copies -> Copy]
  /\ overdue \in SUBSET Copies
  /\ ended \in BOOLEAN
  /\ files \in SUBSET Copies
  /\ fetch \in [Fetchers -> Fetch]
  /\ tangled \in BOOLEAN
  /\ hitches \in 0..MaxHitches

Init ==
  /\ copies = [c \in Copies |-> NoRow]
  /\ overdue = {}
  /\ ended = FALSE
  /\ files = {}
  /\ fetch = [f \in Fetchers |-> Idle]
  /\ tangled = FALSE
  /\ hitches = 0

-----------------------------------------------------------------------------
(* Helpers *)

At(f, step) == fetch[f].pc = step
Goto(f, step) == fetch' = [fetch EXCEPT ![f].pc = step]
Return(f) == fetch' = [fetch EXCEPT ![f] = Idle]
Begin(f, c) ==
  /\ At(f, "idle")
  /\ fetch' = [fetch EXCEPT ![f] = c]
  /\ tangled' = (tangled \/ \E g \in Fetchers \ {f} : ~At(g, "idle"))
Hitch == hitches < MaxHitches /\ hitches' = hitches + 1
SetCopy(f, s) == copies' = [copies EXCEPT ![fetch[f].copy].status = s]

-----------------------------------------------------------------------------
(* Time: 30 days, or the enrolment, run out. *)

CopyRunsOut(c) ==
  /\ copies[c].status # "none" /\ c \notin overdue
  /\ overdue' = overdue \union {c}
  /\ UNCHANGED <<copies, ended, files, fetch, tangled, hitches>>

(* An enrolment that has expired keeps its row; a copy made of it since    *)
(* carries its expiry.                                                     *)
EnrolmentEnds ==
  /\ ~ended
  /\ ended' = TRUE
  /\ UNCHANGED <<copies, overdue, files, fetch, tangled, hitches>>

-----------------------------------------------------------------------------
(* createOfflineDownload: for an enrolled learner, whose enrolment runs.   *)

CreateOfflineDownload(f) ==
  /\ ~ended
  /\ Begin(f, [Idle EXCEPT !.pc = "insert", !.verb = "create"])
  /\ UNCHANGED <<copies, clock, files, hitches>>

InsertCopy(f, c) ==
  /\ At(f, "insert")
  /\ copies[c].status = "none"
  /\ copies' = [copies EXCEPT ![c].status = "queued"]
  /\ fetch' = [fetch EXCEPT ![f].pc = "process", ![f].copy = c]
  /\ UNCHANGED <<clock, files, tangled, hitches>>

Mutant_MarkProcessing_Only(f) ==
  /\ At(f, "process")
  /\ SetCopy(f, "processing")
  /\ Return(f)
  /\ UNCHANGED <<clock, files, tangled, hitches>>

MarkProcessing(f) ==
  /\ At(f, "process")
  /\ SetCopy(f, "processing")
  /\ Goto(f, "put")
  /\ UNCHANGED <<clock, files, tangled, hitches>>

PutFile(f) ==
  /\ At(f, "put")
  /\ files' = files \union {fetch[f].copy}
  /\ Goto(f, "finish")
  /\ UNCHANGED <<copies, clock, tangled, hitches>>

(* Whatever became of the row meanwhile. *)
MarkReady(f) ==
  /\ At(f, "finish")
  /\ copies' = [copies EXCEPT ![fetch[f].copy] = [status |-> "ready", key |-> TRUE]]
  /\ Return(f)
  /\ UNCHANGED <<clock, files, tangled, hitches>>

-----------------------------------------------------------------------------
(* loadOwnedDownload, for a look at the copy, its file, or to cancel it:   *)
(* the row is read, and a copy that has run out is written expired.        *)

LoadOwned(f, c, verb) ==
  /\ copies[c].status # "none"
  /\ Begin(f, [pc |-> "overdue", copy |-> c, verb |-> verb, row |-> copies[c], after |-> ended])
  /\ UNCHANGED <<copies, clock, files, hitches>>

CheckOverdue(f) ==
  LET c == fetch[f].copy IN
  /\ At(f, "overdue")
  /\ IF fetch[f].row.status = "ready" /\ c \in overdue
       THEN /\ copies' = [copies EXCEPT ![c].status = "expired"]
            /\ fetch' = [fetch EXCEPT ![f].pc = "found", ![f].row.status = "expired"]
       ELSE /\ Goto(f, "ended")
            /\ UNCHANGED copies
  /\ UNCHANGED <<clock, files, tangled, hitches>>

Mutant_CheckEnrolment_Skip(f) ==
  /\ At(f, "ended")
  /\ Goto(f, "found")
  /\ UNCHANGED <<copies, clock, files, tangled, hitches>>

CheckEnrolment(f) ==
  /\ At(f, "ended")
  /\ Goto(f, IF fetch[f].row.status = "ready" /\ ended THEN "expire" ELSE "found")
  /\ UNCHANGED <<copies, clock, files, tangled, hitches>>

ExpireWithEnrolment(f) ==
  /\ At(f, "expire")
  /\ copies' = [copies EXCEPT ![fetch[f].copy].status = "expired"]
  /\ fetch' = [fetch EXCEPT ![f].pc = "found", ![f].row.status = "expired"]
  /\ UNCHANGED <<clock, files, tangled, hitches>>

(* getOfflineDownload answers the row, with an address if it is ready.     *)
GetOfflineDownload(f) ==
  /\ At(f, "found") /\ fetch[f].verb = "get"
  /\ Return(f)
  /\ UNCHANGED <<copies, clock, files, tangled, hitches>>

(* getOfflineDownloadFile: the copy must be ready ... *)
OpenFile(f) ==
  /\ At(f, "found") /\ fetch[f].verb = "file"
  /\ IF fetch[f].row.status = "ready" /\ fetch[f].row.key THEN Goto(f, "read") ELSE Return(f)
  /\ UNCHANGED <<copies, clock, files, tangled, hitches>>

(* ... its file is read and answered, or reported missing.                 *)
ReadFile(f) ==
  /\ At(f, "read")
  /\ IF fetch[f].copy \in files THEN Goto(f, "touch") ELSE Return(f)
  /\ UNCHANGED <<copies, clock, files, tangled, hitches>>

SendFile(f) ==
  /\ At(f, "touch")
  /\ Return(f)
  /\ UNCHANGED <<copies, clock, files, tangled, hitches>>

(* cancelOfflineDownload: the file of a ready copy goes, then the row.     *)
StartCancel(f) ==
  /\ At(f, "found") /\ fetch[f].verb = "cancel"
  /\ Goto(f, IF fetch[f].row.status = "ready" /\ fetch[f].row.key THEN "delete" ELSE "revoke")
  /\ UNCHANGED <<copies, clock, files, tangled, hitches>>

DeleteFile(f) ==
  /\ At(f, "delete")
  /\ files' = files \ {fetch[f].copy}
  /\ Goto(f, "revoke")
  /\ UNCHANGED <<copies, clock, tangled, hitches>>

(* deleteObject swallows what goes wrong. *)
DeleteFails(f) ==
  /\ At(f, "delete")
  /\ Hitch
  /\ Goto(f, "revoke")
  /\ UNCHANGED <<copies, clock, files, tangled>>

MarkRevoked(f) ==
  /\ At(f, "revoke")
  /\ SetCopy(f, "revoked")
  /\ Return(f)
  /\ UNCHANGED <<clock, files, tangled, hitches>>

(* The process dies, or storage throws: the call ends where it is.         *)
Crash(f) ==
  /\ ~At(f, "idle")
  /\ Hitch
  /\ Return(f)
  /\ UNCHANGED <<copies, clock, files, tangled>>

-----------------------------------------------------------------------------
OfflineRequest ==
  \E f \in Fetchers :
    \/ CreateOfflineDownload(f)
    \/ \E c \in Copies, verb \in {"get", "file", "cancel"} : LoadOwned(f, c, verb)

FetchStep(f) ==
  \/ \E c \in Copies : InsertCopy(f, c)
  \/ MarkProcessing(f) \/ PutFile(f) \/ MarkReady(f)
  \/ CheckOverdue(f) \/ CheckEnrolment(f) \/ ExpireWithEnrolment(f)
  \/ GetOfflineDownload(f)
  \/ OpenFile(f) \/ ReadFile(f) \/ SendFile(f)
  \/ StartCancel(f) \/ DeleteFile(f) \/ MarkRevoked(f)

Next ==
  \/ OfflineRequest
  \/ \E f \in Fetchers : FetchStep(f) \/ DeleteFails(f) \/ Crash(f)
  \/ EnrolmentEnds \/ \E c \in Copies : CopyRunsOut(c)

Spec == Init /\ [][Next]_vars

(* A call in flight runs on. *)
Fairness == \A f \in Fetchers : WF_vars(FetchStep(f))
FairSpec == Spec /\ Fairness

-----------------------------------------------------------------------------
(* Properties *)

(* A copy shown as ready has its file, but for a cancellation under way    *)
(* (or one that died between the file and the row).                        *)
ReadyHasFile ==
  \A c \in Copies :
    copies[c].status = "ready" /\ hitches = 0 =>
      \/ c \in files
      \/ \E f \in Fetchers : At(f, "revoke") /\ fetch[f].copy = c

(* A file is never answered to a request made after the enrolment ended.   *)
EndedIsRefused == \A f \in Fetchers : fetch[f].pc \in {"read", "touch"} => ~fetch[f].after

(* What a call in flight relies on: the call that makes a copy is the only *)
(* one that does, and has no file to take away; a call deletes the file of *)
(* a copy that was ready.                                                  *)
Making == {"process", "put", "finish"}
FetchOK(f) ==
  LET c == fetch[f] IN
  /\ c.pc \notin {"idle", "insert"} => c.copy \in Copies /\ copies[c.copy].status # "none"
  /\ c.after => ended
  /\ c.pc = "found" /\ c.after => c.row.status # "ready"
  /\ c.pc \in Making \union {"insert"} => ~c.row.key
  /\ c.pc \in Making =>
       /\ ~copies[c.copy].key
       /\ \A g \in Fetchers \ {f} : ~(fetch[g].copy = c.copy /\ fetch[g].pc \in Making)
  /\ c.pc = "finish" => c.copy \in files
  /\ c.pc = "delete" => c.row.key
  /\ c.row.key => c.copy \in Copies /\ copies[c.copy].key

(* The inductive invariant. *)
IInv ==
  /\ TypeOK
  /\ ReadyHasFile /\ EndedIsRefused
  /\ \A c \in Copies :
       /\ copies[c].status = "ready" => copies[c].key
       /\ copies[c].status = "none" => ~copies[c].key
  /\ \A f \in Fetchers : FetchOK(f)

(* Liveness without crashes: a copy asked for gets ready, or is cancelled. *)
CopiesGetReady ==
  \A c \in Copies :
    copies[c].status = "queued" ~> (copies[c].status \in {"ready", "revoked"} \/ hitches > 0)
=============================================================================
