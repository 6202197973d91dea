--------------------------- MODULE BulkEnrolment ---------------------------
(***************************************************************************)
(* Bulk enrolment into one course (apps/api/src/modules/bulk-enrolment):   *)
(* an administrator uploads lines of learners, a job and its rows are      *)
(* written, and the job then runs on its own: learners with an account are *)
(* enrolled one by one, the others skipped.  Every statement is awaited,   *)
(* and nothing restarts a job that stopped.                                *)
(***************************************************************************)
EXTENDS Naturals, Sequences, FiniteSets

CONSTANTS
  Emails,       \* addresses that uploads mention
  Active,       \* those of active accounts
  Jobs,         \* rows of bulk_enrolment_jobs
  MaxLines,     \* lines of an upload, at most
  MaxAccidents  \* bound: crashes

VARIABLES
  bulkJobs,    \* bulk_enrolment_jobs: status and counts
  bulkRows,    \* bulk_enrolment_rows of each job, in order
  roster,      \* addresses of the learners enrolled in the course
  runner,      \* the call that creates a job and then runs it
  meddled,     \* history: was somebody enrolled by other means, or by two jobs at once?
  accidents    \* crashes so far

vars == <<bulkJobs, bulkRows, roster, runner, meddled, accidents>>

Line == [email : Emails, good : BOOLEAN]   \* is its address, and date if any, well formed?
Uploads == UNION {[1..n -> Line] : n \in 1..MaxLines}
Row == [email : Emails, status : {"valid", "invalid", "skipped", "enrolled"}]
Job == [status : {"none", "pending", "processing", "completed"},
        valid : 0..MaxLines, enrolled : 0..MaxLines, skipped : 0..MaxLines]
Runner == [pc : {"idle", "insert", "start", "read", "row", "mark"}, at : 1..(MaxLines + 1),
           upload : Uploads \union {<<>>}, known : SUBSET Emails,
           enrolled : 0..MaxLines, skipped : 0..MaxLines]
Idle == [pc |-> "idle", at |-> 1, upload |-> <<>>, known |-> {}, enrolled |-> 0, skipped |-> 0]

(* Jobs, rows and calls have their types. *)
TypeOK ==
  /\ bulkJobs \in [Jobs -> Job]
  /\ bulkRows \in [Jobs -> Seq(Row)]
  /\ roster \in SUBSET Emails
  /\ runner \in [Jobs -> Runner]
  /\ meddled \in BOOLEAN
  /\ accidents \in 0..MaxAccidents

Init ==
  /\ bulkJobs = [j \in Jobs |-> [status |-> "none", valid |-> 0, enrolled |-> 0, skipped |-> 0]]
  /\ bulkRows = [j \in Jobs |-> <<>>]
  /\ roster = {}
  /\ runner = [j \in Jobs |-> Idle]
  /\ meddled = FALSE
  /\ accidents = 0

-----------------------------------------------------------------------------
(* The verdicts on an upload. *)

(* validateRow: well formed, and no valid line before it for the address.  *)
IsValid(upload, i) ==
  upload[i].good /\ \A k \in 1..(i - 1) : upload[k] # upload[i]
ValidCount(upload) == Cardinality({i \in DOMAIN upload : IsValid(upload, i)})

(* What is written of a line is the verdict on the first line with its     *)
(* address.                                                                *)
StoredVerdict(upload, i) ==
  LET first == CHOOSE k \in DOMAIN upload :
                 /\ upload[k].email = upload[i].email
                 /\ \A m \in 1..(k - 1) : upload[m].email # upload[i].email
  IN IF IsValid(upload, first) THEN "valid" ELSE "invalid"

NoRepeats(upload) ==
  \A i, k \in DOMAIN upload : upload[i].email = upload[k].email => i = k

-----------------------------------------------------------------------------
(* Helpers *)

At(j, step) == runner[j].pc = step
Goto(j, step) == runner' = [runner EXCEPT ![j].pc = step]
ThisRow(j) == bulkRows[j][runner[j].at]
MoreRows(j) == runner[j].at <= Len(bulkRows[j])
SetRow(j, s) == bulkRows' = [bulkRows EXCEPT ![j][runner[j].at].status = s]

-----------------------------------------------------------------------------
(* createBulkEnrolmentJob *)

CreateBulkEnrolmentJob(j, upload) ==
  /\ bulkJobs[j].status = "none"
  /\ bulkJobs' = [bulkJobs EXCEPT ![j].status = "pending", ![j].valid = ValidCount(upload)]
  /\ runner' = [runner EXCEPT ![j] = [Idle EXCEPT !.pc = "insert", !.upload = upload]]
  /\ UNCHANGED <<bulkRows, roster, meddled, accidents>>

InsertRow(j) ==
  LET r == runner[j] IN
  /\ At(j, "insert") /\ r.at <= Len(r.upload)
  /\ bulkRows' = [bulkRows EXCEPT ![j] =
       Append(@, [email |-> r.upload[r.at].email, status |-> StoredVerdict(r.upload, r.at)])]
  /\ runner' = [runner EXCEPT ![j].at = @ + 1]
  /\ UNCHANGED <<bulkJobs, roster, meddled, accidents>>

(* The job is answered, and runs on. *)
AnswerJob(j) ==
  /\ At(j, "insert") /\ runner[j].at > Len(runner[j].upload)
  /\ runner' = [runner EXCEPT ![j].pc = "start", ![j].at = 1]
  /\ UNCHANGED <<bulkJobs, bulkRows, roster, meddled, accidents>>

-----------------------------------------------------------------------------
(* processBulkEnrolmentJob *)

MarkProcessing(j) ==
  /\ At(j, "start")
  /\ bulkJobs' = [bulkJobs EXCEPT ![j].status = "processing"]
  /\ Goto(j, "read")
  /\ UNCHANGED <<bulkRows, roster, meddled, accidents>>

(* The accounts and the enrolments are read once for the whole job.        *)
ReadEnrolments(j) ==
  /\ At(j, "read")
  /\ runner' = [runner EXCEPT ![j].pc = "row", ![j].known = roster]
  /\ UNCHANGED <<bulkJobs, bulkRows, roster, meddled, accidents>>

PassRow(j) ==
  /\ At(j, "row") /\ MoreRows(j) /\ ThisRow(j).status # "valid"
  /\ runner' = [runner EXCEPT ![j].at = @ + 1]
  /\ UNCHANGED <<bulkJobs, bulkRows, roster, meddled, accidents>>

Interferes(j) == \E k \in Jobs \ {j} : ~At(k, "idle")
MustSkip(j) == ThisRow(j).email \notin Active \/ ThisRow(j).email \in runner[j].known

Mutant_SkipRow_Silent(j) ==
  /\ At(j, "row") /\ MoreRows(j) /\ ThisRow(j).status = "valid" /\ MustSkip(j)
  /\ runner' = [runner EXCEPT ![j].at = @ + 1, ![j].skipped = @ + 1]
  /\ UNCHANGED <<bulkJobs, bulkRows, roster, meddled, accidents>>

(* No account, not active, or already enrolled. *)
SkipRow(j) ==
  /\ At(j, "row") /\ MoreRows(j) /\ ThisRow(j).status = "valid" /\ MustSkip(j)
  /\ SetRow(j, "skipped")
  /\ runner' = [runner EXCEPT ![j].at = @ + 1, ![j].skipped = @ + 1]
  /\ UNCHANGED <<bulkJobs, roster, meddled, accidents>>


EnrolRow(j) ==
  LET email == ThisRow(j).email IN
  /\ At(j, "row") /\ MoreRows(j) /\ ThisRow(j).status = "valid" /\ ~MustSkip(j)
  /\ email \notin roster
  /\ roster' = roster \union {email}
  /\ runner' = [runner EXCEPT ![j].pc = "mark", ![j].known = @ \union {email},
                              ![j].enrolled = @ + 1]
  /\ meddled' = (meddled \/ Interferes(j))
  /\ UNCHANGED <<bulkJobs, bulkRows, accidents>>

(* Enrolled by other means since the enrolments were read: the insert      *)
(* fails, and the job with it.                                             *)
EnrolClashes(j) ==
  /\ At(j, "row") /\ MoreRows(j) /\ ThisRow(j).status = "valid" /\ ~MustSkip(j)
  /\ ThisRow(j).email \in roster
  /\ runner' = [runner EXCEPT ![j] = Idle]
  /\ UNCHANGED <<bulkJobs, bulkRows, roster, meddled, accidents>>

MarkEnrolled(j) ==
  /\ At(j, "mark")
  /\ SetRow(j, "enrolled")
  /\ runner' = [runner EXCEPT ![j].pc = "row", ![j].at = @ + 1]
  /\ UNCHANGED <<bulkJobs, roster, meddled, accidents>>

(* The counts are written and the administrator told. *)
CompleteJob(j) ==
  /\ At(j, "row") /\ ~MoreRows(j)
  /\ bulkJobs' = [bulkJobs EXCEPT ![j].status = "completed", ![j].enrolled = runner[j].enrolled,
                                  ![j].skipped = runner[j].skipped]
  /\ runner' = [runner EXCEPT ![j] = Idle]
  /\ UNCHANGED <<bulkRows, roster, meddled, accidents>>

-----------------------------------------------------------------------------
(* A learner enrols, or pays. *)
EnrolElsewhere(email) ==
  /\ email \in Active \ roster
  /\ roster' = roster \union {email}
  /\ meddled' = TRUE
  /\ UNCHANGED <<bulkJobs, bulkRows, runner, accidents>>

Crash(j) ==
  /\ ~At(j, "idle") /\ accidents < MaxAccidents
  /\ accidents' = accidents + 1
  /\ runner' = [runner EXCEPT ![j] = Idle]
  /\ UNCHANGED <<bulkJobs, bulkRows, roster, meddled>>

BulkRequest == \E j \in Jobs, upload \in Uploads : CreateBulkEnrolmentJob(j, upload)

RunnerStep(j) ==
  \/ InsertRow(j) \/ AnswerJob(j) \/ MarkProcessing(j) \/ ReadEnrolments(j)
  \/ PassRow(j) \/ SkipRow(j) \/ EnrolRow(j) \/ EnrolClashes(j) \/ MarkEnrolled(j)
  \/ CompleteJob(j)

Next ==
  \/ BulkRequest
  \/ \E j \in Jobs : RunnerStep(j) \/ Crash(j)
  \/ \E email \in Emails : EnrolElsewhere(email)

Spec == Init /\ [][Next]_vars

(* The event loop runs a call on. *)
Fairness == \A j \in Jobs : WF_vars(RunnerStep(j))
FairSpec == Spec /\ Fairness

-----------------------------------------------------------------------------
(* Properties *)

Having(rows, s) == {i \in DOMAIN rows : rows[i].status = s}
RowsWith(j, s) == Cardinality(Having(bulkRows[j], s))

(* A completed job has dealt with every row and reports what became of     *)
(* them; with no address twice in the upload, its valid lines are those    *)
(* enrolled or skipped.                                                    *)
TrueReport(j) ==
  bulkJobs[j].status = "completed" =>
    /\ RowsWith(j, "valid") = 0
    /\ bulkJobs[j].enrolled = RowsWith(j, "enrolled")
    /\ bulkJobs[j].skipped = RowsWith(j, "skipped")
    /\ NoRepeats(bulkRows[j]) =>
         bulkJobs[j].valid = bulkJobs[j].enrolled + bulkJobs[j].skipped

(* What a job relies on: it is completed last; the rows written so far are *)
(* the verdicts on its upload; and then, that the rows it has passed are   *)
(* settled and its counts are theirs.                                      *)
Written(j) ==
  LET r == runner[j] IN
  /\ r.upload \in Uploads /\ Len(bulkRows[j]) = r.at - 1 /\ r.at <= Len(r.upload) + 1
  /\ r.enrolled = 0 /\ r.skipped = 0
  /\ bulkJobs[j].valid = ValidCount(r.upload)
  /\ \A i \in DOMAIN bulkRows[j] :
       bulkRows[j][i] = [email |-> r.upload[i].email, status |-> StoredVerdict(r.upload, i)]
Counted(j) ==
  LET r == runner[j] IN
  /\ r.at <= Len(bulkRows[j]) + 1
  /\ \A i \in 1..(r.at - 1) : bulkRows[j][i].status # "valid"
  /\ r.enrolled = RowsWith(j, "enrolled") + IF r.pc = "mark" THEN 1 ELSE 0
  /\ r.skipped = RowsWith(j, "skipped")
  /\ NoRepeats(bulkRows[j]) =>
       bulkJobs[j].valid =
         RowsWith(j, "valid") + RowsWith(j, "enrolled") + RowsWith(j, "skipped")
JobOK(j) ==
  /\ Len(bulkRows[j]) <= MaxLines
  /\ bulkJobs[j].status = "none" => At(j, "idle") /\ bulkRows[j] = <<>>
  /\ bulkJobs[j].status = "completed" => At(j, "idle")
  /\ At(j, "insert") => Written(j)
  /\ runner[j].pc \in {"start", "read", "row", "mark"} => Counted(j)
  /\ At(j, "mark") => MoreRows(j) /\ ThisRow(j).status = "valid" /\ ThisRow(j).email \in roster

(* A learner reported as enrolled is, even by a job that stopped half-way. *)
EnrolledAre(j) ==
  \A i \in DOMAIN bulkRows[j] :
    bulkRows[j][i].status = "enrolled" => bulkRows[j][i].email \in roster

(* The inductive invariant.                                                *)
BulkInv ==
  /\ TypeOK
  /\ \A j \in Jobs : TrueReport(j) /\ EnrolledAre(j) /\ JobOK(j)

=============================================================================
