------------------------------ MODULE Learning ------------------------------
(***************************************************************************)
(* A learner's way through one course: enrolment and lesson progress       *)
(* (modules/enrolments), the grades and completions that quizzes write     *)
(* (modules/quizzes, whose attempts are in module Quiz), the certificate   *)
(* (modules/certificates), and the author who edits the course meanwhile   *)
(* (modules/builder).  Everything read or written here is keyed by the     *)
(* learner and the course, so pairs do not interact.                       *)
(*                                                                         *)
(* A progress row is known by whether it is completed, a gradebook row by  *)
(* whether it reaches the course's certificate_pass_percent.               *)
(***************************************************************************)
EXTENDS Naturals, FiniteSets

CONSTANTS
  Lessons,       \* lessons the course may have
  Handlers,      \* calls that may be in flight at once
  Numbers,       \* bound: certificate numbers drawn
  None,          \* no certificate, no lesson
  MaxEdits,      \* bound: edits of the course
  MaxFaults      \* bound: process crashes and failures of the storage

ASSUME LearningAssumption ==
  /\ IsFiniteSet(Lessons)
  /\ None \notin Lessons \union Numbers
  /\ MaxEdits \in Nat
  /\ MaxFaults \in Nat

VARIABLES
  lessons,     \* rows of lessons
  published,   \* those with lessons.published
  quizzes,     \* those with lessons.kind = "quiz"
  enrolled,    \* is there an enrolments row?
  completed,   \* lessons whose lesson_progress row is completed
  attempted,   \* lessons with a quiz_attempts row
  passed,      \* lessons whose gradebook row reaches certificate_pass_percent
  issued,      \* the certificates row, by its number
  files,       \* certificate PDFs in storage
  letters,     \* certificate emails of issueCertificate
  notices,     \* numbers that "certificate_issued" notifications name
  call,        \* the calls in flight
  edits,       \* edits of the course so far
  faults       \* crashes and storage failures so far

course == <<lessons, published, quizzes>>
learner == <<enrolled, completed, attempted, passed>>
certificate == <<issued, files, letters, notices>>
bounds == <<edits, faults>>
vars == <<lessons, published, quizzes, enrolled, completed, attempted, passed,
          issued, files, letters, notices, call, edits, faults>>

Step == {"idle", "enrol",                                        \* enrolFree
         "upsert",                                               \* saveProgress
         "attempt", "grade", "finish",                           \* a quiz attempt
         "completed", "quizzes", "gradebook", "existing",        \* issueCertificate
         "store", "insert", "mail", "notify"}

Call == [pc : Step, lesson : Lessons \union {None}, ok : BOOLEAN,
         required : Nat, asked : SUBSET Lessons, number : Numbers \union {None}]
Idle == [pc |-> "idle", lesson |-> None, ok |-> FALSE, required |-> 0, asked |-> {},
         number |-> None]

(* Rows, files and calls in flight have their types. *)
TypeOK ==
  /\ lessons \in SUBSET Lessons
  /\ published \in SUBSET lessons
  /\ quizzes \in SUBSET lessons
  /\ enrolled \in BOOLEAN
  /\ completed \in SUBSET Lessons
  /\ attempted \in SUBSET Lessons
  /\ passed \in SUBSET Lessons
  /\ issued \in Numbers \union {None}
  /\ files \in SUBSET Numbers
  /\ letters \in Nat
  /\ notices \in SUBSET Numbers
  /\ call \in [Handlers -> Call]
  /\ edits \in 0..MaxEdits
  /\ faults \in 0..MaxFaults

(* A course as its author left it, drafts included, and a new learner. *)
Init ==
  /\ lessons \in SUBSET Lessons
  /\ published \in SUBSET lessons
  /\ quizzes \in SUBSET lessons
  /\ enrolled = FALSE
  /\ completed = {} /\ attempted = {} /\ passed = {}
  /\ issued = None /\ files = {} /\ letters = 0 /\ notices = {}
  /\ call = [h \in Handlers |-> Idle]
  /\ edits = 0 /\ faults = 0

-----------------------------------------------------------------------------
(* Helpers *)

IsIdle(h) == call[h].pc = "idle"
At(h, step) == call[h].pc = step
Goto(h, step) == call' = [call EXCEPT ![h].pc = step]
Return(h) == call' = [call EXCEPT ![h] = Idle]
Begin(h, c) == IsIdle(h) /\ call' = [call EXCEPT ![h] = c]

-----------------------------------------------------------------------------
(* enrolFree looks for a row, and inserts one or is refused by UNIQUE      *)
(* (user, course) when somebody else did.                                  *)

StartEnrol(h) ==
  /\ ~enrolled
  /\ Begin(h, [Idle EXCEPT !.pc = "enrol"])
  /\ UNCHANGED <<course, learner, certificate, bounds>>

InsertEnrolment(h) ==
  /\ At(h, "enrol")
  /\ enrolled' = TRUE
  /\ Return(h)
  /\ UNCHANGED <<course, completed, attempted, passed, certificate, bounds>>

(* The checkout, a bulk enrolment or an LTI launch inserts the row. *)
EnrolledElsewhere ==
  /\ ~enrolled
  /\ enrolled' = TRUE
  /\ UNCHANGED <<course, completed, attempted, passed, certificate, call, bounds>>

-----------------------------------------------------------------------------
(* saveProgress, and markLessonComplete which calls it.  The lesson must   *)
(* be of the course, published or not; it counts as completed when the     *)
(* call says so or its position is at 90 % of a video.                     *)

SaveProgress(h, l, whole) ==
  /\ enrolled
  /\ l \in lessons
  /\ Begin(h, [Idle EXCEPT !.pc = "upsert", !.lesson = l, !.ok = whole])
  /\ UNCHANGED <<course, learner, certificate, bounds>>

(* The upsert overwrites what was there; for a lesson deleted meanwhile it *)
(* violates the foreign key and the call throws.                           *)
UpsertProgress(h) ==
  /\ At(h, "upsert")
  /\ LET l == call[h].lesson IN
       completed' = IF call[h].ok THEN completed \union ({l} \intersect lessons)
                                  ELSE completed \ {l}
  /\ Return(h)
  /\ UNCHANGED <<course, enrolled, attempted, passed, certificate, bounds>>

-----------------------------------------------------------------------------
(* A quiz attempt, from a published quiz.  It is graded when the learner   *)
(* submits it, from the page of any published quiz, and completes the      *)
(* lesson; or when a sweep finds it overdue, which only enters its grade.  *)

StartAttempt(h, l) ==
  /\ enrolled
  /\ l \in published \intersect quizzes
  /\ Begin(h, [Idle EXCEPT !.pc = "attempt", !.lesson = l])
  /\ UNCHANGED <<course, learner, certificate, bounds>>

InsertAttempt(h) ==
  /\ At(h, "attempt")
  /\ attempted' = attempted \union ({call[h].lesson} \intersect lessons)
  /\ Return(h)
  /\ UNCHANGED <<course, enrolled, completed, passed, certificate, bounds>>

GradeAttempt(h, l, pass) ==
  /\ enrolled
  /\ published \intersect quizzes # {}
  /\ l \in attempted
  /\ Begin(h, [Idle EXCEPT !.pc = "grade", !.lesson = l, !.ok = pass])
  /\ UNCHANGED <<course, learner, certificate, bounds>>

(* The latest grade replaces the one before it.  The attempt of a deleted  *)
(* lesson is gone, and the call throws.                                    *)
UpsertGradebook(h) ==
  /\ At(h, "grade")
  /\ LET l == call[h].lesson IN
       /\ passed' = IF call[h].ok THEN passed \union ({l} \intersect attempted)
                                  ELSE passed \ {l}
       /\ Return(h) \/ (l \in attempted /\ Goto(h, "finish"))
  /\ UNCHANGED <<course, enrolled, completed, attempted, certificate, bounds>>

CompleteLesson(h) ==
  /\ At(h, "finish")
  /\ completed' = completed \union ({call[h].lesson} \intersect lessons)
  /\ Return(h)
  /\ UNCHANGED <<course, enrolled, attempted, passed, certificate, bounds>>

-----------------------------------------------------------------------------
(* POST /courses/:slug/certificate: computeEligibility reads one table     *)
(* after the other.  A call that failed one of its conditions will throw,  *)
(* and returns here at once.                                               *)

StartIssue(h) ==
  /\ Begin(h, [Idle EXCEPT !.pc = "completed", !.required = Cardinality(published)])
  /\ UNCHANGED <<course, learner, certificate, bounds>>

(* Every completed row of the course counts, its lesson published or not. *)
CountCompleted(h) ==
  /\ At(h, "completed")
  /\ IF enrolled /\ Cardinality(completed) >= call[h].required
       THEN Goto(h, "quizzes") ELSE Return(h)
  /\ UNCHANGED <<course, learner, certificate, bounds>>

(* Every quiz of the course is asked for, published or not. *)
ReadQuizzes(h) ==
  /\ At(h, "quizzes")
  /\ call' = [call EXCEPT ![h].pc = "gradebook", ![h].asked = quizzes]
  /\ UNCHANGED <<course, learner, certificate, bounds>>

Mutant_ReadGradebook_AnyPassed(h) ==
  /\ At(h, "gradebook")
  /\ IF call[h].asked \intersect passed # {} THEN Goto(h, "existing") ELSE Return(h)
  /\ UNCHANGED <<course, learner, certificate, bounds>>

ReadGradebook(h) ==
  /\ At(h, "gradebook")
  /\ IF call[h].asked \subseteq passed THEN Goto(h, "existing") ELSE Return(h)
  /\ UNCHANGED <<course, learner, certificate, bounds>>

Mutant_LookForCertificate_ByFile(h) ==
  /\ At(h, "existing")
  /\ IF files = {}
       THEN Goto(h, "store")
       ELSE call' = [call EXCEPT ![h].pc = "notify", ![h].number = issued]
  /\ UNCHANGED <<course, learner, certificate, bounds>>

(* The certificate there is, if there is one, is the answer. *)
LookForCertificate(h) ==
  /\ At(h, "existing")
  /\ IF issued = None
       THEN Goto(h, "store")
       ELSE call' = [call EXCEPT ![h].pc = "notify", ![h].number = issued]
  /\ UNCHANGED <<course, learner, certificate, bounds>>

Mutant_StorePdf_Later(h, n) ==
  /\ At(h, "store")
  /\ n \notin files
  /\ call' = [call EXCEPT ![h].pc = "insert", ![h].number = n]
  /\ UNCHANGED <<course, learner, certificate, bounds>>

(* The PDF is stored under a fresh number.  The storage may fail, and the  *)
(* call with it.                                                           *)
StorePdf(h, n) ==
  /\ At(h, "store")
  /\ n \notin files
  /\ files' = files \union {n}
  /\ call' = [call EXCEPT ![h].pc = "insert", ![h].number = n]
  /\ UNCHANGED <<course, learner, issued, letters, notices, bounds>>

StorageFails(h) ==
  /\ At(h, "store")
  /\ faults < MaxFaults
  /\ faults' = faults + 1
  /\ Return(h)
  /\ UNCHANGED <<course, learner, certificate, edits>>

Mutant_InsertCertificate_NotUnique(h) ==
  /\ At(h, "insert")
  /\ issued' = call[h].number
  /\ Goto(h, "mail")
  /\ UNCHANGED <<course, learner, files, letters, notices, bounds>>

(* UNIQUE (user, course) refuses the second of two claims: it throws, and  *)
(* leaves its PDF behind.                                                  *)
InsertCertificate(h) ==
  /\ At(h, "insert")
  /\ IF issued = None
       THEN issued' = call[h].number /\ Goto(h, "mail")
       ELSE Return(h) /\ UNCHANGED issued
  /\ UNCHANGED <<course, learner, files, letters, notices, bounds>>

(* notifyIssued; an email that fails is only logged. *)
MailCertificate(h) ==
  /\ At(h, "mail")
  /\ letters' \in {letters, letters + 1}
  /\ Goto(h, "notify")
  /\ UNCHANGED <<course, learner, issued, files, notices, bounds>>

(* The route notifies after every claim that was answered, the first or    *)
(* not, unless the learner's preferences say no.                           *)
NotifyCertificateIssued(h) ==
  /\ At(h, "notify")
  /\ notices' \in {notices, notices \union {call[h].number}}
  /\ Return(h)
  /\ UNCHANGED <<course, learner, issued, files, letters, bounds>>

-----------------------------------------------------------------------------
(* The author edits the course *)

Edit == edits < MaxEdits /\ edits' = edits + 1

(* A new row has a new id: none that a call in flight still holds. *)
AddLesson(l, isPublished, isQuiz) ==
  /\ Edit
  /\ l \notin lessons
  /\ \A h \in Handlers : l # call[h].lesson /\ l \notin call[h].asked
  /\ lessons' = lessons \union {l}
  /\ published' = IF isPublished THEN published \union {l} ELSE published
  /\ quizzes' = IF isQuiz THEN quizzes \union {l} ELSE quizzes
  /\ UNCHANGED <<learner, certificate, call, faults>>

UpdateLesson(l, isPublished, isQuiz) ==
  /\ Edit
  /\ l \in lessons
  /\ published' = IF isPublished THEN published \union {l} ELSE published \ {l}
  /\ quizzes' = IF isQuiz THEN quizzes \union {l} ELSE quizzes \ {l}
  /\ UNCHANGED <<lessons, learner, certificate, call, faults>>

(* Rows that belong to a lesson are deleted with it. *)
DeleteLessons(gone) ==
  /\ Edit
  /\ lessons' = lessons \ gone
  /\ published' = published \ gone
  /\ quizzes' = quizzes \ gone
  /\ completed' = completed \ gone
  /\ attempted' = attempted \ gone
  /\ passed' = passed \ gone
  /\ UNCHANGED <<enrolled, certificate, call, faults>>

DeleteLesson(l) == l \in lessons /\ DeleteLessons({l})

(* The lessons of the module, any of the course's as far as the learner is *)
(* concerned, are deleted with it: the update that would leave them        *)
(* without a module comes too late to find any.                            *)
DeleteModule(itsLessons) == itsLessons \subseteq lessons /\ DeleteLessons(itsLessons)

(* The API process dies and comes back: the calls in flight are gone. *)
Crash ==
  /\ faults < MaxFaults
  /\ \E h \in Handlers : ~IsIdle(h)
  /\ call' = [h \in Handlers |-> Idle]
  /\ faults' = faults + 1
  /\ UNCHANGED <<course, learner, certificate, edits>>

-----------------------------------------------------------------------------
HandlerStep(h) ==
  \/ InsertEnrolment(h) \/ UpsertProgress(h)
  \/ InsertAttempt(h) \/ UpsertGradebook(h) \/ CompleteLesson(h)
  \/ CountCompleted(h) \/ ReadQuizzes(h) \/ ReadGradebook(h) \/ LookForCertificate(h)
  \/ (\E n \in Numbers : StorePdf(h, n)) \/ StorageFails(h)
  \/ InsertCertificate(h) \/ MailCertificate(h) \/ NotifyCertificateIssued(h)

Incoming(h) ==
  \/ StartEnrol(h) \/ StartIssue(h)
  \/ \E l \in Lessons : StartAttempt(h, l)
  \/ \E l \in Lessons, ok \in BOOLEAN : SaveProgress(h, l, ok) \/ GradeAttempt(h, l, ok)

Author ==
  \/ \E l \in Lessons, p, q \in BOOLEAN : AddLesson(l, p, q) \/ UpdateLesson(l, p, q)
  \/ \E l \in Lessons : DeleteLesson(l)
  \/ \E ls \in SUBSET Lessons : DeleteModule(ls)

Next ==
  \/ \E h \in Handlers : Incoming(h) \/ HandlerStep(h)
  \/ EnrolledElsewhere \/ Author \/ Crash

Spec == Init /\ [][Next]_vars

(* A call in flight runs on, and the learner claims again and again. *)
Fairness ==
  /\ \A h \in Handlers : WF_vars(HandlerStep(h))
  /\ SF_vars(\E h \in Handlers : StartIssue(h))

FairSpec == Spec /\ Fairness

-----------------------------------------------------------------------------
(* Properties *)

(* Safety: whatever was in flight when a lesson was deleted, no row of the *)
(* learner outlives it, and there is none before the enrolment.            *)
NoOrphanRows ==
  /\ completed \subseteq lessons
  /\ attempted \subseteq lessons
  /\ passed \subseteq attempted
  /\ ~enrolled => completed = {} /\ attempted = {} /\ issued = None

(* Safety: however many claims race, at most one email is sent, and every  *)
(* notification names the certificate that verifies, whose PDF is there.   *)
ToldTheTruth ==
  /\ letters <= 1
  /\ letters = 1 => issued # None
  /\ notices \subseteq {issued}
  /\ issued # None => issued \in files

(* courseProgressStats, its statements with nothing in between: lessons    *)
(* completed, lessons of the course, those that are left to do.            *)
CourseProgressStats ==
  [done |-> Cardinality(completed), total |-> Cardinality(published),
   left |-> published \ completed]

(* Safety: in a course without drafts the progress never passes 100 %, and *)
(* it reaches 100 % exactly when no lesson is left, although the lessons   *)
(* completed are counted from other rows than the lessons that are left.   *)
StatsAgree ==
  LET stats == CourseProgressStats IN
  lessons = published => /\ stats.done <= stats.total
                         /\ stats.left = {} <=> stats.done = stats.total

(* What a call in flight relies on. *)
CallOK(h) ==
  LET c == call[h] IN
  /\ c.pc \notin {"idle", "enrol", "completed"} => enrolled
  /\ c.pc = "insert" => c.number \in files
  /\ c.pc \in {"mail", "notify"} => c.number = issued /\ issued # None
  /\ c.pc = "mail" => letters = 0

(* Only one call, the one that inserted the row, is about to send mail. *)
OneMailer == \A g, h \in Handlers : At(g, "mail") /\ At(h, "mail") => g = h

(* What a claim has read is so, as long as the course is not edited. *)
ReadsAreCurrent ==
  edits = 0 => \A h \in Handlers :
    /\ At(h, "completed") => call[h].required = Cardinality(published)
    /\ At(h, "gradebook") => call[h].asked = quizzes

(* The inductive invariant. *)
IInv ==
  /\ TypeOK
  /\ NoOrphanRows
  /\ ToldTheTruth
  /\ OneMailer
  /\ ReadsAreCurrent
  /\ StatsAgree
  /\ \A h \in Handlers : CallOK(h)

(* Action property: "a course is completed when every required lesson is   *)
(* complete AND every graded quiz has a passing gradebook row" (service.ts *)
(* of certificates).  In a course that is not edited and has no drafts, a  *)
(* claim gets past the lessons, and past the quizzes, only then.           *)
AsItWas == edits = 0 /\ lessons = published
Gated ==
  AsItWas => \A h \in Handlers :
    /\ At(h, "completed") /\ At(h, "quizzes")' => lessons \subseteq completed
    /\ At(h, "gradebook") /\ At(h, "existing")' => quizzes \subseteq passed
GatesHold == [][Gated]_vars

(* A certificate is given once, for good, and not before its PDF is there. *)
Programme == INSTANCE Award WITH stored <- files,
  told <- IF letters > 0 THEN notices \union {issued} ELSE notices
AwardSpec == Programme!Spec

(* "Persisted in lesson_progress, survives session expiry; video: complete *)
(* when max position >= 90 % of duration" (api-reference.md): a completed  *)
(* lesson that is still in the course stays completed.                     *)
CompletionPersists == [][completed \intersect lessons' \subseteq completed']_vars

(* Liveness: a learner who is, and stays, eligible and keeps claiming gets *)
(* the certificate, whatever earlier claims left behind.                   *)
Eligible == enrolled /\ lessons \subseteq completed /\ quizzes \subseteq passed
EligibleGetsCertificate == <>[]Eligible => <>(issued # None)
=============================================================================
