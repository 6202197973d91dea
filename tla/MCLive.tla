------------------------------- MODULE MCLive -------------------------------
(* What must happen in the end: for a learner who pays, takes a quiz and   *)
(* claims a certificate, and for the work that outlives the request that   *)
(* asks for it.  The components share no state and are explored next to    *)
(* each other: `moves' names the one a behaviour is about, and the others  *)
(* stay as they are at the start.                                          *)
EXTENDS Naturals, FiniteSets

CONSTANT Handlers   \* calls that may be in flight at once

VARIABLES
  moves,
  mode, heard, orderStatus, buyer, via, charge, access, receipts, orderCall, orderFaults,
  attemptStatus, answers, grade, elapsed, held, book, done, quizCall, crossed, quizFaults,
  lessons, published, quizzes, enrolled, completed, attempted, passed,
  issued, files, letters, notices, learnCall, edits, learnFaults,
  job, driver, assetStatus, parts, stored, opened, rewritten, source, lesson, rendition, jobs,
  videoCall, worker, overlapped, videoFaults,
  copies, overdue, ended, bundles, fetch, tangled, hitches,
  bulkJobs, bulkRows, roster, runner, meddled, accidents

paymentVars ==
  <<mode, heard, orderStatus, buyer, via, charge, access, receipts, orderCall, orderFaults>>
quizVars ==
  <<attemptStatus, answers, grade, elapsed, held, book, done, quizCall, crossed, quizFaults>>
courseVars ==
  <<lessons, published, quizzes, enrolled, completed, attempted, passed,
    issued, files, letters, notices, learnCall, edits, learnFaults>>
workVars ==
  <<job, driver, assetStatus, parts, stored, opened, rewritten, source, lesson, rendition, jobs,
    videoCall, worker, overlapped, videoFaults,
    copies, overdue, ended, bundles, fetch, tangled, hitches,
    bulkJobs, bulkRows, roster, runner, meddled, accidents>>
vars == <<moves, paymentVars, quizVars, courseVars, workVars>>

(* The sets the instances are given, named so that TLC evaluates them once. *)
LiveLearners  == {"amina"}
LiveCourses   == {"stats"}
LiveProviders == {"stripe", "mpesa", "paypal", "mock"}
LiveLessons   == {"l1"}
LiveNumbers   == {"n1", "n2", "n3"}
LiveAssets    == {"a1"}
LiveParts     == {1}
LiveWorkers   == {"w1"}
LiveCopies    == {"c1"}
LiveActive    == {"amina", "baraka"}
LiveEmails    == LiveActive \union {"nobody"}
LiveJobs      == {"j1"}

(* One learner, one priced course, one order; what the property excepts (a *)
(* crash, a provider's answer lost) is left out.                           *)
Payments == INSTANCE Checkout WITH
  Learners <- LiveLearners, Courses <- LiveCourses,
  Providers <- LiveProviders, MaxOrders <- 1, MaxFaults <- 0,
  status <- orderStatus, call <- orderCall, faults <- orderFaults

(* One attempt at a timed quiz of two questions. *)
Quizzes == INSTANCE Quiz WITH
  Questions <- 2, TimeLimit <- 15, MaxAttempts <- 0, HasCooldown <- FALSE, MaxRows <- 1,
  MaxFaults <- 1, status <- attemptStatus, call <- quizCall, faults <- quizFaults

(* A course of at most one published lesson, no quiz; each of two calls    *)
(* may leave a number behind in a crash.                                   *)
Courses == INSTANCE Learning WITH
  Lessons <- LiveLessons, Numbers <- LiveNumbers, None <- "none", MaxEdits <- 0,
  MaxFaults <- 1, call <- learnCall, faults <- learnFaults

(* One upload in one part with one worker, one offline copy, one bulk job  *)
(* of two lines; what the properties except (crashes, failures) is left    *)
(* out.                                                                    *)
Behind == INSTANCE Work WITH
  Assets <- LiveAssets, Parts <- LiveParts, Workers <- LiveWorkers, None <- "none", MaxFaults <- 0,
  Copies <- LiveCopies, MaxHitches <- 0,
  Emails <- LiveEmails, Active <- LiveActive, Jobs <- LiveJobs,
  MaxLines <- 2, MaxAccidents <- 0,
  moves <- job, status <- assetStatus, call <- videoCall, faults <- videoFaults

Init ==
  /\ moves \in {"payments", "quizzes", "courses", "work"}
  /\ moves = "payments" \/ mode = "mock"
  /\ moves = "work" \/ (job = "bulk" /\ driver = "local")
  /\ Payments!Init /\ Quizzes!Init /\ Courses!Init /\ Behind!WorkInit
  /\ published = lessons /\ quizzes = {}
  /\ moves = "courses" \/ lessons = {}

PaymentMoves == moves = "payments" /\ UNCHANGED <<moves, quizVars, courseVars, workVars>>
QuizMoves    == moves = "quizzes" /\ UNCHANGED <<moves, paymentVars, courseVars, workVars>>
CourseMoves  == moves = "courses" /\ UNCHANGED <<moves, paymentVars, quizVars, workVars>>
WorkMoves    == moves = "work" /\ UNCHANGED <<moves, paymentVars, quizVars, courseVars>>

Next ==
  \/ PaymentMoves /\ Payments!Next
  \/ QuizMoves /\ Quizzes!Next
  \/ CourseMoves /\ Courses!Next
  \/ WorkMoves /\ Behind!WorkNext

(* The fairness of each component, put together: `moves' never changes, so *)
(* that a behaviour is fair here when it is fair for its component.  A     *)
(* call in flight runs on ...                                              *)
CallRuns(h) ==
  \/ PaymentMoves /\ Payments!HandlerStep(h)
  \/ QuizMoves /\ Quizzes!HandlerStep(h)
  \/ CourseMoves /\ Courses!HandlerStep(h)
  \/ WorkMoves /\ Behind!CallRuns(h)

(* ... and so do the worker, which polls, and the bulk job.                *)
WorkerRuns == WorkMoves /\ Behind!WorkerRuns("w1")
JobRuns == WorkMoves /\ Behind!JobRuns("j1")

(* ... Stripe and PayPal send a webhook again until it is answered, the    *)
(* quiz page asks for the status, a learner claims again and again ...     *)
Retried ==
  \/ PaymentMoves /\ \E h \in Handlers : Payments!Webhook(h, 1, "paid") /\ via[1] = "stripe"
  \/ QuizMoves /\ \E h \in Handlers : Quizzes!GetStatus(h)
  \/ CourseMoves /\ \E h \in Handlers : Courses!StartIssue(h)

(* ... the checkout page polls, and the time of an attempt goes by.        *)
Polled ==
  \/ PaymentMoves /\ \E h \in Handlers : Payments!StartPoll(h, 1)
  \/ QuizMoves /\ Quizzes!TimePasses(1)

Fairness ==
  /\ \A h \in Handlers : WF_vars(CallRuns(h))
  /\ WF_vars(WorkerRuns) /\ WF_vars(JobRuns)
  /\ SF_vars(Retried)
  /\ SF_vars(Polled)

FairSpec == Init /\ [][Next]_vars /\ Fairness

-----------------------------------------------------------------------------
(* Properties, each as its module states it. *)

(* A payment taken leads to access to the course.                          *)
PaidLeadsToAccess == Payments!PaidLeadsToAccess

(* A timed attempt closes.                                                 *)
TimedAttemptCloses == Quizzes!TimedAttemptCloses

(* A submitted quiz completes its lesson.                                  *)
SubmissionCompletesLesson == Quizzes!SubmissionCompletesLesson

(* Who stays eligible gets a certificate.                                  *)
EligibleGetsCertificate == Courses!EligibleGetsCertificate

(* A queued upload gets ready or failed.                                   *)
QueuedSettles == Behind!QueuedSettles

(* A copy asked for gets ready or is cancelled.                            *)
CopiesGetReady == Behind!Downloads!CopiesGetReady

=============================================================================
