-------------------------------- MODULE Quiz --------------------------------
(***************************************************************************)
(* Graded quizzes, apps/api/src/modules/quizzes, for one learner and one   *)
(* quiz lesson: every query of the module is keyed by that pair, so pairs  *)
(* do not interact.  The attempts, the gradebook row and the lesson's      *)
(* progress row are in the database; the statements of a call are awaited  *)
(* one by one, with no transaction, and a learner may have several calls   *)
(* in flight (two tabs, a timer beside a click, a retry).                  *)
(*                                                                         *)
(* Answers are known by how many of the questions they get right, time by  *)
(* whether the moment that matters to an attempt has passed.               *)
(***************************************************************************)
EXTENDS Naturals, FiniteSets

CONSTANTS
  Handlers,      \* calls of the learner that may be in flight at once
  Questions,     \* questions of the quiz
  TimeLimit,     \* lessons.quiz_time_limit_minutes
  MaxAttempts,   \* lessons.quiz_max_attempts, 0 for unlimited
  HasCooldown,   \* is lessons.quiz_attempt_cooldown_minutes positive?
  MaxRows,       \* bound: attempts started
  MaxFaults      \* bound: process crashes

ASSUME QuizAssumption ==
  /\ Questions \in Nat \ {0}
  /\ TimeLimit \in Nat
  /\ MaxAttempts \in Nat
  /\ HasCooldown \in BOOLEAN
  /\ MaxRows \in Nat
  /\ MaxFaults \in Nat

Numbers == 1..MaxRows
Answers == 0..Questions
None    == 0

VARIABLES
  status,    \* quiz_attempts.status by attempt number; "none": no such row
  answers,   \* quiz_attempts.answers
  grade,     \* quiz_attempts.percent, in tenths
  elapsed,   \* attempts whose time limit (in progress) or cooldown (closed) has passed
  held,      \* attempts a page still shows, and can submit
  book,      \* the gradebook row: the attempt it names and its percent
  done,      \* lesson_progress.completed of the lesson
  call,      \* the calls in flight
  crossed,   \* history: have two calls ever been in flight at once?
  faults     \* crashes so far

attempts == <<status, answers, grade, elapsed>>
vars == <<status, answers, grade, elapsed, held, book, done, call, crossed, faults>>

Status == {"none", "in_progress", "submitted", "expired"}
Step   == {"idle", "sweep", "sweepBook", "insert", "mark", "book", "finish"}
Goal   == {"none", "look", "start", "submitted", "expired"}

Call == [pc : Step, goal : Goal, n : Numbers \union {None}, sent : Answers,
         stale : SUBSET (Numbers \X Answers)]
Idle == [pc |-> "idle", goal |-> "none", n |-> None, sent |-> 0, stale |-> {}]

(* Attempts, grades, the gradebook row and the calls have their types. *)
TypeOK ==
  /\ status \in [Numbers -> Status]
  /\ answers \in [Numbers -> Answers]
  /\ grade \in [Numbers -> Nat]
  /\ elapsed \in SUBSET Numbers
  /\ held \in SUBSET Numbers
  /\ book \in [attempt : Numbers \union {None}, percent : Nat]
  /\ done \in BOOLEAN
  /\ call \in [Handlers -> Call]
  /\ crossed \in BOOLEAN
  /\ faults \in 0..MaxFaults

Init ==
  /\ status = [n \in Numbers |-> "none"]
  /\ answers = [n \in Numbers |-> 0]
  /\ grade = [n \in Numbers |-> 0]
  /\ elapsed = {}
  /\ held = {}
  /\ book = [attempt |-> None, percent |-> 0]
  /\ done = FALSE
  /\ call = [h \in Handlers |-> Idle]
  /\ crossed = FALSE
  /\ faults = 0

-----------------------------------------------------------------------------
(* Helpers *)

(* gradeQuizSnapshot: Math.round((right / questions) * 1000), in tenths. *)
Percent(right) == (2000 * right + Questions) \div (2 * Questions)

Timed == TimeLimit \in {15, 30, 60, 90, 120}
Overdue(n) == status[n] = "in_progress" /\ Timed /\ n \in elapsed
Taken == {n \in Numbers : status[n] # "none"}

IsIdle(h) == call[h].pc = "idle"
At(h, step) == call[h].pc = step
Goto(h, step) == call' = [call EXCEPT ![h].pc = step]
Return(h) == call' = [call EXCEPT ![h] = Idle]
Begin(h, c) ==
  /\ call' = [call EXCEPT ![h] = c]
  /\ crossed' = (crossed \/ \E k \in Handlers \ {h} : ~IsIdle(k))

(* An UPDATE by id closes the attempt with a grade and a new submittedAt. *)
CloseAs(n, result, right) ==
  /\ status' = [status EXCEPT ![n] = result]
  /\ grade' = [grade EXCEPT ![n] = Percent(right)]
  /\ elapsed' = elapsed \ {n}

(* upsertGradebook: one row per learner and lesson, the last writer wins. *)
UpsertGradebook(n, right) == book' = [attempt |-> n, percent |-> Percent(right)]

-----------------------------------------------------------------------------
(* getQuizStatus and startQuizAttempt: both first finalise what is overdue *)

Mutant_Stale_NotInProgress == {<<n, answers[n]>> : n \in {m \in Taken : Timed /\ m \in elapsed}}
Mutant_Stale_Nothing == {}

(* finaliseExpiredAttempts reads the overdue attempts, with their answers. *)
Stale == {<<n, answers[n]>> : n \in {m \in Taken : Overdue(m)}}

Request(h, goal) ==
  /\ IsIdle(h)
  /\ Begin(h, [Idle EXCEPT !.pc = "sweep", !.goal = goal, !.stale = Stale])
  /\ UNCHANGED <<attempts, held, book, done, faults>>

GetStatus(h) == Request(h, "look")
StartAttempt(h) == Request(h, "start")

(* Each of them is then graded on the answers read and closed, whatever    *)
(* became of it since ...                                                  *)
SweepUpdate(h) ==
  /\ At(h, "sweep")
  /\ \E s \in call[h].stale :
       /\ CloseAs(s[1], "expired", s[2])
       /\ call' = [call EXCEPT ![h].pc = "sweepBook", ![h].n = s[1], ![h].sent = s[2],
                               ![h].stale = @ \ {s}]
  /\ UNCHANGED <<answers, held, book, done, crossed, faults>>

(* ... and its grade entered. *)
SweepBook(h) ==
  /\ At(h, "sweepBook")
  /\ UpsertGradebook(call[h].n, call[h].sent)
  /\ Goto(h, "sweep")
  /\ UNCHANGED <<attempts, held, done, crossed, faults>>

StatusRead(h) ==
  /\ At(h, "sweep") /\ call[h].stale = {} /\ call[h].goal = "look"
  /\ Return(h)
  /\ UNCHANGED <<attempts, held, book, done, crossed, faults>>

Mutant_MayStart_LimitOff ==
  LET used == Cardinality(Taken) IN
  /\ MaxAttempts = 0 \/ used <= MaxAttempts
  /\ \A n \in Taken : (\A m \in Taken : m <= n) =>
       status[n] # "in_progress" /\ (HasCooldown => n \in elapsed)

(* The limit, and the latest attempt: closed, and its cooldown over. *)
MayStart ==
  LET used == Cardinality(Taken) IN
  /\ MaxAttempts = 0 \/ used < MaxAttempts
  /\ \A n \in Taken : (\A m \in Taken : m <= n) =>
       status[n] # "in_progress" /\ (HasCooldown => n \in elapsed)

ListAttempts(h) ==
  /\ At(h, "sweep") /\ call[h].stale = {} /\ call[h].goal = "start"
  /\ IF MayStart /\ Cardinality(Taken) < MaxRows
       THEN call' = [call EXCEPT ![h].pc = "insert", ![h].n = Cardinality(Taken) + 1]
       ELSE Return(h)
  /\ UNCHANGED <<attempts, held, book, done, crossed, faults>>

(* The row is inserted and its questions answered to the page, or UNIQUE   *)
(* (user, lesson, attempt_number) refuses it and the call throws.          *)
InsertAttempt(h) ==
  /\ At(h, "insert")
  /\ LET n == call[h].n IN
       IF status[n] = "none"
         THEN /\ status' = [status EXCEPT ![n] = "in_progress"]
              /\ held' = held \union {n}
         ELSE UNCHANGED <<status, held>>
  /\ Return(h)
  /\ UNCHANGED <<answers, grade, elapsed, book, done, crossed, faults>>

-----------------------------------------------------------------------------
(* submitQuizAttempt *)

(* Reads the attempt.  Only a submitted one is answered from the record;   *)
(* one already closed as expired is taken as if it were in time.           *)
Submit(h, n, right) ==
  /\ IsIdle(h)
  /\ n \in held
  /\ status[n] \in {"in_progress", "expired"}
  /\ Begin(h, [Idle EXCEPT !.pc = "mark", !.n = n, !.sent = right,
                           !.goal = IF Overdue(n) THEN "expired" ELSE "submitted"])
  /\ UNCHANGED <<attempts, held, book, done, faults>>

SubmitAgain(n) ==
  /\ n \in held /\ status[n] = "submitted"
  /\ held' = held \ {n}
  /\ UNCHANGED <<attempts, book, done, call, crossed, faults>>

MarkSubmitted(h) ==
  /\ At(h, "mark")
  /\ CloseAs(call[h].n, call[h].goal, call[h].sent)
  /\ answers' = [answers EXCEPT ![call[h].n] = call[h].sent]
  /\ Goto(h, "book")
  /\ UNCHANGED <<held, book, done, crossed, faults>>

Mutant_EnterGrade_BestOnly(h) ==
  /\ At(h, "book")
  /\ IF Percent(call[h].sent) > book.percent
       THEN UpsertGradebook(call[h].n, call[h].sent) ELSE UNCHANGED book
  /\ Goto(h, "finish")
  /\ UNCHANGED <<attempts, held, done, crossed, faults>>

Mutant_EnterGrade_Only(h) ==
  /\ At(h, "book")
  /\ UpsertGradebook(call[h].n, call[h].sent)
  /\ held' = held \ {call[h].n}
  /\ Return(h)
  /\ UNCHANGED <<attempts, done, crossed, faults>>

EnterGrade(h) ==
  /\ At(h, "book")
  /\ UpsertGradebook(call[h].n, call[h].sent)
  /\ Goto(h, "finish")
  /\ UNCHANGED <<attempts, held, done, crossed, faults>>

(* markQuizLessonComplete, and the result replaces the attempt on the page. *)
CompleteLesson(h) ==
  /\ At(h, "finish")
  /\ done' = TRUE
  /\ held' = held \ {call[h].n}
  /\ Return(h)
  /\ UNCHANGED <<attempts, book, crossed, faults>>

-----------------------------------------------------------------------------
(* The world around the module *)

TimePasses(n) ==
  /\ n \notin elapsed
  /\ status[n] # "none"
  /\ IF status[n] = "in_progress" THEN Timed ELSE HasCooldown
  /\ elapsed' = elapsed \union {n}
  /\ UNCHANGED <<status, answers, grade, held, book, done, call, crossed, faults>>

(* A page is left or reloaded: no route gives an attempt's questions again. *)
LeavePage(n) ==
  /\ n \in held
  /\ held' = held \ {n}
  /\ UNCHANGED <<attempts, book, done, call, crossed, faults>>

(* The API process dies and comes back: the calls in flight are gone.  A   *)
(* page whose call failed keeps its attempt and may submit it again.       *)
Crash ==
  /\ faults < MaxFaults
  /\ \E h \in Handlers : ~IsIdle(h)
  /\ call' = [h \in Handlers |-> Idle]
  /\ faults' = faults + 1
  /\ UNCHANGED <<attempts, held, book, done, crossed>>

-----------------------------------------------------------------------------
HandlerStep(h) ==
  \/ SweepUpdate(h) \/ SweepBook(h) \/ StatusRead(h) \/ ListAttempts(h) \/ InsertAttempt(h)
  \/ MarkSubmitted(h) \/ EnterGrade(h) \/ CompleteLesson(h)

Incoming(h) ==
  \/ GetStatus(h) \/ StartAttempt(h)
  \/ \E n \in Numbers, right \in Answers : Submit(h, n, right)

World ==
  \/ \E n \in Numbers : SubmitAgain(n) \/ TimePasses(n) \/ LeavePage(n)
  \/ Crash

Next == (\E h \in Handlers : Incoming(h) \/ HandlerStep(h)) \/ World

Spec == Init /\ [][Next]_vars

(* A call in flight runs on, time goes by, and the learner comes back to   *)
(* the quiz, whose page asks for the status when it is loaded.             *)
Fairness ==
  /\ \A h \in Handlers : WF_vars(HandlerStep(h))
  /\ \A n \in Numbers : WF_vars(TimePasses(n))
  /\ SF_vars(\E h \in Handlers : GetStatus(h))

FairSpec == Spec /\ Fairness

-----------------------------------------------------------------------------
(* Properties *)

Closed(n) == status[n] \in {"submitted", "expired"}

(* Safety: however many tabs start attempts at once, at most one attempt   *)
(* is in progress, numbers have no gap, and the limit is kept.             *)
OneInProgress ==
  \A m, n \in Numbers : status[m] = "in_progress" /\ status[n] = "in_progress" => m = n
NoGaps == \E k \in 0..MaxRows : Taken = 1..k
OnlyLastOpen == \A n \in Taken : n + 1 \in Taken => Closed(n)
AttemptLimit == MaxAttempts > 0 => Taken \subseteq 1..MaxAttempts

(* What a call in flight relies on. *)
CallOK(h) ==
  LET c == call[h] IN
  /\ c.pc \in {"sweepBook", "mark", "book", "finish"} => c.n \in Taken
  /\ c.pc \in {"sweepBook", "book", "finish"} => Closed(c.n)
  /\ c.pc = "mark" => c.goal \in {"submitted", "expired"}
  /\ \A s \in c.stale : s[1] \in Taken
  /\ c.pc = "insert" =>
       /\ c.n \in Numbers
       /\ \A m \in 1..(c.n - 1) : Closed(m)
       /\ MaxAttempts > 0 => c.n <= MaxAttempts

(* The gradebook names an attempt that was graded, and only a graded quiz  *)
(* completes its lesson.                                                   *)
BookIsGraded ==
  /\ book.attempt # None => Closed(book.attempt)
  /\ done => \E n \in Numbers : Closed(n)

(* The inductive invariant. *)
IInv ==
  /\ TypeOK
  /\ NoGaps /\ OnlyLastOpen /\ AttemptLimit
  /\ BookIsGraded
  /\ held \subseteq Taken
  /\ \A h \in Handlers : CallOK(h)

(* Action property: a row once inserted stays, and a closed attempt is     *)
(* never in progress again.                                                *)
Kept ==
  \A n \in Numbers :
    /\ status[n] # "none" => status'[n] # "none"
    /\ Closed(n) => Closed(n)'
ClosedForGood == [][Kept]_vars

(* The quiz implements what Attempts promises. *)
A == INSTANCE Attempts WITH Limit <- MaxAttempts, taken <- Taken,
       open <- {n \in Numbers : status[n] = "in_progress"}
AttemptsSpec == A!Spec

(* Safety, as long as no two calls of the learner ever overlapped: the     *)
(* grade of a closed attempt is the grade of the answers kept with it.     *)
GradeIsEarned ==
  ~crossed => \A n \in Numbers : Closed(n) => grade[n] = Percent(answers[n])

(* Safety, in the same circumstances and without a crash: between calls,   *)
(* the gradebook says what the attempt it names says.                      *)
BookAgrees ==
  ~crossed /\ faults = 0 /\ (\A h \in Handlers : IsIdle(h)) =>
    \/ book.attempt = None /\ \A n \in Numbers : ~Closed(n)
    \/ book.attempt # None /\ book.percent = grade[book.attempt]

(* Of grades: they are earned, and the gradebook has them.                 *)
GradesInv == GradeIsEarned /\ BookAgrees

(* Action property, in the same circumstances: what was submitted in time  *)
(* is not graded again.                                                    *)
SubmittedIsFinal ==
  [][~crossed' => \A n \in Numbers : status[n] = "submitted" =>
        status'[n] = "submitted" /\ grade'[n] = grade[n]]_vars

(* "Auto-submit any in_progress attempt past its expiry" (service.ts) and  *)
(* "server-side auto-submit of stale attempts" (api-reference.md): an      *)
(* attempt that was auto-submitted at its expiry stays so.                 *)
ExpiredIsFinal ==
  [][\A n \in Numbers : status[n] = "expired" => status'[n] = "expired"]_vars

(* Liveness: a timed attempt does not stay in progress for ever, even if   *)
(* its page is gone.                                                       *)
TimedAttemptCloses ==
  \A n \in Numbers : (Timed /\ status[n] = "in_progress") ~> Closed(n)

(* Liveness: "quiz submission auto-completes the lesson"                   *)
(* (api-reference.md), unless the process crashed.                         *)
SubmissionCompletesLesson ==
  \A n \in Numbers : (status[n] = "submitted") ~> (done \/ faults > 0)
=============================================================================
