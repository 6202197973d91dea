-------------------------------- MODULE Seed --------------------------------
(***************************************************************************)
(* The seed script (apps/api/src/seed/run.ts), run again over a platform   *)
(* in use.  It makes the instructor's account, syncs one course with its   *)
(* file (a module, then lesson by lesson, keyed by position), replaces the *)
(* questions of each lesson (a delete, then insert by insert), and makes   *)
(* the accounts of the demo learner and the administrator.  No statement   *)
(* shares a transaction with another: authors edit and learners start      *)
(* attempts in between, a run may die, and two runs may overlap.           *)
(***************************************************************************)
EXTENDS Integers, FiniteSets, FiniteSetsExt, Functions

CONSTANTS
  Size,       \* lessons in the course's file, at positions 1..Size
  Quizzes,    \* those with questions in the file
  Questions,  \* questions of each, 1..Questions
  Runs,       \* runs of the script that may overlap
  MaxRuns,    \* bound: runs
  MaxChanges, \* bound: changes by an author
  MaxDeaths   \* bound: runs killed

VARIABLES
  people,     \* the seeded accounts that exist
  course,     \* courses: is it there, and has it its instructor?
  chapter,    \* modules: is the module there?
  lesson,     \* lessons by position: whose text it has
  bank,       \* quiz_questions: rows of each question
  run,        \* the runs
  paper,      \* the questions of the attempt started last
  abreast,    \* history: have two runs ever overlapped?
  runs, tweaks, deaths   \* runs, changes and deaths so far

bounds == <<abreast, runs, tweaks, deaths>>
rows == <<people, course, chapter, lesson, bank>>
vars == <<rows, run, paper, bounds>>

Positions == 1..(Size + 1)     \* the file's, and one an author adds
Seeded == {"instructor", "demo", "admin"}
Step == {"idle", "seek", "account", "course", "create", "link", "module", "lesson", "wipe",
         "question", "done"}

(* A run: the account, position and question it is at; has the row of the  *)
(* module, or of the lesson, that it upserted been deleted since; a change *)
(* by an author since its start?                                           *)
Run == [pc : Step, who : Seeded, at : Positions, q : 1..(Questions + 1), loose : BOOLEAN,
        gone : BOOLEAN, disturbed : BOOLEAN]
Idle == [pc |-> "idle", who |-> "instructor", at |-> 1, q |-> 1, loose |-> FALSE,
         gone |-> FALSE, disturbed |-> FALSE]
Empty == [q \in 1..Questions |-> 0]

(* Rows, runs and the attempt have their types. *)
TypeOK ==
  /\ people \in SUBSET Seeded
  /\ course \in {"none", "orphan", "owned"}
  /\ chapter \in BOOLEAN
  /\ lesson \in [Positions -> {"none", "seed", "author"}]
  /\ bank \in [Positions -> [1..Questions -> Nat]]
  /\ run \in [Runs -> Run]
  /\ paper \in [questions : [1..Questions -> Nat], quiet : BOOLEAN, none : BOOLEAN]
  /\ abreast \in BOOLEAN
  /\ runs \in 0..MaxRuns /\ tweaks \in 0..MaxChanges /\ deaths \in 0..MaxDeaths

Init ==
  /\ people = {} /\ course = "none" /\ chapter = FALSE
  /\ lesson = [p \in Positions |-> "none"]
  /\ bank = [p \in Positions |-> Empty]
  /\ run = [r \in Runs |-> Idle]
  /\ paper = [questions |-> Empty, quiet |-> FALSE, none |-> TRUE]
  /\ abreast = FALSE
  /\ runs = 0 /\ tweaks = 0 /\ deaths = 0

-----------------------------------------------------------------------------
(* Helpers *)

At(r, step) == run[r].pc = step
Goto(r, step) == run' = [run EXCEPT ![r].pc = step]
Running(r) == run[r].pc \notin {"idle", "done"}

(* A statement fails (a unique key, a foreign key): the script logs it and *)
(* exits.                                                                  *)
Fail(r) == run' = [run EXCEPT ![r] = Idle]

(* After an account: the course, the next account, or the end.             *)
AfterAccount(who) ==
  CASE who = "instructor" -> [pc |-> "course", who |-> "demo"]
    [] who = "demo"       -> [pc |-> "seek", who |-> "admin"]
    [] OTHER              -> [pc |-> "done", who |-> "admin"]

(* After a lesson: the next one, or the accounts that are left.            *)
NextLesson(r) ==
  IF run[r].at < Size
    THEN run' = [run EXCEPT ![r].pc = "lesson", ![r].at = @ + 1, ![r].q = 1]
    ELSE Goto(r, "seek")

-----------------------------------------------------------------------------
(* main *)

Start(r) ==
  /\ ~Running(r) /\ runs < MaxRuns
  /\ run' = [run EXCEPT ![r] = [Idle EXCEPT !.pc = "seek"]]
  /\ abreast' = (abreast \/ \E o \in Runs \ {r} : Running(o))
  /\ runs' = runs + 1
  /\ UNCHANGED <<rows, paper, tweaks, deaths>>

(* seedInstructorUsers, seedDemoUser, seedAdminUser: an account that is    *)
(* there is left as it is.                                                 *)
SeekAccount(r) ==
  LET next == AfterAccount(run[r].who) IN
  /\ At(r, "seek")
  /\ IF run[r].who \in people
       THEN run' = [run EXCEPT ![r].pc = next.pc, ![r].who = next.who]
       ELSE Goto(r, "account")
  /\ UNCHANGED <<rows, paper, bounds>>

InsertAccount(r) ==
  LET next == AfterAccount(run[r].who) IN
  /\ At(r, "account")
  /\ IF run[r].who \in people
       THEN Fail(r) /\ UNCHANGED people
       ELSE /\ people' = people \union {run[r].who}
            /\ run' = [run EXCEPT ![r].pc = next.pc, ![r].who = next.who]
  /\ UNCHANGED <<course, chapter, lesson, bank, paper, bounds>>

(* seedCourses: the course by its slug, and its instructor by their email. *)
SeekCourse(r) ==
  /\ At(r, "course")
  /\ Goto(r, IF course = "none" THEN "create" ELSE "link")
  /\ UNCHANGED <<rows, paper, bounds>>

LinkInstructor(r) ==
  /\ At(r, "link")
  /\ course' = IF "instructor" \in people THEN "owned" ELSE course
  /\ Goto(r, "module")
  /\ UNCHANGED <<people, chapter, lesson, bank, paper, bounds>>

InsertCourse(r) ==
  /\ At(r, "create")
  /\ IF course # "none"
       THEN Fail(r) /\ UNCHANGED course
       ELSE /\ course' = IF "instructor" \in people THEN "owned" ELSE "orphan"
            /\ Goto(r, "module")
  /\ UNCHANGED <<people, chapter, lesson, bank, paper, bounds>>

UpsertModule(r) ==
  /\ At(r, "module")
  /\ chapter' = TRUE
  /\ run' = [run EXCEPT ![r].pc = "lesson", ![r].loose = FALSE]
  /\ UNCHANGED <<people, course, lesson, bank, paper, bounds>>

(* The lesson at the position, whoever wrote it, gets the text of the file.*)
(* Its module must still be there.                                         *)
UpsertLesson(r) ==
  LET p == run[r].at IN
  /\ At(r, "lesson")
  /\ IF run[r].loose
       THEN Fail(r) /\ UNCHANGED lesson
       ELSE /\ lesson' = [lesson EXCEPT ![p] = "seed"]
            /\ IF p \in Quizzes
                 THEN run' = [run EXCEPT ![r].pc = "wipe", ![r].gone = FALSE]
                 ELSE NextLesson(r)
  /\ UNCHANGED <<people, course, chapter, bank, paper, bounds>>

Mutant_DeleteQuestions_Skip(r) ==
  /\ At(r, "wipe")
  /\ Goto(r, "question")
  /\ UNCHANGED <<rows, paper, bounds>>

(* All questions of the lesson's row go (none, when the row is gone).      *)
DeleteQuestions(r) ==
  /\ At(r, "wipe")
  /\ bank' = IF run[r].gone THEN bank ELSE [bank EXCEPT ![run[r].at] = Empty]
  /\ Goto(r, "question")
  /\ UNCHANGED <<people, course, chapter, lesson, paper, bounds>>

(* One question after the other; nothing but the lesson's row is required. *)
InsertQuestion(r) ==
  LET c == run[r] IN
  /\ At(r, "question") /\ c.q <= Questions
  /\ IF c.gone
       THEN Fail(r) /\ UNCHANGED bank
       ELSE /\ bank' = [bank EXCEPT ![c.at][c.q] = @ + 1]
            /\ run' = [run EXCEPT ![r].q = @ + 1]
  /\ UNCHANGED <<people, course, chapter, lesson, paper, bounds>>

LastQuestion(r) ==
  /\ At(r, "question") /\ run[r].q > Questions
  /\ NextLesson(r)
  /\ UNCHANGED <<rows, paper, bounds>>

Die(r) ==
  /\ Running(r) /\ deaths < MaxDeaths
  /\ deaths' = deaths + 1
  /\ Fail(r)
  /\ UNCHANGED <<rows, paper, abreast, runs, tweaks>>

-----------------------------------------------------------------------------
(* Meanwhile: authors *)

(* A change by an author, while the rows of the lessons in lost go.        *)
Change(lost) ==
  /\ tweaks < MaxChanges /\ course # "none"
  /\ tweaks' = tweaks + 1
  /\ bank' = [p \in Positions |-> IF p \in lost THEN Empty ELSE bank[p]]
  /\ run' = [r \in Runs |-> IF Running(r)
                              THEN [run[r] EXCEPT !.loose = @ \/ lost = Positions,
                                                  !.gone = @ \/ run[r].at \in lost,
                                                  !.disturbed = TRUE]
                              ELSE run[r]]
  /\ UNCHANGED <<people, course, paper, abreast, runs, deaths>>

UpdateLesson(p) ==
  /\ lesson[p] # "none"
  /\ Change({})
  /\ lesson' = [lesson EXCEPT ![p] = "author"]
  /\ UNCHANGED chapter

(* nextLessonPosition: after the last. *)
AddLesson ==
  LET p == 1 + Max({0} \union {q \in Positions : lesson[q] # "none"}) IN
  /\ p \in Positions /\ chapter
  /\ Change({})
  /\ lesson' = [lesson EXCEPT ![p] = "author"]
  /\ UNCHANGED chapter

DeleteLesson(p) ==
  /\ lesson[p] # "none"
  /\ Change({p})
  /\ lesson' = [lesson EXCEPT ![p] = "none"]
  /\ UNCHANGED chapter

(* With its lessons, by the cascade of the foreign key.                    *)
DeleteModule ==
  /\ chapter
  /\ Change(Positions)
  /\ chapter' = FALSE
  /\ lesson' = [p \in Positions |-> "none"]

(* A learner starts an attempt at a quiz of the file: its questions are    *)
(* those that are there.                                                   *)
StartAttempt(p) ==
  /\ p \in Quizzes /\ lesson[p] = "seed"
  /\ paper' = [questions |-> bank[p], quiet |-> (\A r \in Runs : ~Running(r)) /\ deaths = 0,
               none |-> FALSE]
  /\ UNCHANGED <<rows, run, bounds>>

-----------------------------------------------------------------------------
RunStep(r) ==
  \/ SeekAccount(r) \/ InsertAccount(r) \/ SeekCourse(r) \/ LinkInstructor(r) \/ InsertCourse(r)
  \/ UpsertModule(r) \/ UpsertLesson(r) \/ DeleteQuestions(r) \/ InsertQuestion(r)
  \/ LastQuestion(r)

Next ==
  \/ \E r \in Runs : Start(r) \/ RunStep(r) \/ Die(r)
  \/ \E p \in Positions : UpdateLesson(p) \/ DeleteLesson(p) \/ StartAttempt(p)
  \/ AddLesson \/ DeleteModule

Spec == Init /\ [][Next]_vars

-----------------------------------------------------------------------------
(* Properties *)

Whole(questions) == \A q \in 1..Questions : questions[q] = 1

(* As long as runs do not overlap, no question is ever there twice,        *)
(* however often runs died in the middle.                                  *)
NoQuestionTwice ==
  ~abreast => \A p \in Positions, q \in 1..Questions : bank[p][q] <= 1

(* A run that came to its end, alone and undisturbed, has repaired what    *)
(* earlier ones left: every lesson of the file is its own again, with its  *)
(* questions, the course has its instructor and the accounts are there.    *)
DoneIsSynced ==
  ~abreast => \A r \in Runs :
    /\ At(r, "seek") /\ run[r].who # "instructor" /\ ~run[r].disturbed =>
         /\ course = "owned"
         /\ \A p \in 1..Size : lesson[p] = "seed"
         /\ \A p \in Quizzes : Whole(bank[p])
    /\ At(r, "done") => people = Seeded

(* "Attempts store their own snapshot, so this is safe": yes for attempts  *)
(* started before a run and after it, as long as runs neither overlap nor  *)
(* die; but not for one started while a run is replacing the questions.    *)
SnapshotsAreWhole == ~abreast /\ paper.quiet /\ ~paper.none => Whole(paper.questions)

(* What they rest on.  One run at a time, as long as runs do not overlap.  *)
Alone == ~abreast => \A r, o \in Runs : Running(r) /\ Running(o) => r = o

(* A run knows what it has done: accounts made, the course linked; and, as *)
(* long as it is alone, the lessons it has synced, if no author came by,   *)
(* and the questions it has inserted, if their lesson is still there.      *)
Later(c) == c.pc \in {"seek", "account"} /\ c.who # "instructor"
Synced(p) == lesson[p] = "seed" /\ (p \in Quizzes => Whole(bank[p]))
RunOK(r) ==
  LET c == run[r] IN
  /\ c.at <= Size /\ (c.loose \/ c.gone => c.disturbed)
  /\ c.pc \in {"course", "create", "link", "module"} => c.at = 1
  /\ c.pc \in {"course", "create", "link", "module", "lesson", "wipe"} => c.q = 1
  /\ c.pc \in {"seek", "account"} /\ c.who = "instructor" => c.at = 1 /\ c.q = 1
  /\ c.pc \in {"course", "create", "link", "module", "lesson", "wipe", "question"} =>
       c.who = "demo"
  /\ Running(r) => /\ c.who # "instructor" => "instructor" \in people
                   /\ c.who = "admin" => "demo" \in people
  /\ c.pc = "done" => people = Seeded
  /\ c.pc \in {"module", "lesson", "wipe", "question"} \/ Later(c) => course = "owned"
  /\ ~abreast =>
       /\ c.pc \in {"lesson", "wipe", "question"} /\ ~c.disturbed =>
            \A p \in 1..(c.at - 1) : Synced(p)
       /\ Later(c) /\ ~c.disturbed => \A p \in 1..Size : Synced(p)
       /\ c.pc \in {"wipe", "question"} => /\ ~c.disturbed => lesson[c.at] = "seed"
                                           /\ c.gone => lesson[c.at] # "seed"
       /\ c.pc = "question" /\ ~c.gone =>
            \A q \in 1..Questions : bank[c.at][q] = IF q < c.q THEN 1 ELSE 0

(* A lesson whose text is the file's has its questions, or a run is at it. *)
Settled ==
  ~abreast /\ deaths = 0 =>
    \A p \in Quizzes : lesson[p] = "seed" =>
      Whole(bank[p]) \/ \E r \in Runs : run[r].pc \in {"wipe", "question"} /\ run[r].at = p

(* The seed script's invariant: types, no question twice, repaired         *)
(* courses, whole snapshots; with what they rest on, it is inductive.      *)
SeedInv ==
  /\ TypeOK /\ NoQuestionTwice /\ DoneIsSynced /\ SnapshotsAreWhole
  /\ Alone /\ Settled /\ \A r \in Runs : RunOK(r)
=============================================================================
