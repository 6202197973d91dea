--------------------------- MODULE LearningProofs ---------------------------
(***************************************************************************)
(* What Learning guarantees for any number of lessons, concurrent calls,   *)
(* certificate numbers, edits of the course and crashes.                   *)
(***************************************************************************)
EXTENDS Learning, FiniteSetTheorems, TLAPS

USE LearningAssumption

LEMMA StepNames ==
  Step = {"idle", "enrol", "upsert", "attempt", "grade", "finish", "completed", "quizzes",
          "gradebook", "existing", "store", "insert", "mail", "notify"}
  BY DEF Step

LEMMA IdleType == Idle \in Call
  BY DEF Idle, Call, Step

LEMMA TypeInit == Init => TypeOK
<1> SUFFICES ASSUME Init PROVE TypeOK
  OBVIOUS
<1>1. call \in [Handlers -> Call]
  BY IdleType DEF Init
<1>2. edits \in 0..MaxEdits /\ faults \in 0..MaxFaults
  BY DEF Init
<1> QED BY <1>1, <1>2 DEF Init, TypeOK

(* The call record keeps its type whichever way a call moves. *)
LEMMA CallMoves ==
  ASSUME call \in [Handlers -> Call], NEW h \in Handlers
  PROVE  /\ call[h] \in Call
         /\ \A s \in Step : Goto(h, s) => call' \in [Handlers -> Call]
         /\ Return(h) => call' \in [Handlers -> Call]
         /\ \A c \in Call : Begin(h, c) => call' \in [Handlers -> Call]
<1>1. ASSUME NEW s \in Step, Goto(h, s) PROVE call' \in [Handlers -> Call]
  <2>1. [call[h] EXCEPT !.pc = s] \in Call
    BY DEF Call
  <2> QED BY <1>1, <2>1 DEF Goto
<1>2. Return(h) => call' \in [Handlers -> Call]
  BY IdleType DEF Return
<1> QED BY <1>1, <1>2 DEF Begin

(* How many lessons are required is a number. *)
LEMMA CountType == ASSUME NEW S \in SUBSET Lessons PROVE IsFiniteSet(S) /\ Cardinality(S) \in Nat
  BY FS_Subset, FS_CardinalityType

LEMMA TypeStep == IInv /\ [Next]_vars => TypeOK'
<1> SUFFICES ASSUME IInv, [Next]_vars PROVE TypeOK'
  OBVIOUS
<1>0. TypeOK /\ \A h \in Handlers : CallOK(h)
  BY DEF IInv
<1> USE DEF TypeOK, course, learner, certificate, bounds
<1>1. ASSUME NEW h \in Handlers, HandlerStep(h) PROVE TypeOK'
  <2>0. /\ call[h] \in Call
        /\ \A s \in Step : Goto(h, s) => call' \in [Handlers -> Call]
        /\ Return(h) => call' \in [Handlers -> Call]
    BY <1>0, CallMoves
  <2>1. CASE InsertEnrolment(h) \/ UpsertProgress(h) \/ CompleteLesson(h) \/ InsertAttempt(h)
    BY <1>0, <2>0, <2>1 DEF InsertEnrolment, UpsertProgress, CompleteLesson, InsertAttempt
  <2>2. CASE UpsertGradebook(h)
    BY <1>0, <2>0, <2>2, StepNames DEF UpsertGradebook
  <2>3. CASE CountCompleted(h) \/ ReadGradebook(h)
    BY <1>0, <2>0, <2>3, StepNames DEF CountCompleted, ReadGradebook
  <2>4. CASE ReadQuizzes(h)
    <3>1. [call[h] EXCEPT !.pc = "gradebook", !.asked = quizzes] \in Call
      BY <1>0, <2>0, StepNames DEF Call
    <3>2. call' = [call EXCEPT ![h] = [call[h] EXCEPT !.pc = "gradebook", !.asked = quizzes]]
      BY <1>0, <2>4 DEF ReadQuizzes
    <3> QED BY <1>0, <2>4, <3>1, <3>2 DEF ReadQuizzes
  <2>5. CASE LookForCertificate(h)
    <3>1. [call[h] EXCEPT !.pc = "notify", !.number = issued] \in Call
      BY <1>0, <2>0, StepNames DEF Call
    <3>2. call' \in [Handlers -> Call]
      BY <1>0, <2>0, <2>5, <3>1, StepNames DEF LookForCertificate
    <3> QED BY <1>0, <2>5, <3>2 DEF LookForCertificate
  <2>6. ASSUME NEW n \in Numbers, StorePdf(h, n) PROVE TypeOK'
    <3>1. [call[h] EXCEPT !.pc = "insert", !.number = n] \in Call
      BY <1>0, <2>0, StepNames DEF Call
    <3>2. call' \in [Handlers -> Call]
      BY <1>0, <2>6, <3>1 DEF StorePdf
    <3> QED BY <1>0, <2>6, <3>2 DEF StorePdf
  <2>7. CASE StorageFails(h)
    BY <1>0, <2>0, <2>7 DEF StorageFails
  <2>8. CASE InsertCertificate(h)
    <3>1. call[h].number \in Numbers \union {None}
      BY <1>0, <2>0 DEF Call
    <3> QED BY <1>0, <2>0, <2>8, <3>1, StepNames DEF InsertCertificate
  <2>9. CASE MailCertificate(h)
    BY <1>0, <2>0, <2>9, StepNames DEF MailCertificate
  <2>10. CASE NotifyCertificateIssued(h)
    <3>1. call[h].number \in Numbers
      BY <1>0, <2>10 DEF NotifyCertificateIssued, At, CallOK
    <3> QED BY <1>0, <2>0, <2>10, <3>1 DEF NotifyCertificateIssued
  <2> QED BY <1>1, <2>1, <2>2, <2>3, <2>4, <2>5, <2>6, <2>7, <2>8, <2>9, <2>10 DEF HandlerStep
<1>2. ASSUME NEW h \in Handlers, Incoming(h) PROVE TypeOK'
  <2>0. \A c \in Call : Begin(h, c) => call' \in [Handlers -> Call]
    BY <1>0, CallMoves
  <2>1. CASE StartEnrol(h)
    <3>1. [Idle EXCEPT !.pc = "enrol"] \in Call
      BY IdleType, StepNames DEF Call
    <3> QED BY <1>0, <2>0, <2>1, <3>1 DEF StartEnrol
  <2>2. CASE StartIssue(h)
    <3>1. Cardinality(published) \in Nat
      BY <1>0, CountType
    <3>2. [Idle EXCEPT !.pc = "completed", !.required = Cardinality(published)] \in Call
      BY <3>1, IdleType, StepNames DEF Call
    <3> QED BY <1>0, <2>0, <2>2, <3>2 DEF StartIssue
  <2>3. ASSUME NEW l \in Lessons, StartAttempt(h, l) PROVE TypeOK'
    <3>1. [Idle EXCEPT !.pc = "attempt", !.lesson = l] \in Call
      BY IdleType, StepNames DEF Call
    <3> QED BY <1>0, <2>0, <2>3, <3>1 DEF StartAttempt
  <2>4. ASSUME NEW l \in Lessons, NEW ok \in BOOLEAN, SaveProgress(h, l, ok) \/ GradeAttempt(h, l, ok)
        PROVE  TypeOK'
    <3>1. /\ [Idle EXCEPT !.pc = "upsert", !.lesson = l, !.ok = ok] \in Call
          /\ [Idle EXCEPT !.pc = "grade", !.lesson = l, !.ok = ok] \in Call
      BY IdleType, StepNames DEF Call
    <3> QED BY <1>0, <2>0, <2>4, <3>1 DEF SaveProgress, GradeAttempt
  <2> QED BY <1>2, <2>1, <2>2, <2>3, <2>4 DEF Incoming
<1>3. CASE Author
  <2>1. ASSUME NEW l \in Lessons, NEW p \in BOOLEAN, NEW q \in BOOLEAN,
               AddLesson(l, p, q) \/ UpdateLesson(l, p, q)
        PROVE  TypeOK'
    BY <1>0, <2>1 DEF AddLesson, UpdateLesson, Edit
  <2>2. ASSUME NEW gone, DeleteLessons(gone) PROVE TypeOK'
    BY <1>0, <2>2 DEF DeleteLessons, Edit
  <2> QED BY <1>3, <2>1, <2>2 DEF Author, DeleteLesson, DeleteModule
<1>4. CASE Crash
  BY <1>0, <1>4, IdleType DEF Crash
<1>5. CASE EnrolledElsewhere \/ UNCHANGED vars
  BY <1>0, <1>5 DEF EnrolledElsewhere, vars
<1> QED BY <1>1, <1>2, <1>3, <1>4, <1>5 DEF Next

-----------------------------------------------------------------------------
(* The rows: an upsert meets the foreign key, a deletion cascades. *)

LEMMA RowsStep == IInv /\ [Next]_vars => NoOrphanRows'
<1> SUFFICES ASSUME IInv, [Next]_vars PROVE NoOrphanRows'
  OBVIOUS
<1>0. TypeOK /\ NoOrphanRows /\ \A h \in Handlers : CallOK(h)
  BY DEF IInv
<1> USE DEF NoOrphanRows, course, learner, certificate, bounds
<1>1. ASSUME NEW h \in Handlers, HandlerStep(h) PROVE NoOrphanRows'
  <2>0. call[h].pc \notin {"idle", "enrol", "completed"} => enrolled
    BY <1>0 DEF CallOK
  <2>1. CASE InsertEnrolment(h)
    BY <1>0, <2>1 DEF InsertEnrolment
  <2>2. CASE UpsertProgress(h) \/ CompleteLesson(h)
    BY <1>0, <2>0, <2>2 DEF UpsertProgress, CompleteLesson, At
  <2>3. CASE InsertAttempt(h) \/ UpsertGradebook(h)
    BY <1>0, <2>0, <2>3 DEF InsertAttempt, UpsertGradebook, At
  <2>4. CASE InsertCertificate(h)
    BY <1>0, <2>0, <2>4 DEF InsertCertificate, At
  <2>5. CASE UNCHANGED <<lessons, enrolled, completed, attempted, passed, issued>>
    BY <1>0, <2>5
  <2> QED BY <1>1, <2>1, <2>2, <2>3, <2>4, <2>5
          DEF HandlerStep, CountCompleted, ReadQuizzes, ReadGradebook, LookForCertificate,
              StorePdf, StorageFails, MailCertificate, NotifyCertificateIssued
<1>2. ASSUME NEW h \in Handlers, Incoming(h) PROVE NoOrphanRows'
  BY <1>0, <1>2 DEF Incoming, StartEnrol, StartIssue, StartAttempt, SaveProgress, GradeAttempt
<1>3. CASE Author
  <2>1. ASSUME NEW l, NEW p, NEW q, AddLesson(l, p, q) \/ UpdateLesson(l, p, q) PROVE NoOrphanRows'
    BY <1>0, <2>1 DEF AddLesson, UpdateLesson
  <2>2. ASSUME NEW gone, DeleteLessons(gone) PROVE NoOrphanRows'
    BY <1>0, <2>2 DEF DeleteLessons
  <2> QED BY <1>3, <2>1, <2>2 DEF Author, DeleteLesson, DeleteModule
<1>4. CASE EnrolledElsewhere \/ Crash \/ UNCHANGED vars
  BY <1>0, <1>4 DEF EnrolledElsewhere, Crash, vars
<1> QED BY <1>1, <1>2, <1>3, <1>4 DEF Next

-----------------------------------------------------------------------------
(* The certificate: whoever inserts it mails it, and there is no other.    *)

Awarded == ToldTheTruth /\ OneMailer /\ \A h \in Handlers : CallOK(h)

(* A step of one call leaves the other calls alone. *)
Others(h) == \A g \in Handlers \ {h} : call'[g] = call[g]

LEMMA CallStep ==
  ASSUME TypeOK, NEW h \in Handlers, HandlerStep(h) \/ Incoming(h)
  PROVE  Others(h)
<1>1. call \in [Handlers -> Call]
  BY DEF TypeOK
<1>2. /\ \A s : Goto(h, s) => Others(h)
      /\ Return(h) => Others(h)
      /\ \A c : Begin(h, c) => Others(h)
  BY <1>1 DEF Goto, Return, Begin, Others
<1>3. CASE HandlerStep(h)
  BY <1>1, <1>2, <1>3
  DEF HandlerStep, InsertEnrolment, UpsertProgress, CompleteLesson, InsertAttempt, UpsertGradebook,
      CountCompleted, ReadQuizzes, ReadGradebook, LookForCertificate, StorePdf, StorageFails,
      InsertCertificate, MailCertificate, NotifyCertificateIssued, Others
<1>4. CASE Incoming(h)
  BY <1>1, <1>2, <1>4
  DEF Incoming, StartEnrol, StartIssue, StartAttempt, SaveProgress, GradeAttempt
<1> QED BY <1>3, <1>4

(* The other calls keep what they rely on, unless mail is sent or a        *)
(* certificate inserted.                                                   *)
LEMMA OthersOK ==
  ASSUME IInv, NEW h \in Handlers, Others(h), letters' = letters, issued' = issued,
         enrolled => enrolled', files \subseteq files'
  PROVE  \A g \in Handlers \ {h} : CallOK(g)'
  BY DEF IInv, CallOK, Others

(* A call that gets no certificate inserted and sends nothing only has to  *)
(* answer for itself.                                                      *)
LEMMA Quiet ==
  ASSUME IInv, NEW h \in Handlers, Others(h), UNCHANGED <<issued, letters, notices>>,
         enrolled => enrolled', files \subseteq files', CallOK(h)', call'[h].pc # "mail"
  PROVE  Awarded'
<1>1. \A g \in Handlers : CallOK(g)'
  BY OthersOK
<1>2. OneMailer'
  BY DEF IInv, OneMailer, At, Others
<1>3. ToldTheTruth'
  BY DEF IInv, ToldTheTruth
<1> QED BY <1>1, <1>2, <1>3 DEF Awarded

LEMMA AwardedHandler ==
  ASSUME IInv, NEW h \in Handlers, HandlerStep(h)
  PROVE  Awarded'
<1>0. /\ TypeOK /\ ToldTheTruth /\ OneMailer /\ \A g \in Handlers : CallOK(g)
      /\ call \in [Handlers -> Call] /\ Others(h)
  BY CallStep DEF IInv, TypeOK
<1>r. Return(h) => call'[h].pc = "idle"
  BY <1>0 DEF Return, Idle
<1>c. call[h].pc \notin {"idle", "enrol", "completed"} => enrolled
  BY <1>0 DEF CallOK
<1> USE DEF course, learner, certificate, bounds, At
<1>1. CASE \/ InsertEnrolment(h) \/ UpsertProgress(h) \/ InsertAttempt(h)
           \/ CompleteLesson(h) \/ StorageFails(h)
  <2>1. call'[h].pc = "idle" /\ CallOK(h)'
    BY <1>r, <1>1 DEF InsertEnrolment, UpsertProgress, InsertAttempt, CompleteLesson, StorageFails, CallOK
  <2> QED BY <1>0, <1>1, <2>1, Quiet
          DEF InsertEnrolment, UpsertProgress, InsertAttempt, CompleteLesson, StorageFails
<1>2. CASE UpsertGradebook(h) \/ CountCompleted(h) \/ ReadQuizzes(h) \/ ReadGradebook(h)
  <2>1. /\ call'[h].pc \in {"idle", "finish", "quizzes", "gradebook", "existing"}
        /\ call'[h].pc # "idle" => enrolled
    BY <1>0, <1>r, <1>c, <1>2
    DEF UpsertGradebook, CountCompleted, ReadQuizzes, ReadGradebook, Goto, TypeOK, Call
  <2>2. UNCHANGED <<enrolled, issued, files, letters, notices>>
    BY <1>2 DEF UpsertGradebook, CountCompleted, ReadQuizzes, ReadGradebook
  <2>3. CallOK(h)'
    BY <2>1, <2>2 DEF CallOK
  <2> QED BY <1>0, <2>1, <2>2, <2>3, Quiet
<1>3. CASE LookForCertificate(h)
  <2>1. \/ call'[h].pc = "store"
        \/ call'[h].pc = "notify" /\ call'[h].number = issued /\ issued # None
    BY <1>0, <1>3 DEF LookForCertificate, Goto, TypeOK, Call
  <2>2. enrolled /\ UNCHANGED <<enrolled, issued, files, letters, notices>>
    BY <1>c, <1>3 DEF LookForCertificate
  <2>3. CallOK(h)'
    BY <2>1, <2>2 DEF CallOK
  <2> QED BY <1>0, <2>1, <2>2, <2>3, Quiet
<1>4. ASSUME NEW n \in Numbers, StorePdf(h, n) PROVE Awarded'
  <2>1. call'[h].pc = "insert" /\ call'[h].number = n
    BY <1>0, <1>4 DEF StorePdf, TypeOK, Call
  <2>2. enrolled /\ UNCHANGED <<enrolled, issued, letters, notices>> /\ files' = files \union {n}
    BY <1>c, <1>4 DEF StorePdf
  <2>3. CallOK(h)'
    BY <2>1, <2>2 DEF CallOK
  <2> QED BY <1>0, <2>1, <2>2, <2>3, Quiet
<1>5. CASE InsertCertificate(h)
  <2>0. enrolled /\ call[h].number \in files /\ UNCHANGED <<enrolled, files, letters, notices>>
    BY <1>0, <1>c, <1>5 DEF InsertCertificate, CallOK
  <2>1. CASE issued # None
    <3>1. call'[h].pc = "idle" /\ issued' = issued
      BY <1>r, <1>5, <2>1 DEF InsertCertificate
    <3> QED BY <1>0, <2>0, <3>1, Quiet DEF CallOK
  <2>2. CASE issued = None
    <3>1. /\ call'[h].pc = "mail" /\ call'[h].number = call[h].number
          /\ issued' = call[h].number
      BY <1>0, <1>5, <2>2 DEF InsertCertificate, Goto, TypeOK, Call
    <3>2. issued' # None
      BY <1>0, <2>0, <3>1 DEF TypeOK
    <3>3. letters = 0 /\ notices = {}
      BY <1>0, <2>2 DEF ToldTheTruth, TypeOK
    <3>4. \A g \in Handlers \ {h} : call[g].pc \notin {"mail", "notify"}
      BY <1>0, <2>2 DEF CallOK
    <3>5. \A g \in Handlers : CallOK(g)'
      BY <1>0, <2>0, <3>1, <3>2, <3>3, <3>4 DEF CallOK, Others
    <3>6. OneMailer'
      BY <1>0, <3>4 DEF OneMailer, Others
    <3>7. ToldTheTruth'
      BY <2>0, <3>1, <3>2, <3>3 DEF ToldTheTruth
    <3> QED BY <3>5, <3>6, <3>7 DEF Awarded
  <2> QED BY <2>1, <2>2
<1>6. CASE MailCertificate(h)
  <2>0. /\ enrolled /\ call[h].number = issued /\ issued # None /\ letters = 0
        /\ UNCHANGED <<enrolled, issued, files, notices>>
        /\ letters' \in {0, 1}
    BY <1>0, <1>c, <1>6 DEF MailCertificate, CallOK
  <2>1. call'[h].pc = "notify" /\ call'[h].number = issued
    BY <1>0, <1>6, <2>0 DEF MailCertificate, Goto, TypeOK, Call
  <2>2. \A g \in Handlers \ {h} : call[g].pc # "mail"
    BY <1>0, <1>6 DEF MailCertificate, OneMailer
  <2>3. \A g \in Handlers : CallOK(g)'
    BY <1>0, <2>0, <2>1, <2>2 DEF CallOK, Others
  <2>4. OneMailer'
    BY <1>0, <2>1, <2>2 DEF OneMailer, Others
  <2>5. ToldTheTruth'
    BY <1>0, <2>0 DEF ToldTheTruth
  <2> QED BY <2>3, <2>4, <2>5 DEF Awarded
<1>7. CASE NotifyCertificateIssued(h)
  <2>0. call[h].number = issued /\ UNCHANGED <<enrolled, issued, files, letters>>
    BY <1>0, <1>7 DEF NotifyCertificateIssued, CallOK
  <2>1. call'[h].pc = "idle" /\ CallOK(h)'
    BY <1>r, <1>7 DEF NotifyCertificateIssued, CallOK
  <2>2. \A g \in Handlers : CallOK(g)'
    BY <1>0, <2>0, <2>1, OthersOK
  <2>3. OneMailer'
    BY <1>0, <2>1 DEF OneMailer, Others
  <2>4. ToldTheTruth'
    BY <1>0, <1>7, <2>0 DEF NotifyCertificateIssued, ToldTheTruth
  <2> QED BY <2>2, <2>3, <2>4 DEF Awarded
<1> QED BY <1>1, <1>2, <1>3, <1>4, <1>5, <1>6, <1>7 DEF HandlerStep

LEMMA AwardedStep == IInv /\ [Next]_vars => Awarded'
<1> SUFFICES ASSUME IInv, [Next]_vars PROVE Awarded'
  OBVIOUS
<1> USE DEF course, learner, certificate, bounds
<1>0. TypeOK /\ Awarded /\ call \in [Handlers -> Call]
  BY DEF IInv, Awarded, TypeOK
<1>1. ASSUME NEW h \in Handlers, HandlerStep(h) PROVE Awarded'
  BY <1>1, AwardedHandler
<1>2. ASSUME NEW h \in Handlers, Incoming(h) PROVE Awarded'
  <2>1. Others(h)
    BY <1>0, <1>2, CallStep
  <2>2. UNCHANGED <<enrolled, issued, files, letters, notices>>
    BY <1>2 DEF Incoming, StartEnrol, StartIssue, StartAttempt, SaveProgress, GradeAttempt
  <2>3. /\ call'[h].pc \in {"enrol", "completed", "upsert", "attempt", "grade"}
        /\ call'[h].pc \in {"upsert", "attempt", "grade"} => enrolled
    BY <1>0, <1>2
    DEF Incoming, StartEnrol, StartIssue, StartAttempt, SaveProgress, GradeAttempt, Begin, Idle
  <2>4. CallOK(h)'
    BY <2>2, <2>3 DEF CallOK
  <2> QED BY <2>1, <2>2, <2>3, <2>4, Quiet
<1>3. CASE Author \/ EnrolledElsewhere \/ UNCHANGED vars
  <2>1. UNCHANGED <<issued, files, letters, notices, call>> /\ (enrolled => enrolled')
    BY <1>3 DEF Author, AddLesson, UpdateLesson, DeleteLesson, DeleteModule, DeleteLessons,
                EnrolledElsewhere, vars
  <2> QED BY <1>0, <2>1 DEF Awarded, ToldTheTruth, OneMailer, CallOK, At
<1>4. CASE Crash
  <2>1. \A h \in Handlers : call'[h].pc = "idle"
    BY <1>4 DEF Crash, Idle
  <2> QED BY <1>0, <1>4, <2>1 DEF Crash, Awarded, ToldTheTruth, OneMailer, CallOK, At
<1> QED BY <1>1, <1>2, <1>3, <1>4 DEF Next

-----------------------------------------------------------------------------
(* What a claim reads can only change with an edit of the course. *)

LEMMA CurrentStep == IInv /\ [Next]_vars => ReadsAreCurrent'
<1> SUFFICES ASSUME IInv, [Next]_vars, edits' = 0 PROVE ReadsAreCurrent'
  BY DEF ReadsAreCurrent
<1> USE DEF course, learner, certificate, bounds
<1>0. TypeOK /\ ReadsAreCurrent /\ call \in [Handlers -> Call] /\ edits \in Nat
  BY DEF IInv, TypeOK
<1> DEFINE Current(h) ==
      /\ call[h].pc = "completed" => call[h].required = Cardinality(published)
      /\ call[h].pc = "gradebook" => call[h].asked = quizzes
<1>1. ASSUME NEW h \in Handlers, HandlerStep(h) \/ Incoming(h), UNCHANGED <<course, edits>>,
             \/ call'[h].pc \notin {"completed", "gradebook"}
             \/ call'[h].pc = "completed" /\ call'[h].required = Cardinality(published)
             \/ call'[h].pc = "gradebook" /\ call'[h].asked = quizzes
      PROVE  ReadsAreCurrent'
  <2>1. Others(h)
    BY <1>0, <1>1, CallStep
  <2>2. edits = 0 /\ \A g \in Handlers : Current(g)
    BY <1>0, <1>1 DEF ReadsAreCurrent, At
  <2>3. \A g \in Handlers : Current(g)'
    BY <1>1, <2>1, <2>2 DEF Others
  <2> QED BY <2>3 DEF ReadsAreCurrent, At
<1>2. ASSUME NEW h \in Handlers, HandlerStep(h) PROVE ReadsAreCurrent'
  <2>1. UNCHANGED <<course, edits>>
    BY <1>2 DEF HandlerStep, InsertEnrolment, UpsertProgress, InsertAttempt, CompleteLesson,
      UpsertGradebook, CountCompleted, ReadQuizzes, ReadGradebook, LookForCertificate, StorePdf,
      StorageFails, InsertCertificate, MailCertificate, NotifyCertificateIssued
  <2>2. CASE ReadQuizzes(h)
    <3>1. call'[h].pc = "gradebook" /\ call'[h].asked = quizzes
      BY <1>0, <2>2 DEF ReadQuizzes, Call
    <3> QED BY <1>1, <1>2, <2>1, <3>1
  <2>3. CASE ~ReadQuizzes(h)
    <3>1. call'[h].pc \notin {"completed", "gradebook"}
      BY <1>0, <1>2, <2>3
      DEF HandlerStep, InsertEnrolment, UpsertProgress, InsertAttempt, CompleteLesson,
        UpsertGradebook, CountCompleted, ReadGradebook, LookForCertificate, StorePdf,
        StorageFails, InsertCertificate, MailCertificate, NotifyCertificateIssued,
        Return, Goto, Idle, Call
    <3> QED BY <1>1, <1>2, <2>1, <3>1
  <2> QED BY <2>2, <2>3
<1>3. ASSUME NEW h \in Handlers, Incoming(h) PROVE ReadsAreCurrent'
  <2>1. UNCHANGED <<course, edits>>
    BY <1>3 DEF Incoming, StartEnrol, StartIssue, StartAttempt, SaveProgress, GradeAttempt
  <2>2. \/ call'[h].pc \in {"enrol", "upsert", "attempt", "grade"}
        \/ call'[h].pc = "completed" /\ call'[h].required = Cardinality(published)
    BY <1>0, <1>3
    DEF Incoming, StartEnrol, StartIssue, StartAttempt, SaveProgress, GradeAttempt, Begin, Idle
  <2> QED BY <1>1, <1>3, <2>1, <2>2
<1>4. CASE Author
  BY <1>0, <1>4 DEF Author, AddLesson, UpdateLesson, DeleteLesson, DeleteModule, DeleteLessons, Edit
<1>5. CASE Crash
  BY <1>5 DEF Crash, Idle, ReadsAreCurrent, At
<1>6. CASE EnrolledElsewhere \/ UNCHANGED vars
  BY <1>0, <1>6 DEF EnrolledElsewhere, vars, ReadsAreCurrent, At
<1> QED BY <1>2, <1>3, <1>4, <1>5, <1>6 DEF Next

-----------------------------------------------------------------------------
(* In a course without drafts a learner has completed no more lessons than *)
(* there are, and all of them when the numbers agree.                      *)
LEMMA StatsFromRows == TypeOK /\ NoOrphanRows => StatsAgree
<1> SUFFICES ASSUME TypeOK, NoOrphanRows, lessons = published
             PROVE  /\ Cardinality(completed) <= Cardinality(published)
                    /\ published \ completed = {}
                         <=> Cardinality(completed) = Cardinality(published)
  BY DEF StatsAgree, CourseProgressStats
<1>1. completed \subseteq published /\ published \in SUBSET Lessons
  BY DEF TypeOK, NoOrphanRows
<1>2. IsFiniteSet(published)
  BY <1>1, CountType
<1>3. /\ Cardinality(completed) <= Cardinality(published)
      /\ Cardinality(published) = Cardinality(completed) => published = completed
  BY <1>1, <1>2, FS_Subset
<1>4. published \ completed = {} => completed = published
  BY <1>1
<1> QED BY <1>3, <1>4

LEMMA StatsStep == IInv /\ [Next]_vars => StatsAgree'
<1> SUFFICES ASSUME IInv, [Next]_vars PROVE StatsAgree'
  OBVIOUS
<1>1. TypeOK' /\ NoOrphanRows'
  BY TypeStep, RowsStep
<1>2. (TypeOK /\ NoOrphanRows => StatsAgree)'
  BY StatsFromRows, PTL
<1> QED BY <1>1, <1>2

LEMMA InvInit == Init => IInv
<1> SUFFICES ASSUME Init PROVE IInv
  OBVIOUS
<1>1. \A h \in Handlers : call[h].pc = "idle"
  BY DEF Init, Idle
<1>2. NoOrphanRows
  BY DEF Init, NoOrphanRows
<1> QED BY <1>1, <1>2, TypeInit, StatsFromRows
        DEF Init, IInv, ToldTheTruth, OneMailer, ReadsAreCurrent, CallOK, At

LEMMA InvStep == IInv /\ [Next]_vars => IInv'
  BY TypeStep, RowsStep, AwardedStep, CurrentStep, StatsStep DEF IInv, Awarded

(* IInv is inductive.                                                       *)
THEOREM Invariant == Spec => []IInv
  BY InvInit, InvStep, PTL DEF Spec

(* Every row, file and call in flight has its type.                         *)
THEOREM TypeCorrect == Spec => []TypeOK
<1>1. IInv => TypeOK
  BY DEF IInv
<1> QED BY <1>1, Invariant, PTL

(* No progress, attempt or grade of a learner outlives its lesson, and none *)
(* is there before the enrolment.                                           *)
THEOREM RowsHaveLessons == Spec => []NoOrphanRows
<1>1. IInv => NoOrphanRows
  BY DEF IInv
<1> QED BY <1>1, Invariant, PTL

(* In a course without drafts the progress shown never passes 100 %, and   *)
(* is 100 % exactly when no lesson is left.                                *)
THEOREM ProgressIsRight == Spec => []StatsAgree
<1>1. IInv => StatsAgree
  BY DEF IInv
<1> QED BY <1>1, Invariant, PTL

(* However many claims race, one email at most is sent, and the learner is  *)
(* notified of no certificate but the one that verifies.                    *)
THEOREM LearnerIsToldTheTruth == Spec => []ToldTheTruth
<1>1. IInv => ToldTheTruth
  BY DEF IInv
<1> QED BY <1>1, Invariant, PTL

-----------------------------------------------------------------------------
(* As many completed lessons as the course has are all of them: there is   *)
(* none that the course does not have.                                     *)
LEMMA AllCompleted ==
  ASSUME IInv, lessons = published, Cardinality(completed) >= Cardinality(published)
  PROVE  lessons \subseteq completed
<1>1. /\ completed \subseteq lessons /\ lessons \in SUBSET Lessons
      /\ completed \in SUBSET Lessons
  BY DEF IInv, TypeOK, NoOrphanRows
<1>2. IsFiniteSet(lessons) /\ Cardinality(lessons) \in Nat /\ Cardinality(completed) \in Nat
  BY <1>1, CountType
<1>3. Cardinality(completed) <= Cardinality(lessons)
      /\ (Cardinality(lessons) = Cardinality(completed) => lessons = completed)
  BY <1>1, <1>2, FS_Subset
<1> QED BY <1>2, <1>3

LEMMA StepGated == IInv /\ [Next]_vars => [Gated]_vars
<1> SUFFICES ASSUME IInv, [Next]_vars, edits = 0, lessons = published, NEW h \in Handlers
             PROVE  /\ At(h, "completed") /\ At(h, "quizzes")' => lessons \subseteq completed
                    /\ At(h, "gradebook") /\ At(h, "existing")' => quizzes \subseteq passed
  BY DEF Gated, AsItWas
<1>0. TypeOK /\ ReadsAreCurrent /\ call \in [Handlers -> Call]
  BY DEF IInv, TypeOK
<1>1. CASE HandlerStep(h)
  <2>1. CASE CountCompleted(h)
    <3>1. call[h].required = Cardinality(published) /\ call[h].pc = "completed"
      BY <1>0, <2>1 DEF ReadsAreCurrent, CountCompleted, At
    <3>2. CASE Cardinality(completed) >= call[h].required
      BY <3>1, <3>2, AllCompleted DEF At
    <3>3. CASE ~(Cardinality(completed) >= call[h].required)
      BY <1>0, <2>1, <3>1, <3>3 DEF CountCompleted, Return, Idle, At
    <3> QED BY <3>2, <3>3
  <2>2. CASE ReadGradebook(h)
    BY <1>0, <2>2 DEF ReadsAreCurrent, ReadGradebook, Return, Idle, At
  <2>3. CASE ~CountCompleted(h) /\ ~ReadGradebook(h)
    BY <1>1, <2>3
    DEF HandlerStep, InsertEnrolment, UpsertProgress, InsertAttempt, CompleteLesson,
      UpsertGradebook, ReadQuizzes, LookForCertificate, StorePdf, StorageFails,
      InsertCertificate, MailCertificate, NotifyCertificateIssued, At
  <2> QED BY <2>1, <2>2, <2>3
<1>2. CASE Incoming(h)
  BY <1>2
  DEF Incoming, StartEnrol, StartIssue, StartAttempt, SaveProgress, GradeAttempt, Begin, IsIdle, At
<1>3. ASSUME NEW g \in Handlers \ {h}, HandlerStep(g) \/ Incoming(g)
      PROVE  call'[h] = call[h]
  BY <1>0, <1>3, CallStep DEF Others
<1>4. CASE Author \/ EnrolledElsewhere \/ UNCHANGED vars
  BY <1>4 DEF Author, AddLesson, UpdateLesson, DeleteLesson, DeleteModule, DeleteLessons,
              EnrolledElsewhere, vars, At
<1>5. CASE Crash
  BY <1>5 DEF Crash, Idle, At
<1> QED BY <1>1, <1>2, <1>3, <1>4, <1>5 DEF Next, At

(* In a course without drafts that is not edited, no claim gets past the    *)
(* eligibility check unless every lesson is completed and every quiz passed.*)
THEOREM GatesAreKept == Spec => GatesHold
  BY StepGated, Invariant, PTL DEF Spec, GatesHold

-----------------------------------------------------------------------------
(* Learning implements Award: a stored PDF is a document, the insert       *)
(* issues, an email and a notification tell, and other steps stutter.      *)

Told == IF letters > 0 THEN notices \union {issued} ELSE notices

LEMMA MapInit == Init => Programme!Init
  BY DEF Init, Programme!Init

LEMMA MapStep == IInv /\ [Next]_vars => [Programme!Next]_(Programme!vars)
<1> SUFFICES ASSUME IInv, [Next]_vars PROVE Programme!Next \/ UNCHANGED Programme!vars
  OBVIOUS
<1> USE DEF course, learner, certificate, bounds
<1>0. TypeOK /\ ToldTheTruth /\ \A h \in Handlers : CallOK(h)
  BY DEF IInv
<1>1. ASSUME NEW h \in Handlers, HandlerStep(h) PROVE Programme!Next \/ UNCHANGED Programme!vars
  <2>1. ASSUME NEW n \in Numbers, StorePdf(h, n) PROVE Programme!Next
    <3>1. Programme!Store(n)
      BY <2>1 DEF StorePdf, Programme!Store
    <3> QED BY <3>1 DEF Programme!Next
  <2>2. CASE InsertCertificate(h)
    <3>1. CASE issued = None
      <4>1. PICK n \in Numbers : n = call[h].number /\ n \in files
        BY <1>0, <2>2 DEF InsertCertificate, At, CallOK, TypeOK
      <4>2. letters = 0
        BY <1>0, <3>1 DEF ToldTheTruth, TypeOK
      <4>3. Programme!Issue(n)
        BY <2>2, <3>1, <4>1, <4>2 DEF InsertCertificate, Programme!Issue
      <4> QED BY <4>3 DEF Programme!Next
    <3>2. CASE issued # None
      BY <2>2, <3>2 DEF InsertCertificate, Programme!vars
    <3> QED BY <3>1, <3>2
  <2>3. CASE MailCertificate(h)
    <3>1. /\ issued # None /\ letters = 0 /\ letters' \in {0, 1}
          /\ UNCHANGED <<issued, files, notices>>
      BY <1>0, <2>3 DEF MailCertificate, At, CallOK
    <3>2. CASE letters' = 0
      BY <3>1, <3>2 DEF Programme!vars
    <3>3. CASE letters' = 1
      BY <3>1, <3>3 DEF Programme!Tell, Programme!Next
    <3> QED BY <3>1, <3>2, <3>3
  <2>4. CASE NotifyCertificateIssued(h)
    <3>1. /\ issued # None /\ UNCHANGED <<issued, files, letters>>
          /\ notices' \in {notices, notices \union {issued}}
      BY <1>0, <2>4 DEF NotifyCertificateIssued, At, CallOK
    <3>2. CASE notices' = notices
      BY <3>1, <3>2 DEF Programme!vars
    <3>3. CASE notices' = notices \union {issued}
      <4>1. Told' = Told \union {issued}
        BY <3>1, <3>3 DEF Told
      <4> QED BY <3>1, <4>1 DEF Told, Programme!Tell, Programme!Next
    <3> QED BY <3>1, <3>2, <3>3
  <2>5. CASE UNCHANGED <<issued, files, letters, notices>>
    BY <2>5 DEF Programme!vars
  <2> QED BY <1>1, <2>1, <2>2, <2>3, <2>4, <2>5
          DEF HandlerStep, InsertEnrolment, UpsertProgress, InsertAttempt, CompleteLesson,
              UpsertGradebook, CountCompleted, ReadQuizzes, ReadGradebook, LookForCertificate,
              StorageFails
<1>2. CASE \/ \E h \in Handlers : Incoming(h)
           \/ EnrolledElsewhere \/ Author \/ Crash \/ UNCHANGED vars
  <2>1. UNCHANGED <<issued, files, letters, notices>>
    BY <1>2
    DEF Incoming, StartEnrol, StartIssue, StartAttempt, SaveProgress, GradeAttempt,
        EnrolledElsewhere, Author, AddLesson, UpdateLesson, DeleteLesson, DeleteModule,
        DeleteLessons, Crash, vars
  <2> QED BY <2>1 DEF Programme!vars
<1> QED BY <1>1, <1>2 DEF Next

(* One certificate for good, never before its PDF, and nobody is told of    *)
(* another: Learning implements Award.                                      *)
THEOREM ImplementsAward == Spec => AwardSpec
  BY MapInit, MapStep, Invariant, PTL DEF Spec, AwardSpec, Programme!Spec
=============================================================================
