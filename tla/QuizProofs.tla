----------------------------- MODULE QuizProofs -----------------------------
(***************************************************************************)
(* What Quiz guarantees for any number of concurrent calls, attempts,      *)
(* questions and crashes, and any limit set by the course's author.        *)
(***************************************************************************)
EXTENDS Quiz, FiniteSetTheorems, TLAPS

USE QuizAssumption

(* A percentage is a natural number, whatever was answered. *)
LEMMA DivType == \A a \in Nat, b \in Nat \ {0} : a \div b \in Nat
  BY SMT

LEMMA PercentType == ASSUME NEW right \in Answers PROVE Percent(right) \in Nat
<1>1. 2 * Questions \in Nat \ {0} /\ 2000 * right + Questions \in Nat
  BY DEF Answers
<1> QED BY <1>1, DivType DEF Percent

LEMMA IdleType == Idle \in Call
  BY DEF Idle, Call, Step, Goal, Answers, None

LEMMA TypeInit == Init => TypeOK
<1> SUFFICES ASSUME Init PROVE TypeOK
  OBVIOUS
<1>1. call \in [Handlers -> Call]
  BY IdleType DEF Init
<1>2. answers \in [Numbers -> Answers] /\ status \in [Numbers -> Status]
  BY DEF Init, Answers, Status
<1>3. book \in [attempt : Numbers \union {None}, percent : Nat]
  BY DEF Init
<1>4. grade \in [Numbers -> Nat] /\ faults \in 0..MaxFaults
  BY DEF Init
<1>5. elapsed \in SUBSET Numbers /\ held \in SUBSET Numbers /\ done \in BOOLEAN /\ crossed \in BOOLEAN
  BY DEF Init
<1> QED BY <1>1, <1>2, <1>3, <1>4, <1>5 DEF TypeOK

(* The call record keeps its type whichever way a call moves. *)
LEMMA CallMoves ==
  ASSUME call \in [Handlers -> Call], NEW h \in Handlers
  PROVE  /\ \A s \in Step : Goto(h, s) => call' \in [Handlers -> Call]
         /\ Return(h) => call' \in [Handlers -> Call]
<1>1. Idle \in Call
  BY IdleType
<1>2. ASSUME NEW s \in Step, Goto(h, s) PROVE call' \in [Handlers -> Call]
  <2>1. [call[h] EXCEPT !.pc = s] \in Call
    BY DEF Call
  <2> QED BY <1>2, <2>1 DEF Goto
<1>3. Return(h) => call' \in [Handlers -> Call]
  BY <1>1 DEF Return
<1> QED BY <1>2, <1>3

(* Attempts are numbered 1..k, so their number is the last number. *)
LEMMA TakenCount ==
  ASSUME NoGaps
  PROVE  /\ Cardinality(Taken) \in 0..MaxRows
         /\ Taken = 1..Cardinality(Taken)
<1>1. PICK k \in 0..MaxRows : Taken = 1..k
  BY DEF NoGaps
<1>2. Cardinality(1..k) = IF 1 > k THEN 0 ELSE k - 1 + 1
  BY FS_Interval
<1>3. Cardinality(Taken) = k
  BY <1>1, <1>2
<1> QED BY <1>1, <1>3

LEMMA TypeStep == IInv /\ [Next]_vars => TypeOK'
<1> SUFFICES ASSUME IInv, [Next]_vars PROVE TypeOK'
  OBVIOUS
<1>0. /\ Step = {"idle", "sweep", "sweepBook", "insert", "mark", "book", "finish"}
      /\ Goal = {"none", "look", "start", "submitted", "expired"}
  BY DEF Step, Goal
<1>t. TypeOK /\ NoGaps /\ \A h \in Handlers : CallOK(h)
  BY DEF IInv
<1> USE DEF TypeOK, attempts
<1>1. ASSUME NEW h \in Handlers, HandlerStep(h) PROVE TypeOK'
  <2>0. /\ \A s \in Step : Goto(h, s) => call' \in [Handlers -> Call]
        /\ Return(h) => call' \in [Handlers -> Call]
        /\ call[h] \in Call
    BY <1>t, CallMoves
  <2>1. CASE SweepUpdate(h)
    <3>1. PICK s \in call[h].stale :
            /\ CloseAs(s[1], "expired", s[2])
            /\ call' = [call EXCEPT ![h].pc = "sweepBook", ![h].n = s[1], ![h].sent = s[2],
                                    ![h].stale = @ \ {s}]
      BY <2>1 DEF SweepUpdate
    <3>2. s \in Numbers \X Answers
      BY <2>0 DEF Call
    <3>3. s[1] \in Numbers /\ s[2] \in Answers /\ Percent(s[2]) \in Nat
      BY <3>2, PercentType
    <3>4. [call[h] EXCEPT !.pc = "sweepBook", !.n = s[1], !.sent = s[2], !.stale = @ \ {s}] \in Call
      BY <1>0, <2>0, <3>3 DEF Call
    <3>5. call' \in [Handlers -> Call]
      BY <1>t, <3>1, <3>4
    <3> QED BY <1>t, <2>1, <3>1, <3>3, <3>5 DEF SweepUpdate, CloseAs, Status
  <2>2. CASE SweepBook(h) \/ EnterGrade(h)
    <3>1. call[h].n \in Numbers \union {None} /\ Percent(call[h].sent) \in Nat
      BY <2>0, PercentType DEF Call
    <3> QED BY <1>t, <1>0, <2>0, <2>2, <3>1 DEF SweepBook, EnterGrade, UpsertGradebook
  <2>3. CASE StatusRead(h)
    BY <1>t, <2>0, <2>3 DEF StatusRead
  <2>4. CASE ListAttempts(h)
    <3>1. CASE Return(h)
      BY <1>t, <2>0, <2>4, <3>1 DEF ListAttempts
    <3>2. CASE Cardinality(Taken) < MaxRows /\
               call' = [call EXCEPT ![h].pc = "insert", ![h].n = Cardinality(Taken) + 1]
      <4>1. Cardinality(Taken) + 1 \in Numbers
        BY <1>t, <3>2, TakenCount DEF Numbers
      <4>2. [call[h] EXCEPT !.pc = "insert", !.n = Cardinality(Taken) + 1] \in Call
        BY <1>0, <2>0, <4>1 DEF Call
      <4>3. call' \in [Handlers -> Call]
        BY <1>t, <3>2, <4>2
      <4> QED BY <1>t, <2>4, <4>3 DEF ListAttempts
    <3> QED BY <2>4, <3>1, <3>2 DEF ListAttempts
  <2>5. CASE InsertAttempt(h)
    <3>1. call[h].n \in Numbers
      BY <1>t, <2>5 DEF InsertAttempt, At, CallOK
    <3> QED BY <1>t, <2>0, <2>5, <3>1 DEF InsertAttempt, Status
  <2>6. CASE MarkSubmitted(h)
    <3>1. Percent(call[h].sent) \in Nat /\ call[h].sent \in Answers
      BY <2>0, PercentType DEF Call
    <3>2. call[h].goal \in Status
      BY <1>t, <2>6 DEF MarkSubmitted, At, CallOK, Status
    <3> QED BY <1>t, <1>0, <2>0, <2>6, <3>1, <3>2 DEF MarkSubmitted, CloseAs
  <2>7. CASE CompleteLesson(h)
    BY <1>t, <2>0, <2>7 DEF CompleteLesson
  <2> QED BY <1>1, <2>1, <2>2, <2>3, <2>4, <2>5, <2>6, <2>7 DEF HandlerStep
<1>2. ASSUME NEW h \in Handlers, Incoming(h) PROVE TypeOK'
  <2>1. CASE GetStatus(h) \/ StartAttempt(h)
    <3>1. Stale \in SUBSET (Numbers \X Answers)
      BY <1>t DEF Stale, Taken
    <3>2. PICK g \in {"look", "start"} : Request(h, g)
      BY <2>1 DEF GetStatus, StartAttempt
    <3>3. [Idle EXCEPT !.pc = "sweep", !.goal = g, !.stale = Stale] \in Call
      BY <1>0, <3>1, IdleType DEF Call
    <3> QED BY <1>t, <3>2, <3>3 DEF Request, Begin
  <2>2. ASSUME NEW n \in Numbers, NEW right \in Answers, Submit(h, n, right) PROVE TypeOK'
    <3>1. [Idle EXCEPT !.pc = "mark", !.n = n, !.sent = right,
             !.goal = IF Overdue(n) THEN "expired" ELSE "submitted"] \in Call
      BY <1>0, IdleType DEF Call
    <3> QED BY <1>t, <2>2, <3>1 DEF Submit, Begin
  <2> QED BY <1>2, <2>1, <2>2 DEF Incoming
<1>3. ASSUME World PROVE TypeOK'
  <2>1. ASSUME NEW n \in Numbers, SubmitAgain(n) \/ TimePasses(n) \/ LeavePage(n) PROVE TypeOK'
    BY <1>t, <2>1 DEF SubmitAgain, TimePasses, LeavePage
  <2>2. CASE Crash
    <3>1. Idle \in Call
      BY IdleType
    <3> QED BY <1>t, <2>2, <3>1 DEF Crash
  <2> QED BY <1>3, <2>1, <2>2 DEF World
<1>4. CASE UNCHANGED vars
  BY <1>t, <1>4 DEF vars
<1> QED BY <1>1, <1>2, <1>3, <1>4 DEF Next

-----------------------------------------------------------------------------
(* Rows are kept and closed attempts stay closed.  The two ways a status   *)
(* changes are the insertion of a new row and the closing of a row.        *)

LEMMA CloseKeeps ==
  ASSUME TypeOK, NEW n \in Taken, NEW result \in {"submitted", "expired"}, NEW right,
         CloseAs(n, result, right)
  PROVE  Kept /\ Taken' = Taken /\ Closed(n)'
  BY DEF TypeOK, Taken, CloseAs, Kept, Closed

LEMMA SameRows == ASSUME status' = status PROVE Kept /\ Taken' = Taken
  BY DEF Kept, Taken, Closed

LEMMA StepKept == IInv /\ [Next]_vars => Kept
<1> SUFFICES ASSUME IInv, [Next]_vars PROVE Kept
  OBVIOUS
<1>0. TypeOK /\ \A h \in Handlers : CallOK(h)
  BY DEF IInv
<1>1. ASSUME NEW h \in Handlers, HandlerStep(h) PROVE Kept
  <2>1. CASE SweepUpdate(h)
    BY <1>0, <2>1, CloseKeeps DEF SweepUpdate, CallOK
  <2>2. CASE MarkSubmitted(h)
    BY <1>0, <2>2, CloseKeeps DEF MarkSubmitted, CallOK, At
  <2>3. CASE InsertAttempt(h)
    BY <1>0, <2>3 DEF InsertAttempt, TypeOK, Kept, Closed
  <2>4. CASE status' = status
    BY <2>4, SameRows
  <2> QED BY <1>1, <2>1, <2>2, <2>3, <2>4
          DEF HandlerStep, SweepBook, StatusRead, ListAttempts, EnterGrade, CompleteLesson, attempts
<1>2. ASSUME NEW h \in Handlers, Incoming(h) PROVE Kept
  BY <1>2, SameRows DEF Incoming, GetStatus, StartAttempt, Request, Submit, attempts
<1>3. ASSUME World PROVE Kept
  BY <1>3, SameRows DEF World, SubmitAgain, TimePasses, LeavePage, Crash, attempts
<1>4. CASE UNCHANGED vars
  BY <1>4, SameRows DEF vars
<1> QED BY <1>1, <1>2, <1>3, <1>4 DEF Next

(* What a call relies on is not taken back by the others. *)
LEMMA CallFrame ==
  ASSUME TypeOK, Kept, NEW k \in Handlers, CallOK(k), call'[k] = call[k]
  PROVE  CallOK(k)'
<1> DEFINE c == call[k]
<1>1. c \in Call
  BY DEF TypeOK
<1>2. Taken \subseteq Taken' /\ Taken \subseteq Numbers
  BY DEF Kept, Taken
<1>3. \A n \in Numbers : Closed(n) => Closed(n)'
  BY DEF Kept
<1>4. c.pc \in {"sweepBook", "mark", "book", "finish"} => c.n \in Taken'
  BY <1>2 DEF CallOK
<1>5. c.pc \in {"sweepBook", "book", "finish"} => Closed(c.n)'
  BY <1>2, <1>3 DEF CallOK
<1>6. \A s \in c.stale : s[1] \in Taken'
  BY <1>2 DEF CallOK
<1>7. c.pc = "insert" => \A m \in 1..(c.n - 1) : Closed(m)'
  BY <1>3 DEF CallOK, Numbers
<1> QED BY <1>4, <1>5, <1>6, <1>7 DEF CallOK, Taken, Closed

LEMMA SameTaken ==
  ASSUME IInv, Kept, Taken' = Taken
  PROVE  NoGaps' /\ OnlyLastOpen' /\ AttemptLimit'
<1>1. NoGaps'
  BY DEF IInv, NoGaps
<1>2. OnlyLastOpen'
  BY DEF IInv, OnlyLastOpen, Kept, Taken
<1>3. AttemptLimit'
  BY DEF IInv, AttemptLimit
<1> QED BY <1>1, <1>2, <1>3

LEMMA SameBook ==
  ASSUME IInv, Kept, book' = book, done' = done
  PROVE  BookIsGraded'
<1>1. book.attempt # None => book.attempt \in Numbers
  BY DEF IInv, TypeOK
<1> QED BY <1>1 DEF IInv, BookIsGraded, Kept

(* One call moves; everything else follows from the lemmas above. *)
LEMMA CallStep ==
  ASSUME IInv, TypeOK', Kept, NEW h \in Handlers, CallOK(h)',
         \A k \in Handlers \ {h} : call'[k] = call[k],
         NoGaps', OnlyLastOpen', AttemptLimit', BookIsGraded', held' \subseteq Taken'
  PROVE  IInv'
<1>1. ASSUME NEW k \in Handlers PROVE CallOK(k)'
  <2>1. CASE k = h
    BY <2>1
  <2>2. CASE k # h
    BY <2>2, CallFrame DEF IInv
  <2> QED BY <2>1, <2>2
<1> QED BY <1>1 DEF IInv

LEMMA SweepInv ==
  ASSUME IInv, TypeOK', Kept, NEW h \in Handlers,
         SweepUpdate(h) \/ SweepBook(h) \/ StatusRead(h)
  PROVE  IInv'
<1>0. TypeOK /\ CallOK(h) /\ call[h] \in Call
  BY DEF IInv, TypeOK
<1>1. CASE SweepUpdate(h)
  <2>1. PICK s \in call[h].stale :
          /\ CloseAs(s[1], "expired", s[2])
          /\ call' = [call EXCEPT ![h].pc = "sweepBook", ![h].n = s[1], ![h].sent = s[2],
                                  ![h].stale = @ \ {s}]
    BY <1>1 DEF SweepUpdate
  <2>2. s[1] \in Taken
    BY <1>0, <2>1 DEF CallOK
  <2>3. Taken' = Taken /\ Closed(s[1])'
    BY <1>0, <2>1, <2>2, CloseKeeps
  <2>4. /\ call'[h].pc = "sweepBook" /\ call'[h].n = s[1]
        /\ call'[h].stale = call[h].stale \ {s}
        /\ \A k \in Handlers \ {h} : call'[k] = call[k]
    BY <1>0, <2>1 DEF Call, TypeOK
  <2>5. CallOK(h)'
    BY <1>0, <2>2, <2>3, <2>4 DEF CallOK
  <2>6. NoGaps' /\ OnlyLastOpen' /\ AttemptLimit'
    BY <2>3, SameTaken
  <2>7. BookIsGraded' /\ held' \subseteq Taken'
    BY <1>1, <2>3, SameBook DEF SweepUpdate, IInv
  <2> QED BY <2>4, <2>5, <2>6, <2>7, CallStep
<1>2. CASE SweepBook(h)
  <2>1. Taken' = Taken /\ NoGaps' /\ OnlyLastOpen' /\ AttemptLimit'
    BY <1>2, SameRows, SameTaken DEF SweepBook, attempts
  <2>2. CallOK(h)' /\ \A k \in Handlers \ {h} : call'[k] = call[k]
    BY <1>0, <1>2, <2>1 DEF SweepBook, Goto, CallOK, Call, TypeOK
  <2>3. call[h].n \in Numbers /\ Closed(call[h].n) /\ book'.attempt = call[h].n
    BY <1>0, <1>2 DEF SweepBook, At, CallOK, UpsertGradebook, Taken
  <2>4. BookIsGraded' /\ held' \subseteq Taken'
    BY <1>2, <2>1, <2>3 DEF SweepBook, IInv, BookIsGraded, Closed, attempts
  <2> QED BY <2>1, <2>2, <2>4, CallStep
<1>3. CASE StatusRead(h)
  <2>1. Taken' = Taken /\ NoGaps' /\ OnlyLastOpen' /\ AttemptLimit'
    BY <1>3, SameRows, SameTaken DEF StatusRead, attempts
  <2>2. CallOK(h)' /\ \A k \in Handlers \ {h} : call'[k] = call[k]
    BY <1>0, <1>3 DEF StatusRead, Return, Idle, CallOK, TypeOK
  <2>3. BookIsGraded' /\ held' \subseteq Taken'
    BY <1>3, <2>1, SameBook DEF StatusRead, IInv
  <2> QED BY <2>1, <2>2, <2>3, CallStep
<1> QED BY <1>1, <1>2, <1>3

LEMMA MayStartClosed ==
  ASSUME IInv, MayStart, NEW m \in 1..Cardinality(Taken)
  PROVE  Closed(m)
<1> DEFINE k == Cardinality(Taken)
<1>1. Taken = 1..k /\ k \in 0..MaxRows /\ TypeOK
  BY TakenCount DEF IInv
<1>2. CASE m = k
  <2>1. m \in Taken /\ \A j \in Taken : j <= m
    BY <1>1, <1>2
  <2>2. status[m] # "in_progress"
    BY <2>1 DEF MayStart
  <2> QED BY <1>1, <2>1, <2>2 DEF Closed, TypeOK, Taken, Status
<1>3. CASE m # k
  <2>1. m \in Taken /\ m + 1 \in Taken
    BY <1>1, <1>3
  <2> QED BY <2>1 DEF IInv, OnlyLastOpen
<1> QED BY <1>2, <1>3

LEMMA StartInv ==
  ASSUME IInv, TypeOK', Kept, NEW h \in Handlers, ListAttempts(h) \/ InsertAttempt(h)
  PROVE  IInv'
<1>0. TypeOK /\ CallOK(h) /\ call[h] \in Call
  BY DEF IInv, TypeOK
<1> DEFINE k == Cardinality(Taken)
<1>k. Taken = 1..k /\ k \in 0..MaxRows
  BY TakenCount DEF IInv
<1> HIDE DEF k
<1>1. CASE ListAttempts(h)
  <2>1. Taken' = Taken /\ NoGaps' /\ OnlyLastOpen' /\ AttemptLimit'
    BY <1>1, SameRows, SameTaken DEF ListAttempts, attempts
  <2>2. BookIsGraded' /\ held' \subseteq Taken'
    BY <1>1, <2>1, SameBook DEF ListAttempts, IInv
  <2>3. CASE Return(h)
    <3>1. CallOK(h)' /\ \A j \in Handlers \ {h} : call'[j] = call[j]
      BY <1>0, <2>3 DEF Return, Idle, CallOK, TypeOK
    <3> QED BY <2>1, <2>2, <3>1, CallStep
  <2>4. CASE MayStart /\ k < MaxRows /\
             call' = [call EXCEPT ![h].pc = "insert", ![h].n = k + 1]
    <3>1. /\ call'[h].pc = "insert" /\ call'[h].n = k + 1
          /\ call'[h].stale = call[h].stale
          /\ \A j \in Handlers \ {h} : call'[j] = call[j]
      BY <1>0, <2>4 DEF Call, TypeOK
    <3>2. k + 1 \in Numbers /\ (MaxAttempts > 0 => k + 1 <= MaxAttempts)
      BY <1>k, <2>4 DEF Numbers, MayStart, k
    <3>3. \A m \in 1..((k + 1) - 1) : Closed(m)'
      <4> SUFFICES ASSUME NEW m \in 1..((k + 1) - 1) PROVE Closed(m)'
        OBVIOUS
      <4>1. m \in 1..k /\ m \in Numbers
        BY <1>k DEF Numbers
      <4>2. Closed(m)
        BY <2>4, <4>1, MayStartClosed DEF k
      <4> QED BY <4>1, <4>2 DEF Kept
    <3>4. CallOK(h)'
      BY <1>0, <2>1, <3>1, <3>2, <3>3 DEF CallOK
    <3> QED BY <2>1, <2>2, <3>1, <3>4, CallStep
  <2> QED BY <1>1, <2>3, <2>4 DEF ListAttempts, k
<1>2. CASE InsertAttempt(h)
  <2> DEFINE n == call[h].n
  <2>0. CallOK(h)' /\ \A j \in Handlers \ {h} : call'[j] = call[j]
    BY <1>0, <1>2 DEF InsertAttempt, Return, Idle, CallOK, TypeOK
  <2>1. /\ n \in Numbers /\ \A m \in 1..(n - 1) : Closed(m)
        /\ MaxAttempts > 0 => n <= MaxAttempts
    BY <1>0, <1>2 DEF InsertAttempt, At, CallOK
  <2>2. BookIsGraded'
    BY <1>2, SameBook DEF InsertAttempt
  <2>3. CASE status[n] # "none"
    <3>1. Taken' = Taken /\ held' \subseteq Taken'
      BY <1>2, <2>3, SameRows DEF InsertAttempt, IInv
    <3>2. NoGaps' /\ OnlyLastOpen' /\ AttemptLimit'
      BY <3>1, SameTaken
    <3> QED BY <2>0, <2>2, <3>1, <3>2, CallStep
  <2>4. CASE status[n] = "none"
    <3>1. status' = [status EXCEPT ![n] = "in_progress"] /\ held' = held \union {n}
      BY <1>2, <2>4 DEF InsertAttempt
    <3>2. Taken' = Taken \union {n} /\ n \notin Taken
      BY <1>0, <2>1, <2>4, <3>1 DEF Taken, TypeOK
    <3>3. n = k + 1
      <4>1. n \in Nat \ {0} /\ n <= MaxRows
        BY <2>1 DEF Numbers
      <4>2. n > k
        BY <1>k, <3>2, <4>1
      <4>3. n - 1 > 0 => n - 1 \in Taken
        BY <2>1, <4>1 DEF Closed, Taken, Numbers
      <4> QED BY <1>k, <4>1, <4>2, <4>3
    <3>4. Taken' = 1..n /\ n \in 0..MaxRows
      BY <1>k, <2>1, <3>2, <3>3 DEF Numbers
    <3>5. NoGaps'
      BY <3>4 DEF NoGaps
    <3>6. OnlyLastOpen'
      <4> SUFFICES ASSUME NEW m \in Taken', m + 1 \in Taken' PROVE Closed(m)'
        BY DEF OnlyLastOpen
      <4>1. m \in 1..(n - 1) /\ m \in Numbers
        BY <3>4 DEF Numbers
      <4> QED BY <2>1, <4>1 DEF Kept
    <3>7. AttemptLimit'
      BY <1>k, <2>1, <3>3, <3>4 DEF IInv, AttemptLimit, Numbers
    <3>8. held' \subseteq Taken'
      BY <3>1, <3>2 DEF IInv
    <3> QED BY <2>0, <2>2, <3>5, <3>6, <3>7, <3>8, CallStep
  <2> QED BY <2>3, <2>4
<1> QED BY <1>1, <1>2

LEMMA SubmitInv ==
  ASSUME IInv, TypeOK', Kept, NEW h \in Handlers,
         MarkSubmitted(h) \/ EnterGrade(h) \/ CompleteLesson(h)
  PROVE  IInv'
<1>0. TypeOK /\ CallOK(h) /\ call[h] \in Call
  BY DEF IInv, TypeOK
<1> DEFINE n == call[h].n
<1>1. CASE MarkSubmitted(h)
  <2>1. n \in Taken /\ call[h].goal \in {"submitted", "expired"}
    BY <1>0, <1>1 DEF MarkSubmitted, At, CallOK
  <2>3. /\ call'[h] = [call[h] EXCEPT !.pc = "book"]
        /\ \A k \in Handlers \ {h} : call'[k] = call[k]
    BY <1>0, <1>1 DEF MarkSubmitted, Goto, TypeOK
  <2>2. Taken' = Taken /\ Closed(n)'
    <3>1. PICK m \in Taken : m = call[h].n
      BY <2>1
    <3>2. CloseAs(m, call[h].goal, call[h].sent)
      BY <1>1, <3>1 DEF MarkSubmitted
    <3>3. Taken' = Taken /\ Closed(m)'
      BY <1>0, <2>1, <3>2, CloseKeeps
    <3>4. call'[h].n = m
      BY <1>0, <2>3, <3>1 DEF Call
    <3> QED BY <3>3, <3>4
  <2>4. CallOK(h)'
    BY <1>0, <2>1, <2>2, <2>3 DEF CallOK, Call
  <2>5. NoGaps' /\ OnlyLastOpen' /\ AttemptLimit'
    BY <2>2, SameTaken
  <2>6. BookIsGraded' /\ held' \subseteq Taken'
    BY <1>1, <2>2, SameBook DEF MarkSubmitted, IInv
  <2> QED BY <2>3, <2>4, <2>5, <2>6, CallStep
<1>2. CASE EnterGrade(h)
  <2>1. Taken' = Taken /\ NoGaps' /\ OnlyLastOpen' /\ AttemptLimit'
    BY <1>2, SameRows, SameTaken DEF EnterGrade, attempts
  <2>2. CallOK(h)' /\ \A k \in Handlers \ {h} : call'[k] = call[k]
    BY <1>0, <1>2, <2>1 DEF EnterGrade, Goto, At, CallOK, Call, TypeOK, Closed, attempts
  <2>3. n \in Numbers /\ Closed(n) /\ book'.attempt = n
    BY <1>0, <1>2 DEF EnterGrade, At, CallOK, UpsertGradebook, Taken
  <2>4. BookIsGraded' /\ held' \subseteq Taken'
    BY <1>2, <2>1, <2>3 DEF EnterGrade, IInv, BookIsGraded, Closed, attempts
  <2> QED BY <2>1, <2>2, <2>4, CallStep
<1>3. CASE CompleteLesson(h)
  <2>1. Taken' = Taken /\ NoGaps' /\ OnlyLastOpen' /\ AttemptLimit'
    BY <1>3, SameRows, SameTaken DEF CompleteLesson, attempts
  <2>2. CallOK(h)' /\ \A k \in Handlers \ {h} : call'[k] = call[k]
    BY <1>0, <1>3 DEF CompleteLesson, Return, Idle, CallOK, TypeOK
  <2>3. n \in Numbers /\ Closed(n)
    BY <1>0, <1>3 DEF CompleteLesson, At, CallOK, Taken
  <2>4. BookIsGraded' /\ held' \subseteq Taken'
    BY <1>3, <2>1, <2>3 DEF CompleteLesson, IInv, BookIsGraded, Closed, attempts
  <2> QED BY <2>1, <2>2, <2>4, CallStep
<1> QED BY <1>1, <1>2, <1>3

LEMMA IncomingInv ==
  ASSUME IInv, TypeOK', Kept, NEW h \in Handlers, Incoming(h)
  PROVE  IInv'
<1>0. TypeOK
  BY DEF IInv
<1>1. Taken' = Taken /\ NoGaps' /\ OnlyLastOpen' /\ AttemptLimit'
  BY SameRows, SameTaken DEF Incoming, GetStatus, StartAttempt, Request, Submit, attempts
<1>2. BookIsGraded' /\ held' \subseteq Taken'
  BY <1>1, SameBook DEF Incoming, GetStatus, StartAttempt, Request, Submit, IInv
<1>3. CASE GetStatus(h) \/ StartAttempt(h)
  <2>1. \A s \in Stale : s[1] \in Taken
    BY DEF Stale
  <2>2. PICK g \in {"look", "start"} : Request(h, g)
    BY <1>3 DEF GetStatus, StartAttempt
  <2>3. /\ call'[h] = [Idle EXCEPT !.pc = "sweep", !.goal = g, !.stale = Stale]
        /\ \A k \in Handlers \ {h} : call'[k] = call[k]
    BY <1>0, <2>2 DEF Request, Begin, TypeOK
  <2>4. call'[h].pc = "sweep" /\ call'[h].stale = Stale
    BY <2>3 DEF Idle
  <2>5. CallOK(h)'
    BY <1>1, <2>1, <2>4 DEF CallOK
  <2> QED BY <1>1, <1>2, <2>3, <2>5, CallStep
<1>4. ASSUME NEW n \in Numbers, NEW right \in Answers, Submit(h, n, right) PROVE IInv'
  <2>1. n \in Taken
    BY <1>4 DEF Submit, Taken
  <2>2. /\ call'[h] = [Idle EXCEPT !.pc = "mark", !.n = n, !.sent = right,
                         !.goal = IF Overdue(n) THEN "expired" ELSE "submitted"]
        /\ \A k \in Handlers \ {h} : call'[k] = call[k]
    BY <1>0, <1>4 DEF Submit, Begin, TypeOK
  <2>3. /\ call'[h].pc = "mark" /\ call'[h].n = n /\ call'[h].stale = {}
        /\ call'[h].goal \in {"submitted", "expired"}
    BY <2>2 DEF Idle
  <2>4. CallOK(h)'
    BY <1>1, <2>1, <2>3 DEF CallOK
  <2> QED BY <1>1, <1>2, <2>2, <2>4, CallStep
<1> QED BY <1>3, <1>4 DEF Incoming

LEMMA WorldInv ==
  ASSUME IInv, TypeOK', Kept, World \/ UNCHANGED vars
  PROVE  IInv'
<1>1. status' = status /\ book' = book /\ done' = done /\ held' \subseteq held
  BY DEF World, SubmitAgain, TimePasses, LeavePage, Crash, attempts, vars
<1>2. Taken' = Taken /\ NoGaps' /\ OnlyLastOpen' /\ AttemptLimit'
  BY <1>1, SameRows, SameTaken
<1>3. BookIsGraded' /\ held' \subseteq Taken'
  BY <1>1, <1>2, SameBook DEF IInv
<1>4. ASSUME NEW k \in Handlers PROVE CallOK(k)'
  <2>1. CASE call' = call
    BY <2>1, CallFrame DEF IInv
  <2>2. CASE Crash
    <3>1. call'[k] = Idle
      BY <2>2 DEF Crash
    <3> QED BY <3>1 DEF Idle, CallOK
  <2> QED BY <2>1, <2>2 DEF World, SubmitAgain, TimePasses, LeavePage, vars
<1> QED BY <1>2, <1>3, <1>4 DEF IInv

LEMMA InvInit == Init => IInv
<1> SUFFICES ASSUME Init PROVE IInv
  OBVIOUS
<1>1. TypeOK
  BY TypeInit
<1>2. Taken = {} /\ \A n \in Numbers : ~Closed(n)
  BY DEF Init, Taken, Closed
<1>3. NoGaps
  <2>1. Taken = 1..0 /\ 0 \in 0..MaxRows
    BY <1>2
  <2> QED BY <2>1 DEF NoGaps
<1>4. OnlyLastOpen /\ AttemptLimit
  BY <1>2 DEF OnlyLastOpen, AttemptLimit
<1>5. BookIsGraded /\ held \subseteq Taken
  BY <1>2 DEF Init, BookIsGraded
<1>6. ASSUME NEW h \in Handlers PROVE CallOK(h)
  <2>1. call[h] = Idle
    BY DEF Init
  <2> QED BY <2>1 DEF Idle, CallOK
<1> QED BY <1>1, <1>3, <1>4, <1>5, <1>6 DEF IInv

LEMMA InvStep == IInv /\ [Next]_vars => IInv'
<1> SUFFICES ASSUME IInv, [Next]_vars PROVE IInv'
  OBVIOUS
<1>1. TypeOK' /\ Kept
  BY TypeStep, StepKept
<1>2. ASSUME NEW h \in Handlers, HandlerStep(h) PROVE IInv'
  BY <1>1, <1>2, SweepInv, StartInv, SubmitInv DEF HandlerStep
<1>3. ASSUME NEW h \in Handlers, Incoming(h) PROVE IInv'
  BY <1>1, <1>3, IncomingInv
<1>4. CASE World \/ UNCHANGED vars
  BY <1>1, <1>4, WorldInv
<1> QED BY <1>2, <1>3, <1>4 DEF Next

(* The inductive invariant holds in every behaviour. *)
THEOREM Invariant == Spec => []IInv
  BY InvInit, InvStep, PTL DEF Spec

(* Every variable keeps its type in every behaviour. *)
THEOREM TypeCorrect == Spec => []TypeOK
<1>1. IInv => TypeOK
  BY DEF IInv
<1> QED BY <1>1, Invariant, PTL

(* At most one attempt is in progress at a time, however many tabs, retries *)
(* and crashes there are.                                                   *)
LEMMA InvOneInProgress == IInv => OneInProgress
<1> SUFFICES ASSUME IInv, NEW m \in Numbers, NEW n \in Numbers, m < n,
                    status[m] = "in_progress", status[n] = "in_progress"
             PROVE  FALSE
  BY DEF OneInProgress, Numbers
<1>1. PICK k \in 0..MaxRows : Taken = 1..k
  BY DEF IInv, NoGaps
<1>2. m \in Taken /\ m + 1 \in Taken
  BY <1>1 DEF Taken, Numbers
<1> QED BY <1>2 DEF IInv, OnlyLastOpen, Closed

(* However many tabs call startQuizAttempt at once, at most one attempt of  *)
(* the learner is in progress.                                              *)
THEOREM OneAttemptAtATime == Spec => []OneInProgress
  BY InvOneInProgress, Invariant, PTL

(* No row disappears and no closed attempt is reopened. *)
THEOREM ClosedStaysClosed == Spec => ClosedForGood
<1>1. IInv /\ [Next]_vars => [Kept]_vars
  BY StepKept
<1> QED BY <1>1, Invariant, PTL DEF Spec, ClosedForGood

-----------------------------------------------------------------------------
(* As long as no two calls of the learner ever overlapped, what a call has *)
(* read is still true when it acts on it: the attempts it is to close are  *)
(* in progress with the answers read, the grade it is to enter is the one  *)
(* the attempt has, and what it is to mark was not submitted before.       *)

StillTrue(h) ==
  LET c == call[h] IN
  /\ \A s \in c.stale : status[s[1]] = "in_progress" /\ answers[s[1]] = s[2]
  /\ c.pc \in {"sweepBook", "book"} => grade[c.n] = Percent(c.sent)
  /\ c.pc = "mark" => status[c.n] \in {"in_progress", "expired"} /\ c.stale = {}

Earned == \A n \in Numbers : Closed(n) => grade[n] = Percent(answers[n])

BookSettled ==
  \/ book.attempt = None /\ \A n \in Numbers : ~Closed(n)
  \/ book.attempt # None /\ book.percent = grade[book.attempt]

Entering(h) == call[h].pc \in {"sweepBook", "book"}

Alone ==
  ~crossed =>
    /\ \A h, k \in Handlers : ~IsIdle(h) /\ ~IsIdle(k) => h = k
    /\ \A h \in Handlers : ~IsIdle(h) => StillTrue(h)
    /\ Earned
    /\ faults = 0 => BookSettled \/ \E h \in Handlers : Entering(h)

LEMMA AloneInit == Init => Alone
  BY DEF Init, Alone, IsIdle, Idle, Earned, Closed, BookSettled, None

(* The one call in flight moves. *)
LEMMA AloneMoves ==
  ASSUME Alone, ~crossed, NEW h \in Handlers, ~IsIdle(h),
         \A k \in Handlers \ {h} : call'[k] = call[k],
         IsIdle(h)' \/ StillTrue(h)', Earned',
         faults' = 0 => BookSettled' \/ Entering(h)'
  PROVE  Alone'
<1>1. \A k \in Handlers \ {h} : IsIdle(k) /\ IsIdle(k)'
  BY DEF Alone, IsIdle
<1> QED BY <1>1 DEF Alone

(* Closing an attempt with the answers it is left with earns its grade. *)
LEMMA EarnedClose ==
  ASSUME TypeOK, Earned, NEW n \in Numbers, NEW result, NEW right, CloseAs(n, result, right),
         answers'[n] = right, \A m \in Numbers \ {n} : answers'[m] = answers[m]
  PROVE  Earned' /\ grade'[n] = Percent(right)
<1>1. /\ status'[n] = result /\ grade'[n] = Percent(right)
      /\ \A m \in Numbers \ {n} : status'[m] = status[m] /\ grade'[m] = grade[m]
  BY DEF TypeOK, CloseAs
<1> QED BY <1>1 DEF Earned, Closed

LEMMA EarnedSame ==
  ASSUME Earned, UNCHANGED <<status, answers, grade>>
  PROVE  Earned'
  BY DEF Earned, Closed

LEMMA SettledSame ==
  ASSUME BookSettled, UNCHANGED <<status, grade, book>>
  PROVE  BookSettled'
  BY DEF BookSettled, Closed

(* A step of a call is a call's that is in flight, and starts none. *)
LEMMA HandlerMoves ==
  ASSUME NEW h \in Handlers, HandlerStep(h)
  PROVE  ~IsIdle(h) /\ crossed' = crossed
<1>1. ~IsIdle(h)
  BY DEF HandlerStep, SweepUpdate, SweepBook, StatusRead, ListAttempts, InsertAttempt,
         MarkSubmitted, EnterGrade, CompleteLesson, At, IsIdle
<1>2. crossed' = crossed
  BY DEF HandlerStep, SweepUpdate, SweepBook, StatusRead, ListAttempts, InsertAttempt,
         MarkSubmitted, EnterGrade, CompleteLesson
<1> QED BY <1>1, <1>2

LEMMA AloneHandler ==
  ASSUME IInv, Alone, ~crossed, NEW h \in Handlers, HandlerStep(h)
  PROVE  Alone'
<1>0. /\ TypeOK /\ CallOK(h) /\ call[h] \in Call /\ ~IsIdle(h)
      /\ StillTrue(h) /\ Earned
      /\ \A k \in Handlers \ {h} : IsIdle(k)
  BY HandlerMoves DEF IInv, TypeOK, Alone
<1>r. Return(h) => IsIdle(h)' /\ \A k \in Handlers \ {h} : call'[k] = call[k]
  BY <1>0 DEF Return, Idle, IsIdle, TypeOK
<1>b. faults = 0 /\ ~Entering(h) => BookSettled
  BY <1>0 DEF Alone, IsIdle, Entering
<1>1. CASE SweepUpdate(h)
  <2>1. PICK s \in call[h].stale :
          /\ CloseAs(s[1], "expired", s[2])
          /\ call' = [call EXCEPT ![h].pc = "sweepBook", ![h].n = s[1], ![h].sent = s[2],
                                  ![h].stale = @ \ {s}]
    BY <1>1 DEF SweepUpdate
  <2>2. s \in Numbers \X Answers /\ call[h].stale \subseteq Numbers \X Answers
    BY <1>0 DEF Call
  <2>3. s[1] \in Numbers /\ s[2] \in Answers /\ s = <<s[1], s[2]>> /\ answers[s[1]] = s[2]
    BY <1>0, <2>2 DEF StillTrue
  <2>4. /\ call'[h].pc = "sweepBook" /\ call'[h].n = s[1] /\ call'[h].sent = s[2]
        /\ call'[h].stale = call[h].stale \ {s}
        /\ \A k \in Handlers \ {h} : call'[k] = call[k]
    BY <1>0, <2>1 DEF Call, TypeOK
  <2>5. Earned' /\ grade'[s[1]] = Percent(s[2])
    BY <1>0, <1>1, <2>1, <2>3, EarnedClose DEF SweepUpdate
  <2>6. \A r \in call[h].stale \ {s} :
          status'[r[1]] = "in_progress" /\ answers'[r[1]] = r[2]
    <3> SUFFICES ASSUME NEW r \in call[h].stale \ {s}
                 PROVE  status'[r[1]] = "in_progress" /\ answers'[r[1]] = r[2]
      OBVIOUS
    <3>1. /\ r[1] \in Numbers /\ r = <<r[1], r[2]>>
          /\ status[r[1]] = "in_progress" /\ answers[r[1]] = r[2]
      BY <1>0, <2>2 DEF StillTrue
    <3>2. r[1] # s[1]
      BY <2>3, <3>1
    <3> QED BY <1>0, <1>1, <2>1, <3>1, <3>2 DEF CloseAs, SweepUpdate, TypeOK
  <2>7. StillTrue(h)'
    BY <2>4, <2>5, <2>6 DEF StillTrue
  <2>8. Entering(h)'
    BY <2>4 DEF Entering
  <2> QED BY <1>0, <2>4, <2>5, <2>7, <2>8, AloneMoves
<1>2. CASE SweepBook(h) \/ EnterGrade(h)
  <2>1. PICK s \in {"sweep", "finish"} : Goto(h, s)
    BY <1>2 DEF SweepBook, EnterGrade
  <2>2. /\ call'[h].pc = s /\ call'[h].stale = call[h].stale
        /\ \A k \in Handlers \ {h} : call'[k] = call[k]
    BY <1>0, <2>1 DEF Goto, Call, TypeOK
  <2>3. /\ call[h].n \in Numbers /\ grade[call[h].n] = Percent(call[h].sent)
        /\ book' = [attempt |-> call[h].n, percent |-> Percent(call[h].sent)]
    BY <1>0, <1>2 DEF SweepBook, EnterGrade, At, CallOK, StillTrue, Taken, UpsertGradebook
  <2>4. UNCHANGED <<status, answers, grade>>
    BY <1>2 DEF SweepBook, EnterGrade, attempts
  <2>5. BookSettled'
    <3>1. call[h].n # None
      BY <2>3 DEF Numbers, None
    <3> QED BY <2>3, <2>4, <3>1 DEF BookSettled
  <2>6. StillTrue(h)'
    BY <1>0, <2>1, <2>2, <2>4 DEF StillTrue
  <2> QED BY <1>0, <2>2, <2>4, <2>5, <2>6, EarnedSame, AloneMoves
<1>3. CASE StatusRead(h) \/ CompleteLesson(h)
  <2>1. UNCHANGED <<status, answers, grade, book, faults>> /\ Return(h) /\ ~Entering(h)
    BY <1>3 DEF StatusRead, CompleteLesson, At, Entering, attempts
  <2> QED BY <1>0, <1>r, <1>b, <2>1, EarnedSame, SettledSame, AloneMoves
<1>4. CASE ListAttempts(h)
  <2>1. UNCHANGED <<status, answers, grade, book, faults>> /\ ~Entering(h)
    BY <1>4 DEF ListAttempts, At, Entering, attempts
  <2>2. CASE Return(h)
    BY <1>0, <1>r, <1>b, <2>1, <2>2, EarnedSame, SettledSame, AloneMoves
  <2>3. CASE call' = [call EXCEPT ![h].pc = "insert", ![h].n = Cardinality(Taken) + 1]
    <3>1. /\ call'[h].pc = "insert" /\ call'[h].stale = call[h].stale
          /\ \A k \in Handlers \ {h} : call'[k] = call[k]
      BY <1>0, <2>3 DEF Call, TypeOK
    <3>2. StillTrue(h)'
      BY <1>0, <2>1, <3>1 DEF StillTrue
    <3> QED BY <1>0, <1>b, <2>1, <3>1, <3>2, EarnedSame, SettledSame, AloneMoves
  <2> QED BY <1>4, <2>2, <2>3 DEF ListAttempts
<1>5. CASE InsertAttempt(h)
  <2>1. UNCHANGED <<answers, grade, book, faults>> /\ Return(h) /\ ~Entering(h)
    BY <1>5 DEF InsertAttempt, At, Entering
  <2>2. \A n \in Numbers : Closed(n)' <=> Closed(n)
    BY <1>0, <1>5 DEF InsertAttempt, TypeOK, Closed
  <2>3. Earned'
    BY <1>0, <2>1, <2>2 DEF Earned
  <2>4. BookSettled => BookSettled'
    BY <2>1, <2>2 DEF BookSettled
  <2> QED BY <1>0, <1>r, <1>b, <2>1, <2>3, <2>4, AloneMoves
<1>6. CASE MarkSubmitted(h)
  <2>1. /\ call'[h].pc = "book" /\ call'[h].n = call[h].n /\ call'[h].sent = call[h].sent
        /\ call'[h].stale = call[h].stale
        /\ \A k \in Handlers \ {h} : call'[k] = call[k]
    BY <1>0, <1>6 DEF MarkSubmitted, Goto, Call, TypeOK
  <2>2. call[h].n \in Numbers
    BY <1>0, <1>6 DEF MarkSubmitted, At, CallOK, Taken
  <2>3. /\ answers'[call[h].n] = call[h].sent
        /\ \A m \in Numbers \ {call[h].n} : answers'[m] = answers[m]
    BY <1>0, <1>6, <2>2 DEF MarkSubmitted, TypeOK
  <2>4. Earned' /\ grade'[call[h].n] = Percent(call[h].sent)
    BY <1>0, <1>6, <2>2, <2>3, EarnedClose DEF MarkSubmitted
  <2>5. call[h].stale = {}
    BY <1>0, <1>6 DEF Alone, StillTrue, MarkSubmitted, At
  <2>6. StillTrue(h)'
    BY <2>1, <2>4, <2>5 DEF StillTrue
  <2>7. Entering(h)'
    BY <2>1 DEF Entering
  <2> QED BY <1>0, <2>1, <2>4, <2>6, <2>7, AloneMoves
<1> QED BY <1>1, <1>2, <1>3, <1>4, <1>5, <1>6 DEF HandlerStep

LEMMA AloneIncoming ==
  ASSUME IInv, Alone, ~crossed', NEW h \in Handlers, Incoming(h)
  PROVE  Alone'
<1>0. TypeOK
  BY DEF IInv
<1>1. /\ UNCHANGED <<status, answers, grade, book, faults>> /\ IsIdle(h)
      /\ ~crossed /\ \A k \in Handlers \ {h} : IsIdle(k) /\ call'[k] = call[k]
  BY <1>0 DEF Incoming, GetStatus, StartAttempt, Request, Submit, Begin, attempts, TypeOK
<1>2. StillTrue(h)'
  <2>1. CASE GetStatus(h) \/ StartAttempt(h)
    <3>1. call'[h].pc = "sweep" /\ call'[h].stale = Stale
      BY <1>0, <2>1 DEF GetStatus, StartAttempt, Request, Begin, Idle, TypeOK
    <3>2. \A s \in Stale : status[s[1]] = "in_progress" /\ answers[s[1]] = s[2]
      BY DEF Stale, Overdue
    <3> QED BY <1>1, <3>1, <3>2 DEF StillTrue
  <2>2. ASSUME NEW n \in Numbers, NEW right \in Answers, Submit(h, n, right)
        PROVE  StillTrue(h)'
    <3>1. call'[h].pc = "mark" /\ call'[h].n = n /\ call'[h].stale = {}
      BY <1>0, <2>2 DEF Submit, Begin, Idle, TypeOK
    <3> QED BY <1>1, <2>2, <3>1 DEF Submit, StillTrue
  <2> QED BY <2>1, <2>2 DEF Incoming
<1>3. Earned'
  BY <1>1, EarnedSame DEF Alone
<1>4. faults' = 0 => BookSettled'
  BY <1>1, SettledSame DEF Alone, Entering, IsIdle
<1>5. \A k \in Handlers \ {h} : IsIdle(k)'
  BY <1>1 DEF IsIdle
<1> QED BY <1>2, <1>3, <1>4, <1>5 DEF Alone

LEMMA AloneWorld ==
  ASSUME IInv, Alone, ~crossed', World \/ UNCHANGED vars
  PROVE  Alone'
<1>1. UNCHANGED <<status, answers, grade, book, crossed>>
  BY DEF World, SubmitAgain, TimePasses, LeavePage, Crash, attempts, vars
<1>2. Earned'
  BY <1>1, EarnedSame DEF Alone
<1>3. CASE call' = call /\ faults' = faults
  BY <1>1, <1>2, <1>3, SettledSame DEF Alone, IsIdle, StillTrue, Entering
<1>4. CASE Crash
  <2>1. \A h \in Handlers : IsIdle(h)'
    BY <1>4 DEF Crash, IsIdle, Idle
  <2>2. faults' # 0
    BY <1>4 DEF Crash, IInv, TypeOK
  <2> QED BY <1>1, <1>2, <2>1, <2>2 DEF Alone
<1> QED BY <1>3, <1>4 DEF World, SubmitAgain, TimePasses, LeavePage, vars

LEMMA AloneStep == IInv /\ Alone /\ [Next]_vars => Alone'
<1> SUFFICES ASSUME IInv, Alone, [Next]_vars, ~crossed' PROVE Alone'
  BY DEF Alone
<1>1. ASSUME NEW h \in Handlers, HandlerStep(h) PROVE Alone'
  BY <1>1, HandlerMoves, AloneHandler
<1>2. ASSUME NEW h \in Handlers, Incoming(h) PROVE Alone'
  BY <1>2, AloneIncoming
<1>3. CASE World \/ UNCHANGED vars
  BY <1>3, AloneWorld
<1> QED BY <1>1, <1>2, <1>3 DEF Next

LEMMA AloneInvariant == Spec => []Alone
  BY Invariant, AloneInit, AloneStep, PTL DEF Spec

(* Unless two calls of the learner overlapped, the grade of a closed       *)
(* attempt is the grade of the answers kept with it: finaliseExpired-      *)
(* Attempts and submitQuizAttempt grade what they store.  And unless the   *)
(* process died, between calls the gradebook row says what the attempt it  *)
(* names says.                                                             *)
THEOREM GradesAreEarned == Spec => []GradesInv
<1>1. Alone => GradeIsEarned
  BY DEF Alone, Earned, GradeIsEarned
<1>2. Alone => BookAgrees
  BY DEF Alone, BookSettled, BookAgrees, Entering, IsIdle
<1>3. Alone => GradesInv
  BY <1>1, <1>2 DEF GradesInv
<1> QED BY <1>3, AloneInvariant, PTL

(* Unless two calls overlapped, no step of submitQuizAttempt or of         *)
(* finaliseExpiredAttempts grades again what was submitted in time.        *)
THEOREM SubmittedStays == Spec => SubmittedIsFinal
<1> DEFINE Stays == ~crossed' => \A n \in Numbers : status[n] = "submitted" =>
                       status'[n] = "submitted" /\ grade'[n] = grade[n]
<1>1. ASSUME IInv, Alone, Next, ~crossed',
             NEW n \in Numbers, status[n] = "submitted"
      PROVE  status'[n] = "submitted" /\ grade'[n] = grade[n]
  <2>0. TypeOK
    BY <1>1 DEF IInv
  <2>1. CASE UNCHANGED <<status, grade>>
    BY <1>1, <2>1
  <2>2. ASSUME NEW h \in Handlers, NEW m \in Numbers \ {n}, NEW result, NEW right,
               CloseAs(m, result, right)
        PROVE  status'[n] = "submitted" /\ grade'[n] = grade[n]
    BY <1>1, <2>0, <2>2 DEF CloseAs, TypeOK
  <2>3. ASSUME NEW h \in Handlers, HandlerStep(h)
        PROVE  status'[n] = "submitted" /\ grade'[n] = grade[n]
    <3>1. ~IsIdle(h) /\ ~crossed
      BY <1>1, <2>3, HandlerMoves
    <3>2. StillTrue(h) /\ CallOK(h) /\ call[h] \in Call
      BY <1>1, <2>0, <3>1 DEF Alone, IInv, TypeOK
    <3>3. CASE SweepUpdate(h)
      <4>1. PICK s \in call[h].stale : CloseAs(s[1], "expired", s[2])
        BY <3>3 DEF SweepUpdate
      <4>2. s[1] \in Numbers \ {n}
        BY <1>1, <3>2, <4>1 DEF StillTrue, CallOK, Taken
      <4> QED BY <2>2, <4>1, <4>2
    <3>4. CASE MarkSubmitted(h)
      <4>1. call[h].n \in Numbers \ {n}
        BY <1>1, <3>2, <3>4 DEF StillTrue, CallOK, Taken, MarkSubmitted, At
      <4> QED BY <2>2, <3>4, <4>1 DEF MarkSubmitted
    <3>5. CASE InsertAttempt(h)
      BY <1>1, <2>0, <3>5 DEF InsertAttempt, TypeOK
    <3> QED BY <2>1, <2>3, <3>3, <3>4, <3>5
            DEF HandlerStep, SweepBook, StatusRead, ListAttempts, EnterGrade, CompleteLesson,
                attempts
  <2>4. CASE World \/ \E h \in Handlers : Incoming(h)
    BY <2>1, <2>4 DEF World, SubmitAgain, TimePasses, LeavePage, Crash, Incoming, GetStatus,
                      StartAttempt, Request, Submit, attempts
  <2> QED BY <1>1, <2>3, <2>4 DEF Next
<1>2. IInv /\ Alone /\ [Next]_vars => [Stays]_vars
  BY <1>1
<1> QED BY <1>2, Invariant, AloneInvariant, PTL DEF Spec, SubmittedIsFinal

-----------------------------------------------------------------------------
(* Quiz implements Attempts: inserting a row starts an attempt, closing an *)
(* attempt in progress closes it, and every other step is a stutter; so is *)
(* closing again what is closed.                                           *)

Open == {n \in Numbers : status[n] = "in_progress"}

LEMMA MapInit == Init => A!Init
  BY DEF Init, A!Init, Taken, Numbers

LEMMA MapSame == ASSUME status' = status PROVE UNCHANGED A!vars
  BY DEF A!vars, Taken

LEMMA MapClose ==
  ASSUME IInv, NEW n \in Taken, NEW result \in {"submitted", "expired"}, NEW right,
         CloseAs(n, result, right)
  PROVE  A!Next \/ UNCHANGED A!vars
<1>1. TypeOK /\ n \in Numbers
  BY DEF IInv, Taken
<1>2. Taken' = Taken
  BY <1>1, CloseKeeps
<1>3. Open' = Open \ {n}
  BY <1>1 DEF Open, CloseAs, TypeOK
<1>4. CASE status[n] = "in_progress"
  <2>1. OneInProgress
    BY InvOneInProgress
  <2>2. Open = {n}
    BY <1>1, <1>4, <2>1 DEF Open, OneInProgress
  <2>3. A!Close(n)
    BY <1>2, <1>3, <2>2 DEF A!Close, Open
  <2> QED BY <1>1, <2>3 DEF A!Next
<1>5. CASE status[n] # "in_progress"
  <2>1. Open' = Open
    BY <1>3, <1>5 DEF Open
  <2> QED BY <1>2, <2>1 DEF A!vars, Open
<1> QED BY <1>4, <1>5

LEMMA MapInsert ==
  ASSUME IInv, NEW h \in Handlers, InsertAttempt(h)
  PROVE  A!Next \/ UNCHANGED A!vars
<1> DEFINE n == call[h].n
<1>0. /\ TypeOK /\ n \in Numbers /\ \A m \in 1..(n - 1) : Closed(m)
      /\ MaxAttempts > 0 => n <= MaxAttempts
  BY DEF IInv, InsertAttempt, At, CallOK
<1>1. CASE status[n] # "none"
  BY <1>1, MapSame DEF InsertAttempt
<1>2. CASE status[n] = "none"
  <2>1. status' = [status EXCEPT ![n] = "in_progress"]
    BY <1>2 DEF InsertAttempt
  <2>2. Taken' = Taken \union {n} /\ Open' = Open \union {n}
    BY <1>0, <1>2, <2>1 DEF Taken, Open, TypeOK
  <2>3. PICK k \in 0..MaxRows : Taken = 1..k
    BY DEF IInv, NoGaps
  <2>4. n - 1 > 0 => n - 1 \in Taken
    BY <1>0 DEF Closed, Taken, Numbers
  <2>5. k = n - 1
    BY <1>0, <1>2, <2>3, <2>4 DEF Taken, Numbers
  <2>6. Taken = 1..(n - 1) /\ Taken' = 1..n
    BY <1>0, <2>2, <2>3, <2>5 DEF Numbers
  <2>7. Open = {}
    BY <1>0, <2>6 DEF Open, Closed, Taken
  <2>8. MaxAttempts = 0 \/ n <= MaxAttempts
    BY <1>0
  <2>9. PICK a \in Numbers : a = n
    BY <1>0
  <2>10. A!Start(a)
    BY <2>2, <2>6, <2>7, <2>8, <2>9 DEF A!Start, Open
  <2> QED BY <2>10 DEF A!Next
<1> QED BY <1>1, <1>2

LEMMA MapStep == IInv /\ [Next]_vars => [A!Next]_(A!vars)
<1> SUFFICES ASSUME IInv, [Next]_vars PROVE A!Next \/ UNCHANGED A!vars
  OBVIOUS
<1>0. \A h \in Handlers : CallOK(h)
  BY DEF IInv
<1>1. ASSUME NEW h \in Handlers, HandlerStep(h) PROVE A!Next \/ UNCHANGED A!vars
  <2>1. CASE SweepUpdate(h)
    <3>1. PICK s \in call[h].stale : CloseAs(s[1], "expired", s[2])
      BY <2>1 DEF SweepUpdate
    <3>2. s[1] \in Taken
      BY <1>0, <3>1 DEF CallOK
    <3> QED BY <3>1, <3>2, MapClose
  <2>2. CASE MarkSubmitted(h)
    <3>1. call[h].n \in Taken /\ call[h].goal \in {"submitted", "expired"}
      BY <1>0, <2>2 DEF MarkSubmitted, At, CallOK
    <3> QED BY <2>2, <3>1, MapClose DEF MarkSubmitted
  <2>3. CASE InsertAttempt(h)
    BY <2>3, MapInsert
  <2>4. CASE status' = status
    BY <2>4, MapSame
  <2> QED BY <1>1, <2>1, <2>2, <2>3, <2>4
          DEF HandlerStep, SweepBook, StatusRead, ListAttempts, EnterGrade, CompleteLesson, attempts
<1>2. ASSUME NEW h \in Handlers, Incoming(h) PROVE UNCHANGED A!vars
  BY <1>2, MapSame DEF Incoming, GetStatus, StartAttempt, Request, Submit, attempts
<1>3. CASE World \/ UNCHANGED vars
  BY <1>3, MapSame DEF World, SubmitAgain, TimePasses, LeavePage, Crash, attempts, vars
<1> QED BY <1>1, <1>2, <1>3 DEF Next

(* Attempts are given out one at a time and within the limit: Quiz          *)
(* implements Attempts.                                                     *)
THEOREM ImplementsAttempts == Spec => AttemptsSpec
  BY MapInit, MapStep, Invariant, PTL DEF Spec, AttemptsSpec, A!Spec
=============================================================================
