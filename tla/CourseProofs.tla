---------------------------- MODULE CourseProofs ----------------------------
(***************************************************************************)
(* What Services guarantees around one course: its builder, its place in   *)
(* the catalogue and its discussions, for any number of rows, posts, calls *)
(* in flight, crashes and failures.                                        *)
(***************************************************************************)
EXTENDS Services, Integers, FiniteSetTheorems, WellFoundedInduction, TLAPS

USE ServicesAssumption

-----------------------------------------------------------------------------
(* The course builder: positions                                           *)

(* Smaller-than is well founded: numbers have a least one.                 *)
LEMMA LessThanWellFounded == IsWellFoundedOn({p \in Nat \X Nat : p[1] < p[2]}, Nat)
BY NatLessThanWellFounded DEF OpToRel

LEMMA LeastNumber ==
  ASSUME NEW T \in SUBSET Nat, T # {}
  PROVE  \E n \in T : \A m \in T : n <= m
<1> DEFINE R == {p \in Nat \X Nat : p[1] < p[2]}
<1>1. IsWellFoundedOn(R, Nat)
  BY LessThanWellFounded
<1>2. ASSUME NEW m \in Nat, NEW n \in Nat, m < n PROVE <<m, n>> \in R
  BY <1>2
<1> HIDE DEF R
<1>3. PICK n \in T : \A m \in T : ~(<<m, n>> \in R)
  BY <1>1, WFMin
<1>4. ASSUME NEW m \in T PROVE n <= m
  <2>1. m \in Nat /\ n \in Nat
    OBVIOUS
  <2>2. ~(m < n)
    BY <1>2, <1>3, <2>1
  <2> QED BY <2>1, <2>2
<1> QED BY <1>4

(* A finite set of numbers has a greatest one: the smallest that had none  *)
(* would have one with an element less.                                    *)
LEMMA FiniteGreatest ==
  ASSUME NEW S \in SUBSET Nat, IsFiniteSet(S), S # {}
  PROVE  \E x \in S : \A y \in S : y <= x
<1> DEFINE Bounded(T) == \E x \in T : \A y \in T : y <= x
           Bad(T) == T \in SUBSET Nat /\ T # {} /\ IsFiniteSet(T) /\ ~Bounded(T)
           Sizes == {n \in Nat : \E T \in SUBSET Nat : Bad(T) /\ Cardinality(T) = n}
<1> SUFFICES ASSUME ~Bounded(S) PROVE FALSE
  OBVIOUS
<1>1. Cardinality(S) \in Sizes
  BY FS_CardinalityType
<1>2. PICK n \in Sizes : \A m \in Sizes : n <= m
  BY <1>1, LeastNumber
<1>3. PICK T \in SUBSET Nat : Bad(T) /\ Cardinality(T) = n
  BY <1>2
<1>4. PICK t \in T : TRUE
  BY <1>3
<1> DEFINE U == T \ {t}
<1>5. IsFiniteSet(U) /\ Cardinality(U) = n - 1 /\ n \in Nat /\ Cardinality(U) \in Nat
  BY <1>3, <1>4, FS_RemoveElement, FS_CardinalityType
<1>6. CASE U = {}
  <2>1. \A y \in T : y <= t
    BY <1>6
  <2> QED BY <1>3, <1>4, <2>1
<1>7. CASE U # {}
  <2>1. ~Bad(U)
    <3> SUFFICES ASSUME Bad(U) PROVE FALSE
      OBVIOUS
    <3>1. Cardinality(U) \in Sizes
      BY <1>5
    <3> HIDE DEF Sizes, U
    <3>2. n <= Cardinality(U)
      BY <1>2, <3>1
    <3> QED BY <1>5, <3>2
  <2>2. PICK x \in U : \A y \in U : y <= x
    BY <1>5, <1>7, <2>1
  <2>3. x \in Nat /\ t \in Nat
    BY <1>4
  <2>4. CASE t <= x
    <3>1. x \in T /\ \A y \in T : y <= x
      BY <2>2, <2>4
    <3> QED BY <1>3, <3>1
  <2>5. CASE ~(t <= x)
    <3>1. \A y \in T : y <= t
      BY <2>2, <2>3, <2>5
    <3> QED BY <1>3, <1>4, <3>1
  <2> QED BY <2>4, <2>5
<1> QED BY <1>6, <1>7

(* The next position follows all that are taken.                           *)
LEMMA NextIsFree ==
  ASSUME NEW taken \in SUBSET Nat, IsFiniteSet(taken)
  PROVE  Builder!NextPosition(taken) \in Nat /\ Builder!NextPosition(taken) \notin taken
<1> DEFINE S == {0} \union taken
<1>1. S \in SUBSET Nat /\ S # {} /\ IsFiniteSet(S)
  <2>1. IsFiniteSet(taken \union {0})
    BY FS_AddElement
  <2>2. S = taken \union {0}
    OBVIOUS
  <2> QED BY <2>1, <2>2
<1> HIDE DEF S
<1>2. \E x \in S : \A y \in S : x >= y
  <2>1. PICK x \in S : \A y \in S : y <= x
    BY <1>1, FiniteGreatest
  <2> QED BY <1>1, <2>1
<1>3. Builder!Max(S) \in S /\ \A y \in S : Builder!Max(S) >= y
  BY <1>2 DEF Builder!Max
<1>4. taken \subseteq S
  BY DEF S
<1>5. Builder!NextPosition(taken) = 1 + Builder!Max(S)
  BY DEF Builder!NextPosition, S
<1> DEFINE m == Builder!Max(S)
<1>6. m \in Nat /\ \A y \in taken : y \in Nat /\ m >= y
  BY <1>1, <1>3, <1>4
<1> HIDE DEF m
<1>7. 1 + m \in Nat /\ 1 + m \notin taken
  BY <1>6
<1> QED BY <1>5, <1>7 DEF m

LEMMA BuilderFacts ==
  ASSUME Builder!AuthoringInv
  PROVE  /\ Builder!TypeOK /\ Builder!EveryLessonShown /\ Builder!AuthorsDecide
         /\ Builder!Housed /\ Builder!Alone
         /\ refused \union announced \subseteq Builder!Written
         /\ \A a \in Calls : Builder!AuthorOK(a) /\ authored[a] \in Builder!Authored
         /\ drafts \in [Drafts -> Builder!Draft] /\ chapters \in [Chapters -> Builder!Chapter]
         /\ pages \in [Pages -> Builder!Page] /\ authored \in [Calls -> Builder!Authored]
         /\ announced \in SUBSET Pages /\ refused \in SUBSET Pages
         /\ discarded \in SUBSET Pages /\ clashed \in BOOLEAN /\ rivals \in BOOLEAN
         /\ changes \in 0..MaxChanges /\ breaks \in 0..MaxBreaks
BY DEF Builder!AuthoringInv, Builder!TypeOK

LEMMA TakenPositions ==
  ASSUME Builder!AuthoringInv, NEW d
  PROVE  /\ Builder!PositionsIn(chapters, d) \in SUBSET Nat
         /\ IsFiniteSet(Builder!PositionsIn(chapters, d))
         /\ Builder!PositionsIn(pages, d) \in SUBSET Nat
         /\ IsFiniteSet(Builder!PositionsIn(pages, d))
<1>1. ASSUME NEW K, IsFiniteSet(K), NEW table, DOMAIN table = K,
             \A k \in K : table[k].position \in Nat
      PROVE  /\ Builder!PositionsIn(table, d) \in SUBSET Nat
             /\ IsFiniteSet(Builder!PositionsIn(table, d))
  <2> DEFINE R == {r \in Builder!Rows(table) : table[r].draft = d}
             f == [r \in R |-> table[r].position]
  <2>1. R \subseteq K
    BY <1>1 DEF Builder!Rows
  <2>2. IsFiniteSet(R)
    BY <1>1, <2>1, FS_Subset
  <2>3. Builder!PositionsIn(table, d) = {f[r] : r \in R}
    BY DEF Builder!PositionsIn
  <2> DEFINE T == {f[r] : r \in R}
  <2>4. f \in Surjection(R, T)
    BY DEF Surjection
  <2>5. IsFiniteSet(T)
    BY <2>2, <2>4, FS_Surjection
  <2>6. T \in SUBSET Nat
    BY <1>1, <2>1
  <2> QED BY <2>3, <2>5, <2>6
<1>2. chapters \in [Chapters -> Builder!Chapter] /\ pages \in [Pages -> Builder!Page]
  BY BuilderFacts
<1>3. DOMAIN chapters = Chapters /\ \A k \in Chapters : chapters[k].position \in Nat
  BY <1>2 DEF Builder!Chapter
<1>4. DOMAIN pages = Pages /\ \A k \in Pages : pages[k].position \in Nat
  BY <1>2 DEF Builder!Page
<1> QED BY <1>1, <1>3, <1>4

-----------------------------------------------------------------------------
(* The course builder: how calls move                                      *)

LEMMA AuthorIdle ==
  /\ Builder!Idle \in Builder!Authored /\ Builder!Idle.pc = "idle"
  /\ Builder!Step = {"idle", "slug", "course", "patchcourse", "maxmodule", "module",
                     "maxlesson", "lesson", "announce", "patch", "deletemodule", "unassign",
                     "deletelesson"}
BY DEF Builder!Idle, Builder!Authored, Builder!Step, Builder!Told

LEMMA AuthorReturns ==
  ASSUME Builder!TypeOK, NEW a \in Calls, Builder!Return(a)
  PROVE  /\ authored' \in [Calls -> Builder!Authored] /\ authored'[a].pc = "idle"
         /\ \A b \in Calls \ {a} : authored'[b] = authored[b]
         /\ Builder!AuthorOK(a)'
<1>1. /\ authored \in [Calls -> Builder!Authored]
      /\ authored' = [authored EXCEPT ![a] = Builder!Idle]
  BY DEF Builder!TypeOK, Builder!Return
<1>2. authored'[a].pc = "idle"
  BY <1>1, AuthorIdle
<1>3. Builder!AuthorOK(a)'
  BY <1>2 DEF Builder!AuthorOK
<1> QED BY <1>1, <1>2, <1>3, AuthorIdle

(* A call goes on to the step s, with the number n.                        *)
LEMMA AuthorGoes ==
  ASSUME Builder!TypeOK, NEW a \in Calls, NEW s \in Builder!Step, NEW n \in Nat,
         \/ authored' = [authored EXCEPT ![a].pc = s] /\ n = authored[a].n
         \/ authored' = [authored EXCEPT ![a].pc = s, ![a].n = n]
         \/ authored' = [authored EXCEPT ![a].n = n] /\ s = authored[a].pc
  PROVE  /\ authored' \in [Calls -> Builder!Authored] /\ authored'[a].pc = s
         /\ authored'[a].n = n /\ authored'[a].draft = authored[a].draft
         /\ authored'[a].chapter = authored[a].chapter /\ authored'[a].page = authored[a].page
         /\ \A b \in Calls \ {a} : authored'[b] = authored[b]
<1> DEFINE k(r) == [r EXCEPT !.pc = s, !.n = n]
<1>1. ASSUME NEW r \in Builder!Authored
      PROVE  /\ k(r) \in Builder!Authored /\ k(r).pc = s /\ k(r).n = n
             /\ k(r).draft = r.draft /\ k(r).chapter = r.chapter /\ k(r).page = r.page
             /\ r.n = n => [r EXCEPT !.pc = s] = k(r)
             /\ r.pc = s => [r EXCEPT !.n = n] = k(r)
  BY DEF Builder!Authored
<1>2. authored \in [Calls -> Builder!Authored] /\ authored[a] \in Builder!Authored
  BY DEF Builder!TypeOK
<1>3. authored' = [authored EXCEPT ![a] = k(authored[a])]
  <2>1. CASE authored' = [authored EXCEPT ![a].pc = s] /\ n = authored[a].n
    <3>1. authored' = [authored EXCEPT ![a] = [authored[a] EXCEPT !.pc = s]]
      BY <1>2, <2>1
    <3> QED BY <1>1, <1>2, <2>1, <3>1
  <2>2. CASE authored' = [authored EXCEPT ![a].pc = s, ![a].n = n]
    BY <1>2, <2>2
  <2>3. CASE authored' = [authored EXCEPT ![a].n = n] /\ s = authored[a].pc
    <3>1. authored' = [authored EXCEPT ![a] = [authored[a] EXCEPT !.n = n]]
      BY <1>2, <2>3
    <3> QED BY <1>1, <1>2, <2>3, <3>1
  <2> QED BY <2>1, <2>2, <2>3
<1> HIDE DEF k
<1>4. authored'[a] = k(authored[a]) /\ \A b \in Calls \ {a} : authored'[b] = authored[b]
  BY <1>2, <1>3
<1> QED BY <1>1, <1>2, <1>3, <1>4

LEMMA AuthorBegins ==
  ASSUME Builder!TypeOK, NEW a \in Calls, NEW c \in Builder!Authored, Builder!Begin(a, c)
  PROVE  /\ authored' \in [Calls -> Builder!Authored] /\ authored'[a] = c
         /\ authored[a].pc = "idle" /\ changes' \in 0..MaxChanges
         /\ \A b \in Calls \ {a} : authored'[b] = authored[b]
         /\ rivals' = (rivals \/ \E b \in Calls \ {a} : authored[b].pc # "idle")
         /\ rivals' \in BOOLEAN /\ (rivals => rivals')
         /\ rivals' \/ \A b \in Calls \ {a} : authored[b].pc = "idle"
         /\ UNCHANGED <<drafts, chapters, pages, announced, refused, discarded, clashed, breaks>>
<1>1. /\ authored \in [Calls -> Builder!Authored] /\ authored' = [authored EXCEPT ![a] = c]
      /\ changes \in 0..MaxChanges /\ changes < MaxChanges /\ changes' = changes + 1
      /\ rivals \in BOOLEAN
  BY DEF Builder!TypeOK, Builder!Begin
<1>2. /\ authored[a].pc = "idle"
      /\ rivals' = (rivals \/ \E b \in Calls \ {a} : authored[b].pc # "idle")
      /\ UNCHANGED <<drafts, chapters, pages, announced, refused, discarded, clashed, breaks>>
  BY DEF Builder!Begin, Builder!At
<1>3. rivals' \in BOOLEAN /\ (rivals => rivals')
      /\ (rivals' \/ \A b \in Calls \ {a} : authored[b].pc = "idle")
  BY <1>1, <1>2, Zenon
<1> QED BY <1>1, <1>2, <1>3

(* A call a takes a step: unless calls overlapped, the others are idle.    *)
LEMMA AuthorCall ==
  ASSUME Builder!AuthoringInv, NEW a \in Calls,
         \A b \in Calls \ {a} : authored'[b] = authored[b], rivals => rivals',
         authored[a].pc # "idle" \/ authored'[a].pc # "idle",
         authored[a].pc = "idle" => rivals' \/ \A b \in Calls \ {a} : authored[b].pc = "idle",
         Builder!Written \subseteq Builder!Written',
         \A l \in Builder!Written : l \in refused' => l \in refused,
         refused' \union announced' \subseteq Builder!Written',
         Builder!TypeOK', Builder!Housed', Builder!AuthorsDecide', Builder!AuthorOK(a)'
  PROVE  Builder!AuthoringInv'
<1>0. Builder!Alone /\ \A b \in Calls : Builder!AuthorOK(b)
  BY BuilderFacts
<1>1. ~rivals' => \A b \in Calls \ {a} : authored[b].pc = "idle"
  BY <1>0 DEF Builder!Alone, Builder!At
<1>2. Builder!Alone'
  BY <1>1 DEF Builder!Alone, Builder!At
<1>3. \A b \in Calls : Builder!AuthorOK(b)'
  <2> SUFFICES ASSUME NEW b \in Calls \ {a} PROVE Builder!AuthorOK(b)'
    OBVIOUS
  <2>1. authored'[b] = authored[b] /\ Builder!AuthorOK(b) /\ (~rivals' => authored'[b].pc = "idle")
    BY <1>0, <1>1
  <2> QED BY <2>1 DEF Builder!AuthorOK
<1>4. Builder!EveryLessonShown'
  BY DEF Builder!Housed, Builder!EveryLessonShown, Builder!LessonsShown, Builder!ModulesShown
<1> QED BY <1>2, <1>3, <1>4 DEF Builder!AuthoringInv

(* A call that writes no row.                                              *)
LEMMA QuietAuthor ==
  ASSUME Builder!AuthoringInv, NEW a \in Calls,
         UNCHANGED <<drafts, chapters, pages, announced, refused, discarded, clashed>>,
         authored' \in [Calls -> Builder!Authored],
         \A b \in Calls \ {a} : authored'[b] = authored[b],
         rivals => rivals', rivals' \in BOOLEAN,
         changes' \in 0..MaxChanges, breaks' \in 0..MaxBreaks,
         authored[a].pc # "idle" \/ authored'[a].pc # "idle",
         authored[a].pc = "idle" => rivals' \/ \A b \in Calls \ {a} : authored[b].pc = "idle",
         Builder!AuthorOK(a)'
  PROVE  Builder!AuthoringInv'
<1>0. /\ Builder!TypeOK /\ Builder!Housed /\ Builder!AuthorsDecide
      /\ refused \union announced \subseteq Builder!Written
  BY BuilderFacts
<1>1. Builder!TypeOK'
  BY <1>0 DEF Builder!TypeOK
<1>2. Builder!Housed' /\ Builder!Written' = Builder!Written
  BY <1>0 DEF Builder!Housed, Builder!Rows, Builder!Written
<1>3. Builder!AuthorsDecide'
  BY <1>0 DEF Builder!AuthorsDecide
<1> QED BY <1>0, <1>1, <1>2, <1>3, AuthorCall

LEMMA AuthorInit == Builder!Init => Builder!AuthoringInv
<1> SUFFICES ASSUME Builder!Init PROVE Builder!AuthoringInv
  OBVIOUS
<1>1. /\ drafts = [d \in Drafts |-> [status |-> "none", slug |-> 0]]
      /\ chapters = [m \in Chapters |-> [status |-> "none", draft |-> None, position |-> 0]]
      /\ pages = [l \in Pages |-> [status |-> "none", draft |-> None, chapter |-> None,
                                   position |-> 0, published |-> FALSE, edited |-> FALSE]]
      /\ authored = [a \in Calls |-> Builder!Idle]
      /\ announced = {} /\ refused = {} /\ discarded = {} /\ clashed = FALSE /\ rivals = FALSE
      /\ changes = 0 /\ breaks = 0
  BY DEF Builder!Init
<1>2. drafts \in [Drafts -> Builder!Draft] /\ chapters \in [Chapters -> Builder!Chapter]
  BY <1>1 DEF Builder!Draft, Builder!Chapter
<1>3. pages \in [Pages -> Builder!Page]
  BY <1>1 DEF Builder!Page
<1>4. Builder!TypeOK
  <2>1. authored \in [Calls -> Builder!Authored] /\ changes \in 0..MaxChanges
        /\ breaks \in 0..MaxBreaks
    BY <1>1, AuthorIdle
  <2>2. /\ announced \in SUBSET Pages /\ refused \in SUBSET Pages /\ discarded \in SUBSET Pages
        /\ clashed \in BOOLEAN /\ rivals \in BOOLEAN
    BY <1>1
  <2> QED BY <1>2, <1>3, <2>1, <2>2 DEF Builder!TypeOK
<1>5. \A a \in Calls : authored[a].pc = "idle"
  BY <1>1, AuthorIdle
<1>6. \A a \in Calls : Builder!AuthorOK(a)
  BY <1>5 DEF Builder!AuthorOK
<1>7. Builder!Alone
  BY <1>5 DEF Builder!Alone, Builder!At
<1>8. Builder!Rows(pages) = {}
  BY <1>1 DEF Builder!Rows
<1>9. Builder!Housed /\ Builder!EveryLessonShown
  BY <1>8 DEF Builder!Housed, Builder!EveryLessonShown
<1>10. Builder!AuthorsDecide /\ refused \union announced \subseteq Builder!Written
  BY <1>1 DEF Builder!AuthorsDecide
<1> QED BY <1>4, <1>6, <1>7, <1>9, <1>10 DEF Builder!AuthoringInv

-----------------------------------------------------------------------------
(* The course builder: requests                                            *)

(* A request begins with what its handler found: c is the call it makes.   *)
LEMMA AuthorRequest ==
  ASSUME Builder!AuthoringInv, NEW a \in Calls, NEW c \in Builder!Authored, Builder!Begin(a, c),
         c.pc \in {"slug", "patchcourse", "maxmodule", "deletemodule", "maxlesson", "patch",
                   "deletelesson"},
         c.pc \in {"patchcourse", "maxmodule", "maxlesson"} => c.draft \in Drafts,
         c.pc = "deletemodule" => c.chapter \in Chapters,
         c.pc \in {"patch", "deletelesson"} => c.page \in Builder!Written,
         c.pc = "maxlesson" /\ c.chapter # None => c.chapter \in Builder!Rows(chapters)
  PROVE  Builder!AuthoringInv'
<1>0. Builder!TypeOK /\ breaks \in 0..MaxBreaks
  BY BuilderFacts
<1>1. /\ authored' \in [Calls -> Builder!Authored] /\ authored'[a] = c
      /\ authored[a].pc = "idle" /\ changes' \in 0..MaxChanges
      /\ \A b \in Calls \ {a} : authored'[b] = authored[b]
      /\ rivals' \in BOOLEAN /\ (rivals => rivals')
      /\ rivals' \/ \A b \in Calls \ {a} : authored[b].pc = "idle"
      /\ UNCHANGED <<drafts, chapters, pages, announced, refused, discarded, clashed, breaks>>
  BY <1>0, AuthorBegins
<1>2. Builder!Written' = Builder!Written /\ Builder!Rows(chapters)' = Builder!Rows(chapters)
  BY <1>1 DEF Builder!Written, Builder!Rows
<1>3. Builder!AuthorOK(a)'
  BY <1>1, <1>2 DEF Builder!AuthorOK
<1>4. authored'[a].pc # "idle" /\ breaks' \in 0..MaxBreaks
  BY <1>0, <1>1
<1> QED BY <1>1, <1>3, <1>4, QuietAuthor

LEMMA AuthorRequests ==
  ASSUME Builder!AuthoringInv, Builder!BuilderRequest
  PROVE  Builder!AuthoringInv'
<1>0. /\ drafts \in [Drafts -> Builder!Draft] /\ chapters \in [Chapters -> Builder!Chapter]
      /\ pages \in [Pages -> Builder!Page]
  BY BuilderFacts
<1>1. ASSUME NEW a \in Calls, Builder!CreateCourse(a) PROVE Builder!AuthoringInv'
  <2> DEFINE c == [Builder!Idle EXCEPT !.pc = "slug", !.n = 1]
  <2>1. c \in Builder!Authored /\ c.pc = "slug"
    BY DEF Builder!Idle, Builder!Authored, Builder!Step, Builder!Told
  <2>2. Builder!Begin(a, c)
    BY <1>1 DEF Builder!CreateCourse
  <2> HIDE DEF c
  <2> QED BY <2>1, <2>2, AuthorRequest
<1>2. ASSUME NEW a \in Calls, NEW d \in Drafts, Builder!PublishCourse(a, d)
      PROVE  Builder!AuthoringInv'
  <2> DEFINE c == [Builder!Idle EXCEPT !.pc = "patchcourse", !.draft = d]
  <2>1. c \in Builder!Authored /\ c.pc = "patchcourse" /\ c.draft = d
    BY DEF Builder!Idle, Builder!Authored, Builder!Step, Builder!Told
  <2>2. Builder!Begin(a, c)
    BY <1>2 DEF Builder!PublishCourse
  <2> HIDE DEF c
  <2> QED BY <2>1, <2>2, AuthorRequest
<1>3. ASSUME NEW a \in Calls, NEW d \in Drafts, Builder!AddModule(a, d)
      PROVE  Builder!AuthoringInv'
  <2> DEFINE c == [Builder!Idle EXCEPT !.pc = "maxmodule", !.draft = d]
  <2>1. c \in Builder!Authored /\ c.pc = "maxmodule" /\ c.draft = d
    BY DEF Builder!Idle, Builder!Authored, Builder!Step, Builder!Told
  <2>2. Builder!Begin(a, c)
    BY <1>3 DEF Builder!AddModule
  <2> HIDE DEF c
  <2> QED BY <2>1, <2>2, AuthorRequest
<1>4. ASSUME NEW a \in Calls, NEW d \in Drafts, NEW m \in Chapters \union {None},
             NEW told \in Builder!Told, Builder!AddLesson(a, d, m, told)
      PROVE  Builder!AuthoringInv'
  <2> DEFINE c == [Builder!Idle EXCEPT !.pc = "maxlesson", !.draft = d, !.chapter = m,
                     !.told = told, !.live = drafts[d].status = "published"]
  <2>0. (drafts[d].status = "published") \in BOOLEAN
    OBVIOUS
  <2>1. c \in Builder!Authored /\ c.pc = "maxlesson" /\ c.draft = d /\ c.chapter = m
    <3> DEFINE live == drafts[d].status = "published"
    <3> HIDE DEF live
    <3>1. live \in BOOLEAN
      BY <2>0 DEF live
    <3>2. Builder!Idle \in Builder!Authored /\ "maxlesson" \in Builder!Step
      BY AuthorIdle
    <3>3. ASSUME NEW r \in Builder!Authored
          PROVE  LET s == [r EXCEPT !.pc = "maxlesson", !.draft = d, !.chapter = m,
                             !.told = told, !.live = live] IN
                 s \in Builder!Authored /\ s.pc = "maxlesson" /\ s.draft = d /\ s.chapter = m
      BY <3>1, <3>2 DEF Builder!Authored
    <3> QED BY <3>2, <3>3 DEF live
  <2>2. Builder!Begin(a, c) /\ (m # None => chapters[m].status = "row")
    BY <1>4 DEF Builder!AddLesson
  <2>3. m # None => m \in Builder!Rows(chapters)
    BY <1>0, <2>2 DEF Builder!Rows
  <2> HIDE DEF c
  <2> QED BY <2>1, <2>2, <2>3, AuthorRequest
<1>5. ASSUME NEW a \in Calls, NEW m \in Chapters, Builder!DeleteModule(a, m)
      PROVE  Builder!AuthoringInv'
  <2> DEFINE c == [Builder!Idle EXCEPT !.pc = "deletemodule", !.chapter = m]
  <2>1. c \in Builder!Authored /\ c.pc = "deletemodule" /\ c.chapter = m
    BY DEF Builder!Idle, Builder!Authored, Builder!Step, Builder!Told
  <2>2. Builder!Begin(a, c)
    BY <1>5 DEF Builder!DeleteModule
  <2> HIDE DEF c
  <2> QED BY <2>1, <2>2, AuthorRequest
<1>6. ASSUME NEW a \in Calls, NEW l \in Pages, Builder!DeleteLesson(a, l)
      PROVE  Builder!AuthoringInv'
  <2> DEFINE c == [Builder!Idle EXCEPT !.pc = "deletelesson", !.page = l]
  <2>1. c \in Builder!Authored /\ c.pc = "deletelesson" /\ c.page = l
    BY DEF Builder!Idle, Builder!Authored, Builder!Step, Builder!Told
  <2>2. Builder!Begin(a, c) /\ l \in Builder!Written
    BY <1>6 DEF Builder!DeleteLesson, Builder!Written
  <2> HIDE DEF c
  <2> QED BY <2>1, <2>2, AuthorRequest
<1>7. ASSUME NEW a \in Calls, NEW l \in Pages, NEW told \in Builder!Told,
             Builder!UpdateLesson(a, l, told)
      PROVE  Builder!AuthoringInv'
  <2> DEFINE c == [Builder!Idle EXCEPT !.pc = "patch", !.page = l, !.told = told]
  <2>1. c \in Builder!Authored /\ c.pc = "patch" /\ c.page = l
    BY DEF Builder!Idle, Builder!Authored, Builder!Step
  <2>2. Builder!Begin(a, c) /\ l \in Builder!Written
    BY <1>7 DEF Builder!UpdateLesson, Builder!Written
  <2> HIDE DEF c
  <2> QED BY <2>1, <2>2, AuthorRequest
<1> QED BY <1>1, <1>2, <1>3, <1>4, <1>5, <1>6, <1>7 DEF Builder!BuilderRequest

-----------------------------------------------------------------------------
(* The course builder: steps that only look                                *)

LEMMA AuthorLooks ==
  ASSUME Builder!AuthoringInv, NEW a \in Calls,
         Builder!LookForSlug(a) \/ Builder!NextModulePosition(a) \/ Builder!NextLessonPosition(a)
  PROVE  Builder!AuthoringInv'
<1>0. /\ Builder!TypeOK /\ Builder!AuthorOK(a) /\ authored[a] \in Builder!Authored
      /\ rivals \in BOOLEAN /\ changes \in 0..MaxChanges /\ breaks \in 0..MaxBreaks
  BY BuilderFacts
<1> DEFINE c == authored[a]
<1>1. c.n \in Nat /\ c.pc \in Builder!Step
  BY <1>0 DEF Builder!Authored
<1>2. /\ UNCHANGED <<drafts, chapters, pages, announced, refused, discarded, clashed>>
      /\ UNCHANGED <<rivals, changes, breaks>>
      /\ c.pc # "idle"
  BY DEF Builder!LookForSlug, Builder!NextModulePosition, Builder!NextLessonPosition,
         Builder!At, Builder!history
<1>3. ASSUME NEW s \in Builder!Step, NEW n \in Nat,
             \/ authored' = [authored EXCEPT ![a].pc = s] /\ n = authored[a].n
             \/ authored' = [authored EXCEPT ![a].pc = s, ![a].n = n]
             \/ authored' = [authored EXCEPT ![a].n = n] /\ s = authored[a].pc,
             s \in {"slug", "course", "module", "lesson"},
             s \in {"module", "lesson"} => c.draft \in Drafts,
             s = "course" => \A d \in Drafts : Builder!There(d) => drafts[d].slug # n,
             s = "module" => n \notin Builder!PositionsIn(chapters, c.draft),
             s = "lesson" => n \notin Builder!PositionsIn(pages, c.draft),
             ~rivals /\ s = "lesson" /\ c.chapter # None => c.chapter \in Builder!Rows(chapters)
      PROVE  Builder!AuthoringInv'
  <2>1. /\ authored' \in [Calls -> Builder!Authored] /\ authored'[a].pc = s
        /\ authored'[a].n = n /\ authored'[a].draft = c.draft
        /\ authored'[a].chapter = c.chapter
        /\ \A b \in Calls \ {a} : authored'[b] = authored[b]
    BY <1>0, <1>3, AuthorGoes
  <2>2. s = "course" => \A d \in Drafts : Builder!There(d)' => drafts'[d].slug # n
    BY <1>2, <1>3 DEF Builder!There
  <2>3. /\ s = "module" => n \notin Builder!PositionsIn(chapters', c.draft)
        /\ s = "lesson" => n \notin Builder!PositionsIn(pages', c.draft)
        /\ ~rivals' /\ s = "lesson" /\ c.chapter # None => c.chapter \in Builder!Rows(chapters')
    BY <1>2, <1>3
  <2>4. Builder!AuthorOK(a)'
    BY <1>3, <2>1, <2>2, <2>3 DEF Builder!AuthorOK
  <2> QED BY <1>0, <1>2, <2>1, <2>4, QuietAuthor
<1>4. CASE Builder!LookForSlug(a)
  <2>1. c.pc = "slug"
    BY <1>4 DEF Builder!LookForSlug, Builder!At
  <2>2. CASE \E d \in Drafts : Builder!There(d) /\ drafts[d].slug = c.n
    <3>1. authored' = [authored EXCEPT ![a].n = @ + 1]
      BY <1>4, <2>2 DEF Builder!LookForSlug
    <3>2. c.n + 1 \in Nat /\ authored' = [authored EXCEPT ![a].n = c.n + 1]
      BY <1>0, <1>1, <3>1 DEF Builder!TypeOK
    <3> QED BY <1>1, <1>3, <2>1, <3>2
  <2>3. CASE ~\E d \in Drafts : Builder!There(d) /\ drafts[d].slug = c.n
    <3>1. authored' = [authored EXCEPT ![a].pc = "course"]
      BY <1>4, <2>3 DEF Builder!LookForSlug, Builder!Goto
    <3>2. "course" \in Builder!Step
      BY AuthorIdle
    <3> QED BY <1>1, <1>3, <2>3, <3>1, <3>2
  <2> QED BY <2>2, <2>3
<1>5. CASE Builder!NextModulePosition(a)
  <2> DEFINE T == Builder!PositionsIn(chapters, c.draft)
             n == Builder!NextPosition(T)
  <2>1. c.pc = "maxmodule" /\ authored' = [authored EXCEPT ![a].pc = "module", ![a].n = n]
    BY <1>5 DEF Builder!NextModulePosition, Builder!At
  <2>2. T \in SUBSET Nat /\ IsFiniteSet(T)
    BY TakenPositions
  <2>3. n \in Nat /\ n \notin T
    BY <2>2, NextIsFree
  <2>4. c.draft \in Drafts /\ "module" \in Builder!Step
    BY <1>0, <2>1, AuthorIdle DEF Builder!AuthorOK
  <2> HIDE DEF n
  <2> QED BY <1>3, <2>1, <2>3, <2>4
<1>6. CASE Builder!NextLessonPosition(a)
  <2> DEFINE T == Builder!PositionsIn(pages, c.draft)
             n == Builder!NextPosition(T)
  <2>1. c.pc = "maxlesson" /\ authored' = [authored EXCEPT ![a].pc = "lesson", ![a].n = n]
    BY <1>6 DEF Builder!NextLessonPosition, Builder!At
  <2>2. T \in SUBSET Nat /\ IsFiniteSet(T)
    BY TakenPositions
  <2>3. n \in Nat /\ n \notin T
    BY <2>2, NextIsFree
  <2>4. c.draft \in Drafts /\ "lesson" \in Builder!Step
    BY <1>0, <2>1, AuthorIdle DEF Builder!AuthorOK
  <2>5. ~rivals /\ c.chapter # None => c.chapter \in Builder!Rows(chapters)
    BY <1>0, <2>1 DEF Builder!AuthorOK
  <2> HIDE DEF n
  <2> QED BY <1>3, <2>1, <2>3, <2>4, <2>5
<1> QED BY <1>4, <1>5, <1>6

(* The call returns, having written no row.                                *)
LEMMA AuthorQuits ==
  ASSUME Builder!AuthoringInv, NEW a \in Calls, authored[a].pc # "idle", Builder!Return(a),
         UNCHANGED <<drafts, chapters, pages, announced, refused, discarded, clashed, rivals>>,
         changes' \in 0..MaxChanges, breaks' \in 0..MaxBreaks
  PROVE  Builder!AuthoringInv'
<1>0. Builder!TypeOK /\ rivals \in BOOLEAN
  BY BuilderFacts
<1>1. /\ authored' \in [Calls -> Builder!Authored]
      /\ \A b \in Calls \ {a} : authored'[b] = authored[b]
      /\ Builder!AuthorOK(a)'
  BY <1>0, AuthorReturns
<1> QED BY <1>0, <1>1, QuietAuthor

LEMMA AuthorCrash ==
  ASSUME Builder!AuthoringInv, NEW a \in Calls, Builder!Crash(a)
  PROVE  Builder!AuthoringInv'
<1>0. changes \in 0..MaxChanges /\ breaks \in 0..MaxBreaks
  BY BuilderFacts
<1>1. /\ authored[a].pc # "idle" /\ breaks < MaxBreaks /\ breaks' = breaks + 1
      /\ Builder!Return(a) /\ UNCHANGED <<drafts, chapters, pages, announced, refused,
                                          discarded, clashed, rivals, changes>>
  BY DEF Builder!Crash, Builder!At
<1>2. changes' \in 0..MaxChanges /\ breaks' \in 0..MaxBreaks
  BY <1>0, <1>1
<1> QED BY <1>1, <1>2, AuthorQuits

(* A call that writes and returns.                                         *)
LEMMA AuthorWrites ==
  ASSUME Builder!AuthoringInv, NEW a \in Calls, authored[a].pc # "idle", Builder!Return(a),
         UNCHANGED <<rivals, changes, breaks>>, clashed' \in BOOLEAN,
         rivals \/ clashed' = clashed,
         drafts' \in [Drafts -> Builder!Draft], chapters' \in [Chapters -> Builder!Chapter],
         pages' \in [Pages -> Builder!Page], discarded' \in SUBSET Pages,
         refused' = refused,
         \/ announced' = announced
         \/ announced' = announced \union {authored[a].page} /\ authored[a].pc = "announce",
         Builder!Written \subseteq Builder!Written', Builder!Housed'
  PROVE  Builder!AuthoringInv'
<1>0. /\ Builder!TypeOK /\ rivals \in BOOLEAN /\ Builder!AuthorsDecide /\ Builder!AuthorOK(a)
      /\ announced \in SUBSET Pages /\ refused \in SUBSET Pages
      /\ refused \union announced \subseteq Builder!Written
      /\ changes \in 0..MaxChanges /\ breaks \in 0..MaxBreaks
  BY BuilderFacts
<1>1. /\ authored' \in [Calls -> Builder!Authored] /\ authored'[a].pc = "idle"
      /\ \A b \in Calls \ {a} : authored'[b] = authored[b]
      /\ Builder!AuthorOK(a)'
  BY <1>0, AuthorReturns
<1>2. authored[a].pc = "announce" =>
        authored[a].page \in Builder!Written /\ authored[a].page \notin refused
  BY <1>0 DEF Builder!AuthorOK
<1>3. Builder!Written \subseteq Pages
  BY DEF Builder!Written
<1>4. announced' \subseteq Builder!Written /\ announced' \intersect refused = {}
  BY <1>0, <1>2 DEF Builder!AuthorsDecide
<1>5. Builder!TypeOK'
  <2>1. announced' \in SUBSET Pages /\ refused' \in SUBSET Pages /\ rivals' \in BOOLEAN
        /\ changes' \in 0..MaxChanges /\ breaks' \in 0..MaxBreaks
    BY <1>0, <1>3, <1>4
  <2> QED BY <1>1, <2>1 DEF Builder!TypeOK
<1>6. Builder!AuthorsDecide'
  <2>1. ~rivals' => ~clashed'
    BY <1>0 DEF Builder!AuthorsDecide
  <2> QED BY <1>4, <2>1 DEF Builder!AuthorsDecide
<1>7. refused' \union announced' \subseteq Builder!Written'
  BY <1>0, <1>4
<1> QED BY <1>1, <1>5, <1>6, <1>7, AuthorCall

-----------------------------------------------------------------------------
(* The course builder: steps that write                                    *)

LEMMA AuthorInsertsCourse ==
  ASSUME Builder!AuthoringInv, NEW a \in Calls, NEW d \in Drafts, Builder!InsertCourse(a, d)
  PROVE  Builder!AuthoringInv'
<1>0. /\ Builder!Housed /\ Builder!AuthorOK(a) /\ authored[a] \in Builder!Authored
      /\ drafts \in [Drafts -> Builder!Draft] /\ chapters \in [Chapters -> Builder!Chapter]
      /\ pages \in [Pages -> Builder!Page] /\ discarded \in SUBSET Pages /\ clashed \in BOOLEAN
  BY BuilderFacts
<1>1. /\ authored[a].pc = "course" /\ Builder!Return(a)
      /\ UNCHANGED <<chapters, pages, announced, refused, discarded, rivals, changes, breaks>>
      /\ \/ /\ \E e \in Drafts : Builder!There(e) /\ drafts[e].slug = authored[a].n
            /\ clashed' = TRUE /\ drafts' = drafts
         \/ /\ drafts' = [drafts EXCEPT ![d] = [status |-> "draft", slug |-> authored[a].n]]
            /\ clashed' = clashed
  BY DEF Builder!InsertCourse, Builder!At
<1>2. rivals \/ clashed' = clashed
  BY <1>0, <1>1 DEF Builder!AuthorOK
<1>3. clashed' \in BOOLEAN /\ drafts' \in [Drafts -> Builder!Draft]
  <2>1. [status |-> "draft", slug |-> authored[a].n] \in Builder!Draft
    BY <1>0 DEF Builder!Draft, Builder!Authored
  <2> QED BY <1>0, <1>1, <2>1
<1>4. Builder!Written' = Builder!Written /\ Builder!Housed'
  BY <1>0, <1>1 DEF Builder!Written, Builder!Housed, Builder!Rows
<1>5. chapters' \in [Chapters -> Builder!Chapter] /\ pages' \in [Pages -> Builder!Page]
      /\ discarded' \in SUBSET Pages
  BY <1>0, <1>1
<1> QED BY <1>1, <1>2, <1>3, <1>4, <1>5, AuthorWrites

LEMMA AuthorWritesCourse ==
  ASSUME Builder!AuthoringInv, NEW a \in Calls, Builder!WriteCourse(a)
  PROVE  Builder!AuthoringInv'
<1>0. /\ Builder!Housed /\ Builder!AuthorOK(a) /\ clashed \in BOOLEAN
      /\ drafts \in [Drafts -> Builder!Draft] /\ chapters \in [Chapters -> Builder!Chapter]
      /\ pages \in [Pages -> Builder!Page] /\ discarded \in SUBSET Pages
  BY BuilderFacts
<1>1. /\ authored[a].pc = "patchcourse" /\ Builder!Return(a)
      /\ UNCHANGED <<chapters, pages, announced, refused, discarded, clashed, rivals, changes,
                     breaks>>
      /\ drafts' = [drafts EXCEPT ![authored[a].draft].status = "published"]
  BY DEF Builder!WriteCourse, Builder!At, Builder!history
<1>2. drafts' \in [Drafts -> Builder!Draft]
  <2>1. ASSUME NEW r \in Builder!Draft
        PROVE  [r EXCEPT !.status = "published"] \in Builder!Draft
    BY DEF Builder!Draft
  <2> QED BY <1>0, <1>1, <2>1
<1>3. Builder!Written' = Builder!Written /\ Builder!Housed'
  BY <1>0, <1>1 DEF Builder!Written, Builder!Housed, Builder!Rows
<1>4. chapters' \in [Chapters -> Builder!Chapter] /\ pages' \in [Pages -> Builder!Page]
      /\ discarded' \in SUBSET Pages /\ clashed' \in BOOLEAN
  BY <1>0, <1>1
<1> QED BY <1>1, <1>2, <1>3, <1>4, AuthorWrites

LEMMA AuthorInsertsModule ==
  ASSUME Builder!AuthoringInv, NEW a \in Calls, NEW m \in Chapters, Builder!InsertModule(a, m)
  PROVE  Builder!AuthoringInv'
<1>0. /\ Builder!Housed /\ Builder!AuthorOK(a) /\ authored[a] \in Builder!Authored
      /\ drafts \in [Drafts -> Builder!Draft] /\ chapters \in [Chapters -> Builder!Chapter]
      /\ pages \in [Pages -> Builder!Page] /\ discarded \in SUBSET Pages /\ clashed \in BOOLEAN
  BY BuilderFacts
<1> DEFINE c == authored[a]
           row == [status |-> "row", draft |-> c.draft, position |-> c.n]
<1>1. /\ c.pc = "module" /\ Builder!Return(a) /\ chapters[m].status = "none"
      /\ UNCHANGED <<drafts, pages, announced, refused, discarded, rivals, changes, breaks>>
      /\ \/ /\ c.n \in Builder!PositionsIn(chapters, c.draft)
            /\ clashed' = TRUE /\ chapters' = chapters
         \/ /\ chapters' = [chapters EXCEPT ![m] = row] /\ clashed' = clashed
  BY DEF Builder!InsertModule, Builder!At
<1>2. rivals \/ clashed' = clashed
  BY <1>0, <1>1 DEF Builder!AuthorOK
<1>3. clashed' \in BOOLEAN /\ chapters' \in [Chapters -> Builder!Chapter]
  <2>1. c.draft \in Drafts /\ c.n \in Nat
    BY <1>0, <1>1 DEF Builder!Authored, Builder!AuthorOK
  <2>2. row \in Builder!Chapter
    BY <2>1 DEF Builder!Chapter
  <2> QED BY <1>0, <1>1, <2>2
<1>4. Builder!Rows(chapters) \subseteq Builder!Rows(chapters')
  BY <1>0, <1>1, <1>3 DEF Builder!Rows
<1>5. Builder!Written' = Builder!Written /\ Builder!Housed'
  BY <1>0, <1>1, <1>4 DEF Builder!Written, Builder!Housed, Builder!Rows
<1>6. drafts' \in [Drafts -> Builder!Draft] /\ pages' \in [Pages -> Builder!Page]
      /\ discarded' \in SUBSET Pages
  BY <1>0, <1>1
<1> QED BY <1>1, <1>2, <1>3, <1>5, <1>6, AuthorWrites

LEMMA AuthorDeletesModule ==
  ASSUME Builder!AuthoringInv, NEW a \in Calls, Builder!DeleteModuleRow(a)
  PROVE  Builder!AuthoringInv'
<1>0. /\ Builder!TypeOK /\ Builder!Housed /\ Builder!AuthorOK(a) /\ Builder!AuthorsDecide
      /\ chapters \in [Chapters -> Builder!Chapter] /\ pages \in [Pages -> Builder!Page]
      /\ authored[a] \in Builder!Authored
      /\ refused \union announced \subseteq Builder!Written
  BY BuilderFacts
<1> DEFINE m == authored[a].chapter
           Gone(l) == pages[l].status = "row" /\ pages[l].chapter = m
<1>1. /\ authored[a].pc = "deletemodule"
      /\ authored' = [authored EXCEPT ![a].pc = "unassign"]
      /\ chapters' = [chapters EXCEPT ![m].status = "deleted"]
      /\ pages' = [l \in Pages |-> IF Gone(l) THEN [pages[l] EXCEPT !.status = "deleted"]
                                              ELSE pages[l]]
      /\ UNCHANGED <<drafts, announced, refused, discarded, clashed, rivals, changes, breaks>>
  BY DEF Builder!DeleteModuleRow, Builder!At, Builder!Goto, Builder!history
<1>2. m \in Chapters
  BY <1>0, <1>1 DEF Builder!AuthorOK
<1>3. /\ authored' \in [Calls -> Builder!Authored] /\ authored'[a].pc = "unassign"
      /\ authored'[a].chapter = m
      /\ \A b \in Calls \ {a} : authored'[b] = authored[b]
  <2>1. "unassign" \in Builder!Step /\ authored[a].n \in Nat
    BY <1>0, AuthorIdle DEF Builder!Authored
  <2> QED BY <1>0, <1>1, <2>1, AuthorGoes
<1>4. ASSUME NEW l \in Pages
      PROVE  /\ pages'[l] \in Builder!Page
             /\ pages[l].status # "none" => pages'[l].status # "none"
             /\ pages'[l].status = "row" => pages'[l] = pages[l] /\ pages[l].chapter # m
  <2>1. ASSUME NEW r \in Builder!Page
        PROVE  /\ [r EXCEPT !.status = "deleted"] \in Builder!Page
               /\ [r EXCEPT !.status = "deleted"].status = "deleted"
    BY DEF Builder!Page
  <2>2. pages[l] \in Builder!Page
        /\ pages'[l] = IF Gone(l) THEN [pages[l] EXCEPT !.status = "deleted"] ELSE pages[l]
    BY <1>0, <1>1
  <2> QED BY <2>1, <2>2
<1>5. chapters' \in [Chapters -> Builder!Chapter]
      /\ \A k \in Chapters : chapters[k].status = "row" /\ k # m => chapters'[k].status = "row"
  <2>1. ASSUME NEW r \in Builder!Chapter
        PROVE  [r EXCEPT !.status = "deleted"] \in Builder!Chapter
    BY DEF Builder!Chapter
  <2>2. chapters' = [chapters EXCEPT ![m] = [chapters[m] EXCEPT !.status = "deleted"]]
    BY <1>0, <1>1, <1>2
  <2> QED BY <1>0, <2>1, <2>2
<1>6. pages' \in [Pages -> Builder!Page]
  BY <1>1, <1>4
<1>7. Builder!TypeOK'
  BY <1>0, <1>1, <1>3, <1>5, <1>6 DEF Builder!TypeOK
<1>8. Builder!Written \subseteq Builder!Written'
  BY <1>4 DEF Builder!Written
<1>9. Builder!Housed'
  <2> SUFFICES ASSUME NEW l \in Builder!Rows(pages'), pages'[l].chapter # None
               PROVE  pages'[l].chapter \in Builder!Rows(chapters')
    BY DEF Builder!Housed
  <2>1. l \in Pages /\ pages'[l].status = "row"
    BY <1>6 DEF Builder!Rows
  <2>2. pages'[l] = pages[l] /\ pages[l].chapter # m /\ pages[l].status = "row"
    BY <1>4, <2>1
  <2>3. pages[l].chapter \in Builder!Rows(chapters)
    BY <1>0, <2>1, <2>2 DEF Builder!Housed, Builder!Rows
  <2>4. pages[l].chapter \in Chapters /\ chapters[pages[l].chapter].status = "row"
    BY <1>0, <2>3 DEF Builder!Rows
  <2> QED BY <1>5, <2>2, <2>4 DEF Builder!Rows
<1>10. Builder!AuthorsDecide' /\ Builder!AuthorOK(a)'
  BY <1>0, <1>1, <1>2, <1>3 DEF Builder!AuthorsDecide, Builder!AuthorOK
<1>11. authored[a].pc # "idle" /\ refused' \union announced' \subseteq Builder!Written'
  BY <1>0, <1>1, <1>8
<1> QED BY <1>1, <1>3, <1>7, <1>8, <1>9, <1>10, <1>11, AuthorCall

LEMMA AuthorUnassigns ==
  ASSUME Builder!AuthoringInv, NEW a \in Calls, Builder!UnassignLessons(a)
  PROVE  Builder!AuthoringInv'
<1>0. /\ Builder!Housed /\ clashed \in BOOLEAN /\ drafts \in [Drafts -> Builder!Draft]
      /\ chapters \in [Chapters -> Builder!Chapter]
      /\ pages \in [Pages -> Builder!Page] /\ discarded \in SUBSET Pages
  BY BuilderFacts
<1> DEFINE m == authored[a].chapter
           Left(l) == pages[l].status = "row" /\ pages[l].chapter = m
<1>1. /\ authored[a].pc = "unassign" /\ Builder!Return(a)
      /\ pages' = [l \in Pages |-> IF Left(l) THEN [pages[l] EXCEPT !.chapter = None]
                                              ELSE pages[l]]
      /\ UNCHANGED <<drafts, chapters, announced, refused, discarded, clashed, rivals, changes,
                     breaks>>
  BY DEF Builder!UnassignLessons, Builder!At, Builder!history
<1>2. ASSUME NEW l \in Pages
      PROVE  /\ pages'[l] \in Builder!Page /\ pages'[l].status = pages[l].status
             /\ pages'[l].chapter = None \/ pages'[l].chapter = pages[l].chapter
  <2>1. ASSUME NEW r \in Builder!Page
        PROVE  /\ [r EXCEPT !.chapter = None] \in Builder!Page
               /\ [r EXCEPT !.chapter = None].status = r.status
               /\ [r EXCEPT !.chapter = None].chapter = None
    BY DEF Builder!Page
  <2>2. pages[l] \in Builder!Page
        /\ pages'[l] = IF Left(l) THEN [pages[l] EXCEPT !.chapter = None] ELSE pages[l]
    BY <1>0, <1>1
  <2> QED BY <2>1, <2>2
<1>3. pages' \in [Pages -> Builder!Page]
  BY <1>1, <1>2
<1>4. Builder!Written \subseteq Builder!Written'
  BY <1>2 DEF Builder!Written
<1>5. Builder!Housed'
  BY <1>0, <1>1, <1>2, <1>3 DEF Builder!Housed, Builder!Rows
<1>6. drafts' \in [Drafts -> Builder!Draft] /\ chapters' \in [Chapters -> Builder!Chapter]
      /\ discarded' \in SUBSET Pages /\ clashed' \in BOOLEAN
  BY <1>0, <1>1
<1> QED BY <1>1, <1>3, <1>4, <1>5, <1>6, AuthorWrites

LEMMA AuthorInsertsLesson ==
  ASSUME Builder!AuthoringInv, NEW a \in Calls, NEW l \in Pages, Builder!InsertLesson(a, l)
  PROVE  Builder!AuthoringInv'
<1>0. /\ Builder!TypeOK /\ Builder!Housed /\ Builder!AuthorOK(a) /\ Builder!AuthorsDecide
      /\ drafts \in [Drafts -> Builder!Draft] /\ chapters \in [Chapters -> Builder!Chapter]
      /\ pages \in [Pages -> Builder!Page] /\ authored[a] \in Builder!Authored
      /\ refused \union announced \subseteq Builder!Written /\ clashed \in BOOLEAN
      /\ refused \in SUBSET Pages /\ discarded \in SUBSET Pages
  BY BuilderFacts
<1> DEFINE c == authored[a]
           row == [status |-> "row", draft |-> c.draft, chapter |-> c.chapter,
                   position |-> c.n, published |-> c.told = "yes", edited |-> FALSE]
           Lost == \/ c.n \in Builder!PositionsIn(pages, c.draft)
                   \/ c.chapter # None /\ chapters[c.chapter].status # "row"
<1>1. /\ c.pc = "lesson" /\ pages[l].status = "none"
      /\ UNCHANGED <<drafts, chapters, announced, discarded, rivals, changes, breaks>>
  BY DEF Builder!InsertLesson, Builder!At
<1>2. CASE Lost
  <2>1. clashed' = TRUE /\ pages' = pages /\ refused' = refused /\ Builder!Return(a)
    BY <1>2 DEF Builder!InsertLesson
  <2>2. rivals
    BY <1>0, <1>1, <1>2 DEF Builder!AuthorOK, Builder!Rows
  <2>3. Builder!Written' = Builder!Written /\ Builder!Housed'
    BY <1>0, <1>1, <2>1 DEF Builder!Written, Builder!Housed, Builder!Rows
  <2>4. /\ drafts' \in [Drafts -> Builder!Draft] /\ chapters' \in [Chapters -> Builder!Chapter]
        /\ pages' \in [Pages -> Builder!Page] /\ discarded' \in SUBSET Pages
        /\ clashed' \in BOOLEAN
    BY <1>0, <1>1, <2>1
  <2> QED BY <1>1, <2>1, <2>2, <2>3, <2>4, AuthorWrites
<1>3. CASE ~Lost
  <2>1. /\ clashed' = clashed /\ pages' = [pages EXCEPT ![l] = row]
        /\ refused' = IF c.told = "no" THEN refused \union {l} ELSE refused
        /\ IF c.live /\ c.told # "no"
             THEN authored' = [authored EXCEPT ![a].pc = "announce", ![a].page = l]
             ELSE Builder!Return(a)
    BY <1>3 DEF Builder!InsertLesson
  <2>2. row \in Builder!Page
    <3>1. (c.told = "yes") \in BOOLEAN
      OBVIOUS
    <3> DEFINE yes == c.told = "yes"
    <3> HIDE DEF yes
    <3>2. yes \in BOOLEAN
      BY <3>1 DEF yes
    <3>3. c.draft \in Drafts /\ c.n \in Nat /\ c.chapter \in Chapters \union {None}
      BY <1>0, <1>1 DEF Builder!Authored, Builder!AuthorOK
    <3>4. [status |-> "row", draft |-> c.draft, chapter |-> c.chapter,
           position |-> c.n, published |-> yes, edited |-> FALSE] \in Builder!Page
      BY <3>2, <3>3 DEF Builder!Page
    <3> QED BY <3>4 DEF yes
  <2>3. row.status = "row" /\ row.chapter = c.chapter
    OBVIOUS
  <2> HIDE DEF row
  <2>4. /\ pages' \in [Pages -> Builder!Page] /\ pages'[l] = row
        /\ \A k \in Pages \ {l} : pages'[k] = pages[k]
    BY <1>0, <2>1, <2>2
  <2>5. Builder!Written' = Builder!Written \union {l}
    BY <2>3, <2>4 DEF Builder!Written
  <2>6. l \notin Builder!Written
    BY <1>1 DEF Builder!Written
  <2>7. Builder!Housed'
    <3> SUFFICES ASSUME NEW k \in Builder!Rows(pages'), pages'[k].chapter # None
                 PROVE  pages'[k].chapter \in Builder!Rows(chapters')
      BY DEF Builder!Housed
    <3>1. k \in Pages /\ pages'[k].status = "row"
      BY <2>4 DEF Builder!Rows
    <3>2. CASE k = l
      <4>1. c.chapter # None /\ chapters[c.chapter].status = "row"
        BY <1>3, <2>3, <2>4, <3>2
      <4>2. c.chapter \in Chapters
        BY <1>0, <4>1 DEF Builder!Authored
      <4> QED BY <1>0, <1>1, <2>3, <2>4, <3>2, <4>1, <4>2 DEF Builder!Rows
    <3>3. CASE k # l
      <4>1. pages'[k] = pages[k] /\ k \in Builder!Rows(pages)
        BY <1>0, <2>4, <3>1, <3>3 DEF Builder!Rows
      <4> QED BY <1>0, <1>1, <4>1 DEF Builder!Housed
    <3> QED BY <3>2, <3>3
  <2>8. /\ authored' \in [Calls -> Builder!Authored]
        /\ \A b \in Calls \ {a} : authored'[b] = authored[b]
        /\ Builder!AuthorOK(a)'
    <3>1. CASE c.live /\ c.told # "no"
      <4>1. authored' = [authored EXCEPT ![a].pc = "announce", ![a].page = l]
        BY <2>1, <3>1
      <4>2. ASSUME NEW r \in Builder!Authored
            PROVE  LET s == [r EXCEPT !.pc = "announce", !.page = l] IN
                   s \in Builder!Authored /\ s.pc = "announce" /\ s.page = l
        BY AuthorIdle DEF Builder!Authored
      <4>3. authored \in [Calls -> Builder!Authored]
        BY <1>0 DEF Builder!TypeOK
      <4>4. authored' = [authored EXCEPT ![a] = [c EXCEPT !.pc = "announce", !.page = l]]
        BY <4>1, <4>3
      <4>5. /\ authored' \in [Calls -> Builder!Authored] /\ authored'[a].pc = "announce"
            /\ authored'[a].page = l /\ \A b \in Calls \ {a} : authored'[b] = authored[b]
        BY <1>0, <4>2, <4>3, <4>4
      <4>6. l \notin refused' /\ l \in Builder!Written'
        BY <1>0, <2>1, <2>5, <2>6, <3>1
      <4>7. Builder!AuthorOK(a)'
        BY <4>5, <4>6 DEF Builder!AuthorOK
      <4> QED BY <4>5, <4>7
    <3>2. CASE ~(c.live /\ c.told # "no")
      BY <1>0, <2>1, <3>2, AuthorReturns
    <3> QED BY <3>1, <3>2
  <2>9. /\ refused' \in SUBSET Pages /\ refused' \subseteq refused \union {l}
        /\ refused' \union announced' \subseteq Builder!Written'
        /\ announced' \intersect refused' = {}
        /\ \A k \in Builder!Written : k \in refused' => k \in refused
    BY <1>0, <1>1, <2>1, <2>5, <2>6 DEF Builder!AuthorsDecide
  <2>10. Builder!AuthorsDecide'
    <3>1. ~rivals' => ~clashed'
      BY <1>0, <1>1, <2>1 DEF Builder!AuthorsDecide
    <3> QED BY <2>9, <3>1 DEF Builder!AuthorsDecide
  <2>11. Builder!TypeOK'
    BY <1>0, <1>1, <2>1, <2>4, <2>8, <2>9 DEF Builder!TypeOK
  <2>12. c.pc # "idle" /\ Builder!Written \subseteq Builder!Written' /\ (rivals => rivals')
    BY <1>1, <2>5
  <2> QED BY <2>7, <2>8, <2>9, <2>10, <2>11, <2>12, AuthorCall
<1> QED BY <1>2, <1>3

LEMMA AuthorAnnounces ==
  ASSUME Builder!AuthoringInv, NEW a \in Calls, Builder!AnnounceLesson(a)
  PROVE  Builder!AuthoringInv'
<1>0. /\ Builder!Housed /\ clashed \in BOOLEAN /\ drafts \in [Drafts -> Builder!Draft]
      /\ chapters \in [Chapters -> Builder!Chapter]
      /\ pages \in [Pages -> Builder!Page] /\ discarded \in SUBSET Pages
  BY BuilderFacts
<1>1. /\ authored[a].pc = "announce" /\ Builder!Return(a)
      /\ announced' = announced \union {authored[a].page}
      /\ UNCHANGED <<drafts, chapters, pages, refused, discarded, clashed, rivals, changes, breaks>>
  BY DEF Builder!AnnounceLesson, Builder!At, Builder!history
<1>2. Builder!Written' = Builder!Written /\ Builder!Housed'
  BY <1>0, <1>1 DEF Builder!Written, Builder!Housed, Builder!Rows
<1>3. /\ drafts' \in [Drafts -> Builder!Draft] /\ chapters' \in [Chapters -> Builder!Chapter]
      /\ pages' \in [Pages -> Builder!Page] /\ discarded' \in SUBSET Pages /\ clashed' \in BOOLEAN
  BY <1>0, <1>1
<1> QED BY <1>1, <1>2, <1>3, AuthorWrites

(* updateLesson and deleteLesson write one row, that keeps its module.     *)
LEMMA AuthorWritesLesson ==
  ASSUME Builder!AuthoringInv, NEW a \in Calls,
         Builder!WriteLesson(a) \/ Builder!DeleteLessonRow(a)
  PROVE  Builder!AuthoringInv'
<1>0. /\ Builder!Housed /\ Builder!AuthorOK(a) /\ clashed \in BOOLEAN
      /\ drafts \in [Drafts -> Builder!Draft] /\ chapters \in [Chapters -> Builder!Chapter]
      /\ pages \in [Pages -> Builder!Page] /\ discarded \in SUBSET Pages
  BY BuilderFacts
<1> DEFINE c == authored[a]
           l == c.page
<1>1. /\ c.pc \in {"patch", "deletelesson"} /\ Builder!Return(a)
      /\ UNCHANGED <<drafts, chapters, announced, refused, clashed, rivals, changes, breaks>>
      /\ discarded' = discarded \/ discarded' = discarded \union {l}
  BY DEF Builder!WriteLesson, Builder!DeleteLessonRow, Builder!At, Builder!history
<1>2. l \in Builder!Written /\ l \in Pages /\ pages[l].status # "none"
  BY <1>0, <1>1 DEF Builder!AuthorOK, Builder!Written
<1>3. \E row \in Builder!Page :
        /\ pages' = [pages EXCEPT ![l] = row]
        /\ row.chapter = pages[l].chapter
        /\ row.status = "deleted" \/ row.status = pages[l].status
  <2> DEFINE yes == IF c.told = "unsaid" THEN pages[l].published ELSE c.told = "yes"
  <2>1. yes \in BOOLEAN /\ pages[l] \in Builder!Page
    <3>1. pages[l] \in Builder!Page
      BY <1>0, <1>2
    <3>2. pages[l].published \in BOOLEAN
      BY <3>1 DEF Builder!Page
    <3> QED BY <3>1, <3>2
  <2>2. CASE Builder!WriteLesson(a)
    <3>1. CASE pages[l].status # "row"
      <4>1. pages' = pages
        BY <2>2, <3>1 DEF Builder!WriteLesson
      <4>2. pages' = [pages EXCEPT ![l] = pages[l]]
        BY <1>0, <4>1
      <4> QED BY <2>1, <4>2
    <3>2. CASE pages[l].status = "row"
      <4>1. pages' = [pages EXCEPT ![l].edited = TRUE,
                        ![l].published = IF c.told = "unsaid" THEN @ ELSE c.told = "yes"]
        BY <2>2, <3>2 DEF Builder!WriteLesson
      <4>2. pages' = [pages EXCEPT ![l] = [pages[l] EXCEPT !.edited = TRUE, !.published = yes]]
        BY <1>0, <1>2, <4>1
      <4> HIDE DEF yes
      <4>3. ASSUME NEW r \in Builder!Page
            PROVE  LET s == [r EXCEPT !.edited = TRUE, !.published = yes] IN
                   s \in Builder!Page /\ s.chapter = r.chapter /\ s.status = r.status
        BY <2>1 DEF Builder!Page
      <4> QED BY <2>1, <4>2, <4>3
    <3> QED BY <3>1, <3>2
  <2>3. CASE Builder!DeleteLessonRow(a)
    <3>1. pages' = [pages EXCEPT ![l].status = "deleted"]
      BY <2>3 DEF Builder!DeleteLessonRow
    <3>2. pages' = [pages EXCEPT ![l] = [pages[l] EXCEPT !.status = "deleted"]]
      BY <1>0, <1>2, <3>1
    <3>3. ASSUME NEW r \in Builder!Page
          PROVE  LET s == [r EXCEPT !.status = "deleted"] IN
                 s \in Builder!Page /\ s.chapter = r.chapter /\ s.status = "deleted"
      BY DEF Builder!Page
    <3> QED BY <2>1, <3>2, <3>3
  <2> QED BY <2>2, <2>3
<1>4. PICK row \in Builder!Page : /\ pages' = [pages EXCEPT ![l] = row]
                                  /\ row.chapter = pages[l].chapter
                                  /\ row.status = "deleted" \/ row.status = pages[l].status
  BY <1>3
<1>5. /\ pages' \in [Pages -> Builder!Page] /\ pages'[l] = row
      /\ \A k \in Pages \ {l} : pages'[k] = pages[k]
  BY <1>0, <1>2, <1>4
<1>6. Builder!Written \subseteq Builder!Written'
  BY <1>2, <1>4, <1>5 DEF Builder!Written
<1>7. Builder!Housed'
  <2>1. \A k \in Pages : /\ pages'[k].chapter = pages[k].chapter
                         /\ pages'[k].status = "row" => pages[k].status = "row"
    BY <1>4, <1>5
  <2>2. Builder!Rows(pages') \subseteq Builder!Rows(pages) /\ Builder!Rows(pages) \subseteq Pages
    BY <1>0, <1>5, <2>1 DEF Builder!Rows
  <2> QED BY <1>0, <1>1, <2>1, <2>2 DEF Builder!Housed
<1>8. /\ drafts' \in [Drafts -> Builder!Draft] /\ chapters' \in [Chapters -> Builder!Chapter]
      /\ discarded' \in SUBSET Pages /\ clashed' \in BOOLEAN
  BY <1>0, <1>1, <1>2
<1>9. c.pc # "idle" /\ UNCHANGED <<rivals, changes, breaks, announced, refused, clashed>>
  BY <1>1
<1> QED BY <1>1, <1>5, <1>6, <1>7, <1>8, <1>9, AuthorWrites

LEMMA BuilderFrame ==
  ASSUME Builder!AuthoringInv, UNCHANGED authorVars
  PROVE  Builder!AuthoringInv'
<1>1. UNCHANGED <<drafts, chapters, pages, authored, announced, refused, discarded, clashed,
                  rivals, changes, breaks>>
  BY DEF authorVars
<1>2. Builder!TypeOK' /\ Builder!EveryLessonShown' /\ Builder!AuthorsDecide'
  BY <1>1, BuilderFacts DEF Builder!TypeOK, Builder!EveryLessonShown, Builder!AuthorsDecide,
                            Builder!LessonsShown, Builder!ModulesShown
<1>3. Builder!Housed' /\ Builder!Alone' /\ refused' \union announced' \subseteq Builder!Written'
  BY <1>1, BuilderFacts DEF Builder!Housed, Builder!Alone, Builder!At, Builder!Written
<1>4. \A a \in Calls : Builder!AuthorOK(a)'
  BY <1>1, BuilderFacts DEF Builder!AuthorOK, Builder!Written, Builder!There
<1> QED BY <1>2, <1>3, <1>4 DEF Builder!AuthoringInv

LEMMA BuilderStep ==
  ASSUME Builder!AuthoringInv, Builder!Next
  PROVE  Builder!AuthoringInv'
<1>1. ASSUME NEW a \in Calls, Builder!AuthorStep(a) PROVE Builder!AuthoringInv'
  BY <1>1, AuthorLooks, AuthorInsertsCourse, AuthorWritesCourse, AuthorInsertsModule,
     AuthorDeletesModule, AuthorUnassigns, AuthorInsertsLesson, AuthorAnnounces,
     AuthorWritesLesson DEF Builder!AuthorStep
<1> QED BY <1>1, AuthorRequests, AuthorCrash DEF Builder!Next

(* The builder shows every lesson (getBuilderCourse), a lesson its author  *)
(* wanted unpublished is not announced (addLesson), and a call that runs   *)
(* alone never fails: for any rows, any calls, any crashes.                *)
THEOREM AuthorsDecideAll == Spec => []AuthoringInv
<1>1. Init => Builder!AuthoringInv
  BY AuthorInit DEF Init
<1>2. Builder!AuthoringInv /\ [Next]_vars => Builder!AuthoringInv'
  BY BuilderStep, BuilderFrame DEF Next, Only, vars
<1>3. Spec => []Builder!AuthoringInv
  BY <1>1, <1>2, PTL DEF Spec
<1> QED BY <1>3, PTL DEF AuthoringInv

-----------------------------------------------------------------------------
(* Discussions.  Posts stay where they are once written; votes are finite  *)
(* in number, which counting them rests on.                                *)

ForumOK == Forum!ForumInv /\ IsFiniteSet(ballots)

LEMMA ForumFacts ==
  ASSUME ForumOK
  PROVE  /\ Forum!TypeOK /\ Forum!ThreadIsWhole /\ Forum!RepliesAreHeard
         /\ Forum!ScoreIsVotes /\ Forum!ModerationIsLogged /\ Forum!Threaded /\ Forum!Alone
         /\ \A b \in ballots : Forum!Written(b[1])
         /\ \A s \in Calls : Forum!SpeechOK(s)
         /\ posts \in [Posts -> Forum!Post] /\ ballots \in SUBSET (Posts \X People)
         /\ alerts \in SUBSET (Posts \X People) /\ modLog \in SUBSET (Posts \X Forum!Verb)
         /\ speech \in [Calls -> Forum!Speech] /\ crossTalk \in BOOLEAN
         /\ messages \in 0..MaxMessages /\ upsets \in 0..MaxUpsets
         /\ \A s \in Calls : speech[s] \in Forum!Speech
         /\ \A p \in Posts : posts[p] \in Forum!Post
         /\ IsFiniteSet(ballots)
BY DEF ForumOK, Forum!ForumInv, Forum!TypeOK

(* Two levels of replies under each root are the whole thread.             *)
LEMMA WholeThread ==
  ASSUME Forum!TypeOK, Forum!Threaded
  PROVE  Forum!ThreadIsWhole
<1> SUFFICES ASSUME NEW viewer \in People
             PROVE  /\ Forum!Thread(viewer) = Forum!Visible(viewer)
                    /\ Forum!SearchPosts(viewer) \subseteq Forum!Thread(viewer)
  BY DEF Forum!ThreadIsWhole
<1> DEFINE V == Forum!Visible(viewer)
           R == Forum!Roots(viewer)
           First == UNION {Forum!Replies(viewer, p) : p \in R}
<1>0. \A p \in Posts : posts[p] \in Forum!Post
  BY DEF Forum!TypeOK
<1>1. V \subseteq Posts /\ \A p \in V : Forum!Written(p)
  BY DEF Forum!Visible, Forum!Exists, Forum!Written
<1>2. R = {p \in V : posts[p].parent \notin V}
  BY DEF Forum!Roots
<1>3. \A p : Forum!Replies(viewer, p) = {q \in V : posts[q].parent = p}
  BY <1>1 DEF Forum!Replies, Forum!Below
<1>4. ASSUME NEW p \in V
      PROVE  /\ posts[p].depth \in 0..2
             /\ posts[p].parent \in V => posts[p].depth = posts[posts[p].parent].depth + 1
  <2>1. posts[p].depth \in 0..2
    BY <1>0, <1>1 DEF Forum!Post, Forum!MaxReplyDepth
  <2>2. Forum!OneBelow(posts[p].depth, posts[p].parent)
    BY <1>1 DEF Forum!Threaded
  <2>3. None \notin V
    BY <1>1
  <2> QED BY <2>1, <2>2, <2>3 DEF Forum!OneBelow
<1> HIDE DEF V, R
<1>5. ASSUME NEW p \in V
      PROVE  p \in R \union First \union UNION {Forum!Replies(viewer, q) : q \in First}
  <2>1. CASE p \in R
    BY <2>1
  <2>2. CASE p \notin R
    <3> DEFINE q == posts[p].parent
    <3>1. q \in V /\ p \in Forum!Replies(viewer, q)
      BY <1>2, <1>3, <2>2
    <3>2. CASE q \in R
      BY <3>1, <3>2
    <3>3. CASE q \notin R
      <4> DEFINE g == posts[q].parent
      <4>1. g \in V /\ q \in Forum!Replies(viewer, g)
        BY <1>2, <1>3, <3>1, <3>3
      <4>2. g \in R
        <5>1. posts[p].depth = posts[q].depth + 1 /\ posts[q].depth = posts[g].depth + 1
          BY <1>4, <3>1, <4>1
        <5>2. posts[p].depth \in 0..2 /\ posts[q].depth \in 0..2 /\ posts[g].depth \in 0..2
          BY <1>4, <3>1, <4>1
        <5>3. posts[g].parent \in V => posts[posts[g].parent].depth \in 0..2
          BY <1>4
        <5>4. posts[g].parent \notin V
          BY <1>4, <4>1, <5>1, <5>2, <5>3
        <5> QED BY <1>2, <4>1, <5>4
      <4> HIDE DEF g
      <4>3. q \in First
        BY <4>1, <4>2
      <4> HIDE DEF q, First
      <4> QED BY <3>1, <4>3
    <3> QED BY <3>2, <3>3
  <2> QED BY <2>1, <2>2
<1>6. R \subseteq V /\ First \subseteq V
      /\ UNION {Forum!Replies(viewer, q) : q \in First} \subseteq V
  BY <1>2, <1>3
<1>7. Forum!Thread(viewer) = R \union First \union UNION {Forum!Replies(viewer, q) : q \in First}
  BY DEF Forum!Thread, R
<1>8. Forum!SearchPosts(viewer) \subseteq V
  BY DEF Forum!SearchPosts, Forum!Visible, Forum!Exists, V
<1> HIDE DEF First
<1>9. Forum!Thread(viewer) = V
  BY <1>5, <1>6, <1>7
<1> QED BY <1>8, <1>9 DEF V

LEMMA SpeechIdle ==
  /\ Forum!Idle \in Forum!Speech /\ Forum!Idle.pc = "idle"
  /\ Forum!Step = {"idle", "chain", "insert", "alert", "look", "unvote", "vote", "score",
                   "edit", "moderate", "log"}
BY DEF Forum!Idle, Forum!Speech, Forum!Step, Forum!Verb, Forum!MaxReplyDepth

LEMMA ForumInit == Forum!Init => ForumOK
<1> SUFFICES ASSUME Forum!Init PROVE ForumOK
  OBVIOUS
<1>1. /\ posts = [p \in Posts |-> Forum!NoRow]
      /\ ballots = {} /\ alerts = {} /\ modLog = {}
      /\ speech = [s \in Calls |-> Forum!Idle]
      /\ crossTalk = FALSE /\ messages = 0 /\ upsets = 0
  BY DEF Forum!Init
<1>2. Forum!NoRow \in Forum!Post /\ Forum!NoRow.status = "none"
  BY DEF Forum!NoRow, Forum!Post, Forum!MaxReplyDepth
<1>3. \A p \in Posts : posts[p] = Forum!NoRow /\ ~Forum!Written(p) /\ ~Forum!Exists(p)
  BY <1>1, <1>2 DEF Forum!Written, Forum!Exists
<1>4. \A s \in Calls : speech[s].pc = "idle"
  BY <1>1, SpeechIdle
<1>5. Forum!TypeOK
  <2>1. posts \in [Posts -> Forum!Post] /\ speech \in [Calls -> Forum!Speech]
    BY <1>1, <1>2, SpeechIdle
  <2>2. messages \in 0..MaxMessages /\ upsets \in 0..MaxUpsets
    BY <1>1
  <2>3. ballots \in SUBSET (Posts \X People) /\ alerts \in SUBSET (Posts \X People)
        /\ modLog \in SUBSET (Posts \X Forum!Verb) /\ crossTalk \in BOOLEAN
    BY <1>1
  <2> QED BY <2>1, <2>2, <2>3 DEF Forum!TypeOK
<1>6. Forum!Threaded
  BY <1>3 DEF Forum!Threaded
<1>7. Forum!ThreadIsWhole
  BY <1>5, <1>6, WholeThread
<1>8. Forum!RepliesAreHeard /\ Forum!ScoreIsVotes
  BY <1>3 DEF Forum!RepliesAreHeard, Forum!ScoreIsVotes
<1>9. Forum!ModerationIsLogged
  BY <1>2, <1>3 DEF Forum!ModerationIsLogged
<1>10. Forum!Alone
  BY <1>4 DEF Forum!Alone, Forum!At
<1>11. \A s \in Calls : Forum!SpeechOK(s)
  BY <1>4 DEF Forum!SpeechOK
<1>12. IsFiniteSet(ballots) /\ \A b \in ballots : Forum!Written(b[1])
  BY <1>1, FS_EmptySet
<1> QED BY <1>5, <1>6, <1>7, <1>8, <1>9, <1>10, <1>11, <1>12 DEF ForumOK, Forum!ForumInv

-----------------------------------------------------------------------------
(* Discussions: what every step keeps                                      *)

(* Posts once written keep their author and place, deleted ones stay so,   *)
(* notifications stay sent.                                                *)
ForumGrows ==
  /\ \A p \in Posts : Forum!Written(p) =>
       /\ posts'[p].status # "none" /\ posts'[p].author = posts[p].author
       /\ posts'[p].parent = posts[p].parent /\ posts'[p].depth = posts[p].depth
       /\ posts'[p].status \in {"visible", "hidden"} => posts[p].status \in {"visible", "hidden"}
  /\ alerts \subseteq alerts'

LEMMA BelowKept ==
  ASSUME ForumGrows, NEW d, NEW p, Forum!OneBelow(d, p)
  PROVE  Forum!OneBelow(d, p)'
BY DEF ForumGrows, Forum!OneBelow, Forum!Written

LEMMA HeardKept ==
  ASSUME ForumOK, ForumGrows, NEW p \in Posts, Forum!Written(p), NEW but, Forum!Heard(p, but)
  PROVE  Forum!Heard(p, but)'
<1>1. Forum!OneBelow(posts[p].depth, posts[p].parent)
  BY ForumFacts DEF Forum!Threaded
<1>2. posts[p].parent \in Posts =>
        /\ Forum!Written(posts[p].parent)
        /\ Forum!OneBelow(posts[posts[p].parent].depth, posts[posts[p].parent].parent)
  BY <1>1, ForumFacts DEF Forum!OneBelow, Forum!Threaded
<1>3. \A q \in Forum!Above(p) : q \in Posts /\ Forum!Written(q)
  BY <1>1, <1>2 DEF Forum!Above, Forum!OneBelow
<1>4. Forum!Above(p)' = Forum!Above(p)
  BY <1>2 DEF Forum!Above, ForumGrows
<1> QED BY <1>3, <1>4 DEF ForumGrows, Forum!Heard

(* What a call knows stays so while others move; counts, if it is alone.   *)
LEMMA SpeechKept ==
  ASSUME ForumOK, ForumGrows, NEW s \in Calls, speech'[s] = speech[s],
         crossTalk' \/ speech[s].pc = "idle"
  PROVE  Forum!SpeechOK(s)'
<1> DEFINE c == speech[s]
<1>1. Forum!SpeechOK(s) /\ Forum!Threaded
  BY ForumFacts
<1>2. c.pc \in {"chain", "insert"} => c.who \in People /\ Forum!OneBelow(c.depth, c.post)'
  BY <1>1, BelowKept DEF Forum!SpeechOK
<1>3. c.pc = "insert" /\ Forum!Exists(c.post)' =>
        /\ posts'[c.post].author \in c.ancestors
        /\ posts'[c.post].parent \in Posts => posts'[posts'[c.post].parent].author \in c.ancestors
  <2> SUFFICES ASSUME c.pc = "insert", Forum!Exists(c.post)'
               PROVE  /\ posts'[c.post].author \in c.ancestors
                      /\ posts'[c.post].parent \in Posts =>
                           posts'[posts'[c.post].parent].author \in c.ancestors
    OBVIOUS
  <2>1. c.post \in Posts /\ c.post # None
    BY DEF Forum!Exists
  <2>2. Forum!Written(c.post)
    BY <1>1, <2>1 DEF Forum!SpeechOK, Forum!OneBelow
  <2>3. Forum!Exists(c.post)
    BY <2>1, <2>2 DEF ForumGrows, Forum!Exists
  <2>4. /\ posts[c.post].author \in c.ancestors
        /\ posts[c.post].parent \in Posts => posts[posts[c.post].parent].author \in c.ancestors
    BY <1>1, <2>3 DEF Forum!SpeechOK
  <2>5. posts[c.post].parent \in Posts => Forum!Written(posts[c.post].parent)
    BY <1>1, <2>1, <2>2 DEF Forum!Threaded, Forum!OneBelow
  <2> QED BY <2>1, <2>2, <2>4, <2>5 DEF ForumGrows
<1>4. c.pc = "alert" => Forum!Written(c.post)' /\ Forum!Heard(c.post, c.ancestors)'
  <2>1. c.pc = "alert" => /\ c.post \in Posts /\ Forum!Written(c.post)
                          /\ Forum!Heard(c.post, c.ancestors)
    BY <1>1 DEF Forum!SpeechOK, Forum!Written
  <2> QED BY <2>1, HeardKept DEF ForumGrows, Forum!Written
<1>5. c.pc \in {"look", "unvote", "vote", "score", "edit", "moderate", "log"} =>
        Forum!Written(c.post)'
  BY <1>1 DEF Forum!SpeechOK, ForumGrows, Forum!Written
<1>6. c.pc \in {"look", "unvote", "vote", "score"} => c.who \in People
  BY <1>1 DEF Forum!SpeechOK
<1>7. c.pc = "chain" => c.post # None
  BY <1>1 DEF Forum!SpeechOK
<1>8. CASE speech[s].pc = "idle"
  BY <1>8 DEF Forum!SpeechOK
<1>9. CASE crossTalk'
  BY <1>2, <1>3, <1>4, <1>5, <1>6, <1>7, <1>9 DEF Forum!SpeechOK
<1> QED BY <1>8, <1>9

(* A call s takes a step.                                                  *)
LEMMA SpeechCall ==
  ASSUME ForumOK, NEW s \in Calls, \A t \in Calls \ {s} : speech'[t] = speech[t],
         ForumGrows, crossTalk => crossTalk', upsets' = 0 => upsets = 0,
         speech[s].pc # "idle" \/ speech'[s].pc # "idle",
         speech[s].pc = "idle" => crossTalk' \/ \A t \in Calls \ {s} : speech[t].pc = "idle",
         speech[s].pc = "alert" /\ upsets' = 0 =>
           \/ speech'[s].pc = "alert" /\ speech'[s].post = speech[s].post
           \/ speech[s].ancestors = {},
         \A p \in Posts : posts[p].status = "none" /\ posts'[p].status # "none" =>
           speech'[s].pc = "alert" /\ speech'[s].post = p,
         Forum!TypeOK', Forum!Threaded', IsFiniteSet(ballots'),
         \A b \in ballots' : Forum!Written(b[1])', Forum!ScoreIsVotes',
         Forum!ModerationIsLogged', Forum!SpeechOK(s)'
  PROVE  ForumOK'
<1>1. ~crossTalk' => \A t \in Calls \ {s} : speech[t].pc = "idle"
  BY ForumFacts DEF Forum!Alone, Forum!At
<1>2. Forum!Alone'
  BY <1>1 DEF Forum!Alone, Forum!At
<1>3. \A t \in Calls : Forum!SpeechOK(t)'
  BY <1>1, SpeechKept
<1>4. ASSUME NEW p \in Posts, Forum!Exists(p)', upsets' = 0
      PROVE  \/ Forum!Heard(p, {})'
             \/ \E t \in Calls : speech'[t].pc = "alert" /\ speech'[t].post = p
  <2>1. CASE ~Forum!Written(p)
    BY <1>4, <2>1 DEF Forum!Written, Forum!Exists
  <2>2. CASE Forum!Written(p)
    <3>1. Forum!Exists(p) /\ upsets = 0
      BY <1>4, <2>2 DEF Forum!Exists, ForumGrows
    <3>2. Forum!Heard(p, {}) \/ \E t \in Calls : Forum!At(t, "alert") /\ speech[t].post = p
      BY <3>1, ForumFacts DEF Forum!RepliesAreHeard
    <3>3. CASE Forum!Heard(p, {})
      BY <2>2, <3>3, HeardKept
    <3>4. CASE \E t \in Calls : Forum!At(t, "alert") /\ speech[t].post = p
      <4>1. PICK t \in Calls : speech[t].pc = "alert" /\ speech[t].post = p
        BY <3>4 DEF Forum!At
      <4>2. CASE t # s
        BY <4>1, <4>2
      <4>3. CASE t = s /\ speech[s].ancestors = {}
        <5>1. Forum!Heard(p, {})
          BY <4>1, <4>3, ForumFacts DEF Forum!SpeechOK
        <5> QED BY <2>2, <5>1, HeardKept
      <4>4. CASE t = s /\ speech'[s].pc = "alert" /\ speech'[s].post = speech[s].post
        BY <4>1, <4>4
      <4> QED BY <1>4, <4>1, <4>2, <4>3, <4>4
    <3> QED BY <3>2, <3>3, <3>4
  <2> QED BY <2>1, <2>2
<1>5. Forum!RepliesAreHeard'
  BY <1>4 DEF Forum!RepliesAreHeard, Forum!At
<1>6. Forum!ThreadIsWhole'
  <2>1. Forum!TypeOK /\ Forum!Threaded => Forum!ThreadIsWhole
    BY WholeThread
  <2>2. (Forum!TypeOK /\ Forum!Threaded => Forum!ThreadIsWhole)'
    BY WholeThread, PTL
  <2> QED BY <2>2
<1> QED BY <1>2, <1>3, <1>5, <1>6 DEF ForumOK, Forum!ForumInv

(* A call that writes no post and no vote.                                 *)
LEMMA SpeechQuiet ==
  ASSUME ForumOK, NEW s \in Calls, \A t \in Calls \ {s} : speech'[t] = speech[t],
         speech' \in [Calls -> Forum!Speech], UNCHANGED <<posts, ballots, modLog>>,
         alerts \subseteq alerts', alerts' \in SUBSET (Posts \X People),
         crossTalk' \in BOOLEAN, crossTalk => crossTalk',
         messages' \in 0..MaxMessages, upsets' \in 0..MaxUpsets, upsets' = 0 => upsets = 0,
         speech[s].pc # "idle" \/ speech'[s].pc # "idle",
         speech[s].pc = "idle" => crossTalk' \/ \A t \in Calls \ {s} : speech[t].pc = "idle",
         speech[s].pc = "alert" /\ upsets' = 0 =>
           \/ speech'[s].pc = "alert" /\ speech'[s].post = speech[s].post
           \/ speech[s].ancestors = {},
         speech[s].pc \in {"score", "log"} => upsets' # 0,
         Forum!SpeechOK(s)'
  PROVE  ForumOK'
<1>1. ForumGrows
  BY DEF ForumGrows, Forum!Written
<1>2. Forum!TypeOK'
  BY ForumFacts DEF Forum!TypeOK
<1>3. Forum!Threaded' /\ IsFiniteSet(ballots') /\ \A b \in ballots' : Forum!Written(b[1])'
  BY ForumFacts DEF Forum!Threaded, Forum!Written, Forum!OneBelow
<1>4. Forum!ScoreIsVotes'
  <2> SUFFICES ASSUME NEW p \in Posts, Forum!Exists(p)', ~crossTalk', upsets' = 0
               PROVE  \/ \E t \in Calls : speech'[t].pc = "score" /\ speech'[t].post = p
                      \/ posts'[p].upvotes = Forum!Cardinality(Forum!Votes(p)')
    BY DEF Forum!ScoreIsVotes, Forum!At
  <2>1. Forum!Exists(p) /\ Forum!Votes(p)' = Forum!Votes(p)
    BY DEF Forum!Exists, Forum!Votes
  <2>2. \/ \E t \in Calls : speech[t].pc = "score" /\ speech[t].post = p
        \/ posts[p].upvotes = Forum!Cardinality(Forum!Votes(p))
    BY <2>1, ForumFacts DEF Forum!ScoreIsVotes, Forum!At
  <2>3. speech[s].pc # "score"
    OBVIOUS
  <2> QED BY <2>1, <2>2, <2>3
<1>5. Forum!ModerationIsLogged'
  BY ForumFacts DEF Forum!ModerationIsLogged, Forum!At
<1>6. \A p \in Posts : ~(posts[p].status = "none" /\ posts'[p].status # "none")
  OBVIOUS
<1> QED BY <1>1, <1>2, <1>3, <1>4, <1>5, <1>6, SpeechCall

LEMMA SpeechReturns ==
  ASSUME ForumOK, NEW s \in Calls, Forum!Return(s)
  PROVE  /\ speech' \in [Calls -> Forum!Speech] /\ speech'[s].pc = "idle"
         /\ \A t \in Calls \ {s} : speech'[t] = speech[t]
         /\ Forum!SpeechOK(s)'
<1>1. speech \in [Calls -> Forum!Speech] /\ speech' = [speech EXCEPT ![s] = Forum!Idle]
  BY ForumFacts DEF Forum!Return
<1>2. speech'[s].pc = "idle"
  BY <1>1, SpeechIdle
<1>3. Forum!SpeechOK(s)'
  BY <1>2 DEF Forum!SpeechOK
<1> QED BY <1>1, <1>2, <1>3, SpeechIdle

(* A request: c is the call it makes, of what it found.                    *)
LEMMA SpeechRequest ==
  ASSUME ForumOK, NEW s \in Calls, NEW c \in Forum!Speech, Forum!Begin(s, c),
         c.pc \in {"insert", "chain", "look", "edit", "moderate"},
         c.pc = "insert" => c.post = None /\ c.depth = 0 /\ c.who \in People,
         c.pc = "chain" => /\ c.who \in People /\ Forum!Written(c.post)
                           /\ c.depth = posts[c.post].depth + 1,
         c.pc = "look" => c.who \in People /\ c.upvotes = posts[c.post].upvotes,
         c.pc \in {"look", "edit", "moderate"} => Forum!Written(c.post)
  PROVE  ForumOK'
<1>1. /\ speech \in [Calls -> Forum!Speech] /\ speech' = [speech EXCEPT ![s] = c]
      /\ messages \in 0..MaxMessages /\ messages < MaxMessages /\ messages' = messages + 1
      /\ crossTalk \in BOOLEAN /\ upsets \in 0..MaxUpsets
      /\ alerts \in SUBSET (Posts \X People)
  BY ForumFacts DEF Forum!Begin
<1>2. /\ speech[s].pc = "idle"
      /\ crossTalk' = (crossTalk \/ \E t \in Calls \ {s} : speech[t].pc # "idle")
      /\ UNCHANGED <<posts, ballots, alerts, modLog, upsets>>
  BY DEF Forum!Begin, Forum!At
<1>3. crossTalk' \in BOOLEAN /\ (crossTalk => crossTalk')
      /\ (crossTalk' \/ \A t \in Calls \ {s} : speech[t].pc = "idle")
  BY <1>1, <1>2, Zenon
<1>4. /\ speech' \in [Calls -> Forum!Speech] /\ speech'[s] = c
      /\ \A t \in Calls \ {s} : speech'[t] = speech[t]
  BY <1>1
<1>5. messages' \in 0..MaxMessages
  BY <1>1
<1>6. Forum!Written(c.post) => c.post # None /\ c.post \in Posts
  BY DEF Forum!Written
<1>7. None \notin Posts
  OBVIOUS
<1>8. Forum!SpeechOK(s)'
  BY <1>2, <1>4, <1>6, <1>7 DEF Forum!SpeechOK, Forum!Written, Forum!OneBelow, Forum!Exists
<1> QED BY <1>1, <1>2, <1>3, <1>4, <1>5, <1>8, SpeechQuiet

LEMMA SpeechRequests ==
  ASSUME ForumOK, Forum!DiscussionRequest
  PROVE  ForumOK'
<1>1. ASSUME NEW s \in Calls, NEW who \in People, Forum!CreatePost(s, who) PROVE ForumOK'
  <2> DEFINE c == [Forum!Idle EXCEPT !.pc = "insert", !.who = who]
  <2>1. c \in Forum!Speech /\ c.pc = "insert" /\ c.who = who /\ c.post = None /\ c.depth = 0
    BY SpeechIdle DEF Forum!Idle, Forum!Speech
  <2>2. Forum!Begin(s, c)
    BY <1>1 DEF Forum!CreatePost
  <2> HIDE DEF c
  <2> QED BY <2>1, <2>2, SpeechRequest
<1>2. ASSUME NEW s \in Calls, NEW who \in People, NEW p \in Posts, Forum!CreateReply(s, who, p)
      PROVE  ForumOK'
  <2>1. Forum!Written(p) /\ posts[p].depth + 1 \in 0..2
    <3>1. posts[p].depth \in 0..2
      BY ForumFacts DEF Forum!Post, Forum!MaxReplyDepth
    <3> QED BY <1>2, <3>1 DEF Forum!CreateReply, Forum!Exists, Forum!Written,
                              Forum!MaxReplyDepth
  <2> DEFINE d == posts[p].depth + 1
             c == [Forum!Idle EXCEPT !.pc = "chain", !.who = who, !.post = p, !.depth = d]
  <2>2. Forum!Begin(s, c)
    BY <1>2 DEF Forum!CreateReply
  <2>3. d \in 0..2
    BY <2>1
  <2> HIDE DEF d
  <2>4. c \in Forum!Speech /\ c.pc = "chain" /\ c.who = who /\ c.post = p /\ c.depth = d
    BY <2>3, SpeechIdle DEF Forum!Idle, Forum!Speech, Forum!MaxReplyDepth
  <2> HIDE DEF c
  <2>5. c.depth = posts[p].depth + 1
    BY <2>4 DEF d
  <2> QED BY <2>1, <2>2, <2>4, <2>5, SpeechRequest
<1>3. ASSUME NEW s \in Calls, NEW who \in People, NEW p \in Posts, Forum!ToggleVote(s, who, p)
      PROVE  ForumOK'
  <2> DEFINE u == posts[p].upvotes
             c == [Forum!Idle EXCEPT !.pc = "look", !.verb = "toggle", !.who = who, !.post = p,
                                     !.upvotes = u]
  <2>1. Forum!Begin(s, c) /\ Forum!Written(p)
    BY <1>3 DEF Forum!ToggleVote, Forum!Exists, Forum!Written
  <2>2. u \in Nat
    BY ForumFacts DEF Forum!Post
  <2> HIDE DEF u
  <2>3. c \in Forum!Speech /\ c.pc = "look" /\ c.who = who /\ c.post = p /\ c.upvotes = u
    BY <2>2, SpeechIdle DEF Forum!Idle, Forum!Speech, Forum!Verb
  <2> HIDE DEF c
  <2>4. c.upvotes = posts[p].upvotes
    BY <2>3 DEF u
  <2> QED BY <2>1, <2>3, <2>4, SpeechRequest
<1>4. ASSUME NEW s \in Calls, NEW p \in Posts, Forum!EditPost(s, p) PROVE ForumOK'
  <2> DEFINE who == posts[p].author
             c == [Forum!Idle EXCEPT !.pc = "edit", !.verb = "edit", !.who = who, !.post = p]
  <2>1. Forum!Begin(s, c) /\ Forum!Written(p)
    BY <1>4 DEF Forum!EditPost, Forum!Exists, Forum!Written
  <2>2. who \in People \union {None}
    BY ForumFacts DEF Forum!Post
  <2> HIDE DEF who
  <2>3. c \in Forum!Speech /\ c.pc = "edit" /\ c.post = p
    BY <2>2, SpeechIdle DEF Forum!Idle, Forum!Speech, Forum!Verb
  <2> HIDE DEF c
  <2> QED BY <2>1, <2>3, SpeechRequest
<1>5. ASSUME NEW s \in Calls, NEW who \in People, NEW p \in Posts,
             NEW verb \in {"hide", "unhide", "delete"}, Forum!ModeratePost(s, who, p, verb)
      PROVE  ForumOK'
  <2> DEFINE c == [Forum!Idle EXCEPT !.pc = "moderate", !.verb = verb, !.who = who, !.post = p]
  <2>1. Forum!Begin(s, c) /\ Forum!Written(p)
    BY <1>5 DEF Forum!ModeratePost, Forum!Exists, Forum!Written
  <2>2. c \in Forum!Speech /\ c.pc = "moderate" /\ c.post = p
    BY SpeechIdle DEF Forum!Idle, Forum!Speech, Forum!Verb
  <2> HIDE DEF c
  <2> QED BY <2>1, <2>2, SpeechRequest
<1> QED BY <1>1, <1>2, <1>3, <1>4, <1>5 DEF Forum!DiscussionRequest

-----------------------------------------------------------------------------
(* Discussions: steps of calls that write no post                          *)

LEMMA SpeechCrash ==
  ASSUME ForumOK, NEW s \in Calls, Forum!Crash(s)
  PROVE  ForumOK'
<1>1. /\ speech[s].pc # "idle" /\ upsets < MaxUpsets /\ upsets' = upsets + 1
      /\ Forum!Return(s) /\ UNCHANGED <<posts, ballots, alerts, modLog, crossTalk, messages>>
  BY DEF Forum!Crash, Forum!At
<1>2. upsets' \in 0..MaxUpsets /\ upsets' # 0
  BY <1>1, ForumFacts
<1>3. /\ alerts' \in SUBSET (Posts \X People) /\ crossTalk' \in BOOLEAN
      /\ messages' \in 0..MaxMessages
  BY <1>1, ForumFacts
<1> QED BY <1>1, <1>2, <1>3, SpeechReturns, SpeechQuiet

LEMMA SpeechWalks ==
  ASSUME ForumOK, NEW s \in Calls, Forum!WalkChain(s)
  PROVE  ForumOK'
<1> DEFINE c == speech[s]
           p == speech[s].post
           above == IF Forum!Exists(p) THEN {p, posts[p].parent} \ {None} ELSE {}
           authors == {posts[q].author : q \in above}
<1>1. /\ c.pc = "chain"
      /\ speech' = [speech EXCEPT ![s].pc = "insert", ![s].ancestors = authors]
      /\ UNCHANGED <<posts, ballots, alerts, modLog, crossTalk, messages, upsets>>
  BY DEF Forum!WalkChain, Forum!At, Forum!history
<1>2. c.who \in People /\ Forum!OneBelow(c.depth, p) /\ p # None
  BY <1>1, ForumFacts DEF Forum!SpeechOK
<1>3. Forum!Written(p) /\ p \in Posts
  BY <1>2 DEF Forum!OneBelow, Forum!Written
<1>4. \A q \in above : Forum!Written(q) /\ posts[q].author \in People
  <2>1. posts[p].author \in People /\ Forum!OneBelow(posts[p].depth, posts[p].parent)
    BY <1>3, ForumFacts DEF Forum!Threaded
  <2>2. posts[p].parent # None => Forum!Written(posts[p].parent) /\ posts[p].parent \in Posts
    BY <2>1 DEF Forum!OneBelow, Forum!Written
  <2>3. posts[p].parent # None => posts[posts[p].parent].author \in People
    BY <2>2, ForumFacts DEF Forum!Threaded
  <2> QED BY <1>3, <2>1, <2>2, <2>3
<1>5. authors \in SUBSET People
  BY <1>4
<1>6. Forum!Exists(p) =>
        /\ posts[p].author \in authors
        /\ posts[p].parent \in Posts => posts[posts[p].parent].author \in authors
  BY <1>3
<1> HIDE DEF authors
<1>7. /\ speech' \in [Calls -> Forum!Speech] /\ speech'[s].pc = "insert"
      /\ speech'[s].ancestors = authors /\ speech'[s].who = c.who /\ speech'[s].post = p
      /\ speech'[s].depth = c.depth /\ \A t \in Calls \ {s} : speech'[t] = speech[t]
  <2>1. ASSUME NEW r \in Forum!Speech
        PROVE  LET k == [r EXCEPT !.pc = "insert", !.ancestors = authors] IN
               /\ k \in Forum!Speech /\ k.pc = "insert" /\ k.ancestors = authors
               /\ k.who = r.who /\ k.post = r.post /\ k.depth = r.depth
    BY <1>5, SpeechIdle DEF Forum!Speech
  <2>2. speech' = [speech EXCEPT ![s] = [c EXCEPT !.pc = "insert", !.ancestors = authors]]
    BY <1>1, ForumFacts
  <2> QED BY <2>1, <2>2, ForumFacts
<1>8. Forum!SpeechOK(s)'
  BY <1>1, <1>2, <1>6, <1>7 DEF Forum!SpeechOK, Forum!OneBelow, Forum!Written, Forum!Exists
<1> QED BY <1>1, <1>7, <1>8, ForumFacts, SpeechQuiet

LEMMA SpeechAlerts ==
  ASSUME ForumOK, NEW s \in Calls, Forum!AlertAncestor(s) \/ Forum!AnswerPost(s)
  PROVE  ForumOK'
<1> DEFINE c == speech[s]
<1>0. c.pc = "alert" /\ UNCHANGED <<posts, ballots, modLog, crossTalk, messages, upsets>>
  BY DEF Forum!AlertAncestor, Forum!AnswerPost, Forum!At, Forum!history
<1>1. Forum!Written(c.post) /\ Forum!Heard(c.post, c.ancestors) /\ c.post \in Posts
  BY <1>0, ForumFacts DEF Forum!SpeechOK, Forum!Written
<1>2. CASE Forum!AnswerPost(s)
  <2>1. c.ancestors = {} /\ Forum!Return(s) /\ alerts' = alerts
    BY <1>2 DEF Forum!AnswerPost
  <2> QED BY <1>0, <2>1, ForumFacts, SpeechReturns, SpeechQuiet
<1>3. CASE Forum!AlertAncestor(s)
  <2>1. PICK person \in c.ancestors :
          /\ alerts' = alerts \union {<<c.post, person>>}
          /\ speech' = [speech EXCEPT ![s].ancestors = @ \ {person}]
    BY <1>3 DEF Forum!AlertAncestor
  <2>2. c \in Forum!Speech /\ c.ancestors \in SUBSET People
    BY ForumFacts DEF Forum!Speech
  <2>3. ASSUME NEW r \in Forum!Speech
        PROVE  LET k == [r EXCEPT !.ancestors = r.ancestors \ {person}] IN
               /\ k \in Forum!Speech /\ k.ancestors = r.ancestors \ {person}
               /\ k.pc = r.pc /\ k.post = r.post
    BY DEF Forum!Speech
  <2>4. speech' = [speech EXCEPT ![s] = [c EXCEPT !.ancestors = c.ancestors \ {person}]]
    BY <2>1, ForumFacts
  <2>5. /\ speech' \in [Calls -> Forum!Speech] /\ speech'[s].pc = "alert"
        /\ speech'[s].post = c.post /\ speech'[s].ancestors = c.ancestors \ {person}
        /\ \A t \in Calls \ {s} : speech'[t] = speech[t]
    BY <1>0, <2>2, <2>3, <2>4, ForumFacts
  <2>6. alerts' \in SUBSET (Posts \X People) /\ alerts \subseteq alerts'
    BY <1>1, <2>1, <2>2, ForumFacts
  <2>7. ASSUME NEW p, NEW but, Forum!Heard(p, but), alerts' = alerts \union {<<p, person>>}
        PROVE  Forum!Heard(p, but \ {person})'
    BY <1>0, <2>7 DEF Forum!Heard, Forum!Above
  <2>8. Forum!SpeechOK(s)'
    <3>1. Forum!Heard(speech[s].post, speech[s].ancestors)'
      <4> DEFINE p == speech[s].post
                 but == speech[s].ancestors
      <4>1. \A k, b : Forum!Heard(k, b) /\ alerts' = alerts \union {<<k, person>>} =>
                       Forum!Heard(k, b \ {person})'
        BY <2>7
      <4>2. /\ Forum!Heard(speech[s].post, speech[s].ancestors)
            /\ alerts' = alerts \union {<<speech[s].post, person>>}
        BY <1>1, <2>1
      <4>3. \A k, b, m, d : k = m /\ b = d /\ Forum!Heard(m, d)' => Forum!Heard(k, b)'
        OBVIOUS
      <4> QED BY <2>5, <4>1, <4>2, <4>3
    <3>2. Forum!Written(speech[s].post)'
      BY <1>0, <1>1, <2>5 DEF Forum!Written
    <3>3. speech'[s].pc = "alert"
      BY <2>5
    <3> QED BY <3>1, <3>2, <3>3 DEF Forum!SpeechOK
  <2> QED BY <1>0, <2>5, <2>6, <2>8, ForumFacts, SpeechQuiet
<1> QED BY <1>2, <1>3

LEMMA SpeechLooks ==
  ASSUME ForumOK, NEW s \in Calls, Forum!LookForVote(s)
  PROVE  ForumOK'
<1> DEFINE c == speech[s]
           next == IF <<c.post, c.who>> \in ballots THEN "unvote" ELSE "vote"
<1>1. /\ c.pc = "look" /\ speech' = [speech EXCEPT ![s].pc = next]
      /\ UNCHANGED <<posts, ballots, alerts, modLog, crossTalk, messages, upsets>>
  BY DEF Forum!LookForVote, Forum!At, Forum!Goto, Forum!history
<1>2. /\ Forum!Written(c.post) /\ c.who \in People
      /\ ~crossTalk => c.upvotes = posts[c.post].upvotes
  BY <1>1, ForumFacts DEF Forum!SpeechOK
<1>3. next \in {"unvote", "vote"} /\ (next = "unvote" => <<c.post, c.who>> \in ballots)
  OBVIOUS
<1> HIDE DEF next
<1>4. ASSUME NEW r \in Forum!Speech
      PROVE  LET k == [r EXCEPT !.pc = next] IN
             /\ k \in Forum!Speech /\ k.pc = next /\ k.who = r.who /\ k.post = r.post
             /\ k.upvotes = r.upvotes
  BY <1>3, SpeechIdle DEF Forum!Speech
<1>5. speech' = [speech EXCEPT ![s] = [c EXCEPT !.pc = next]]
  BY <1>1, ForumFacts
<1>6. /\ speech' \in [Calls -> Forum!Speech] /\ speech'[s].pc = next
      /\ speech'[s].who = c.who /\ speech'[s].post = c.post /\ speech'[s].upvotes = c.upvotes
      /\ \A t \in Calls \ {s} : speech'[t] = speech[t]
  BY <1>4, <1>5, ForumFacts
<1>7. Forum!SpeechOK(s)'
  BY <1>1, <1>2, <1>3, <1>6 DEF Forum!SpeechOK, Forum!Written
<1>8. speech'[s].pc # "idle" /\ c.pc \notin {"idle", "alert", "score", "log"}
  BY <1>1, <1>3, <1>6
<1> QED BY <1>1, <1>6, <1>7, <1>8, ForumFacts, SpeechQuiet

LEMMA SpeechLogs ==
  ASSUME ForumOK, NEW s \in Calls, Forum!LogModeration(s)
  PROVE  ForumOK'
<1> DEFINE c == speech[s]
<1>1. /\ c.pc = "log" /\ modLog' = modLog \union {<<c.post, c.verb>>} /\ Forum!Return(s)
      /\ UNCHANGED <<posts, ballots, alerts, crossTalk, messages, upsets>>
  BY DEF Forum!LogModeration, Forum!At, Forum!history
<1>2. Forum!Written(c.post) /\ c.post \in Posts /\ c.verb \in Forum!Verb
  BY <1>1, ForumFacts DEF Forum!SpeechOK, Forum!Written, Forum!Speech
<1>3. modLog' \in SUBSET (Posts \X Forum!Verb)
  BY <1>1, <1>2, ForumFacts
<1>4. ForumGrows
  BY <1>1 DEF ForumGrows, Forum!Written
<1>5. /\ speech' \in [Calls -> Forum!Speech]
      /\ \A t \in Calls \ {s} : speech'[t] = speech[t]
      /\ Forum!SpeechOK(s)'
  BY <1>1, SpeechReturns
<1>6. Forum!TypeOK'
  BY <1>1, <1>3, <1>5, ForumFacts DEF Forum!TypeOK
<1>7. Forum!Threaded' /\ IsFiniteSet(ballots') /\ \A b \in ballots' : Forum!Written(b[1])'
  BY <1>1, ForumFacts DEF Forum!Threaded, Forum!Written, Forum!OneBelow
<1>8. Forum!ScoreIsVotes'
  <2> SUFFICES ASSUME NEW p \in Posts, Forum!Exists(p)', ~crossTalk', upsets' = 0
               PROVE  \/ \E t \in Calls : speech'[t].pc = "score" /\ speech'[t].post = p
                      \/ posts'[p].upvotes = Forum!Cardinality(Forum!Votes(p)')
    BY DEF Forum!ScoreIsVotes, Forum!At
  <2>1. Forum!Exists(p) /\ Forum!Votes(p)' = Forum!Votes(p)
    BY <1>1 DEF Forum!Exists, Forum!Votes
  <2>2. \/ \E t \in Calls : speech[t].pc = "score" /\ speech[t].post = p
        \/ posts[p].upvotes = Forum!Cardinality(Forum!Votes(p))
    BY <1>1, <2>1, ForumFacts DEF Forum!ScoreIsVotes, Forum!At
  <2> QED BY <1>1, <1>5, <2>1, <2>2
<1>9. Forum!ModerationIsLogged'
  <2> SUFFICES ASSUME NEW p \in Posts, posts'[p].status = "hidden", upsets' = 0
               PROVE  \/ <<p, "hide">> \in modLog'
                      \/ \E t \in Calls : /\ speech'[t].pc = "log" /\ speech'[t].post = p
                                          /\ speech'[t].verb = "hide"
    BY DEF Forum!ModerationIsLogged, Forum!At
  <2>1. \/ <<p, "hide">> \in modLog
        \/ \E t \in Calls : speech[t].pc = "log" /\ speech[t].post = p /\ speech[t].verb = "hide"
    BY <1>1, ForumFacts DEF Forum!ModerationIsLogged, Forum!At
  <2> QED BY <1>1, <1>5, <2>1
<1>10. \A p \in Posts : ~(posts[p].status = "none" /\ posts'[p].status # "none")
  BY <1>1
<1>11. c.pc \notin {"idle", "alert"} /\ (upsets' = 0 => upsets = 0)
  BY <1>1
<1> QED BY <1>1, <1>4, <1>5, <1>6, <1>7, <1>8, <1>9, <1>10, <1>11, SpeechCall

-----------------------------------------------------------------------------
(* Discussions: votes                                                      *)

LEMMA SameVoteCount == \A S : Forum!Cardinality(S) = Cardinality(S)
BY DEF Cardinality, Forum!Cardinality

(* The call at a vote, alone, has read the number of votes there are.      *)
LEMMA VoteCounts ==
  ASSUME ForumOK, NEW s \in Calls, speech[s].pc \in {"unvote", "vote"}, ~crossTalk, upsets = 0,
         Forum!Exists(speech[s].post)
  PROVE  /\ IsFiniteSet(Forum!Votes(speech[s].post))
         /\ speech[s].upvotes = Cardinality(Forum!Votes(speech[s].post))
<1> DEFINE p == speech[s].post
<1>1. Forum!Votes(p) \subseteq ballots
  BY DEF Forum!Votes
<1>2. IsFiniteSet(Forum!Votes(p))
  BY <1>1, ForumFacts, FS_Subset
<1>3. speech[s].upvotes = posts[p].upvotes
  BY ForumFacts DEF Forum!SpeechOK
<1>4. p \in Posts
  BY DEF Forum!Exists
<1>5. ~\E t \in Calls : Forum!At(t, "score") /\ speech[t].post = p
  BY ForumFacts DEF Forum!Alone, Forum!At
<1>6. posts[p].upvotes = Forum!Cardinality(Forum!Votes(p))
  BY <1>4, <1>5, ForumFacts DEF Forum!ScoreIsVotes
<1> QED BY <1>2, <1>3, <1>6, SameVoteCount

(* A vote is cast or withdrawn: n votes are what the call goes on with.    *)
LEMMA VoteMoves ==
  ASSUME ForumOK, NEW s \in Calls, speech[s].pc \in {"unvote", "vote"}, NEW n \in Nat,
         UNCHANGED <<posts, alerts, modLog, crossTalk, messages, upsets>>,
         speech' = [speech EXCEPT ![s].pc = "score", ![s].upvotes = n],
         ballots' \in SUBSET (Posts \X People), IsFiniteSet(ballots'),
         \A b \in ballots' : Forum!Written(b[1]),
         \A p \in Posts \ {speech[s].post} : Forum!Votes(p)' = Forum!Votes(p),
         ~crossTalk /\ upsets = 0 /\ Forum!Exists(speech[s].post) =>
           n = Cardinality({b \in ballots' : b[1] = speech[s].post})
  PROVE  ForumOK'
<1> DEFINE c == speech[s]
<1>1. Forum!Written(c.post) /\ c.who \in People
  BY ForumFacts DEF Forum!SpeechOK
<1>2. ASSUME NEW r \in Forum!Speech
      PROVE  LET k == [r EXCEPT !.pc = "score", !.upvotes = n] IN
             /\ k \in Forum!Speech /\ k.pc = "score" /\ k.upvotes = n
             /\ k.post = r.post /\ k.who = r.who
  BY SpeechIdle DEF Forum!Speech
<1>3. \E k \in Forum!Speech : /\ speech' = [speech EXCEPT ![s] = k]
                              /\ k.pc = "score" /\ k.upvotes = n
                              /\ k.post = c.post /\ k.who = c.who
  <2>1. speech' = [speech EXCEPT ![s] = [c EXCEPT !.pc = "score", !.upvotes = n]]
    BY ForumFacts
  <2>2. c \in Forum!Speech
    BY ForumFacts
  <2> QED BY <1>2, <2>1, <2>2
<1>4. /\ speech' \in [Calls -> Forum!Speech] /\ speech'[s].pc = "score"
      /\ speech'[s].upvotes = n /\ speech'[s].post = c.post /\ speech'[s].who = c.who
      /\ \A t \in Calls \ {s} : speech'[t] = speech[t]
  <2>1. speech \in [Calls -> Forum!Speech]
    BY ForumFacts
  <2> QED BY <1>3, <2>1, Zenon
<1>5. ForumGrows
  BY DEF ForumGrows, Forum!Written
<1>6. Forum!TypeOK'
  BY <1>4, ForumFacts DEF Forum!TypeOK
<1>7. Forum!Threaded' /\ \A b \in ballots' : Forum!Written(b[1])'
  BY ForumFacts DEF Forum!Threaded, Forum!Written, Forum!OneBelow
<1>8. ASSUME ~crossTalk', upsets' = 0, Forum!Exists(c.post)
      PROVE  n = Forum!Cardinality({b \in ballots' : b[1] = c.post})
  BY <1>8, SameVoteCount
<1>9. Forum!SpeechOK(s)'
  BY <1>1, <1>4, <1>8 DEF Forum!SpeechOK, Forum!Written, Forum!Exists, Forum!Votes
<1>10. Forum!ScoreIsVotes'
  <2> SUFFICES ASSUME NEW p \in Posts, Forum!Exists(p)', ~crossTalk', upsets' = 0
               PROVE  \/ \E t \in Calls : speech'[t].pc = "score" /\ speech'[t].post = p
                      \/ posts'[p].upvotes = Forum!Cardinality(Forum!Votes(p)')
    BY DEF Forum!ScoreIsVotes, Forum!At
  <2>1. CASE p = c.post
    BY <1>4, <2>1
  <2>2. CASE p # c.post
    <3>1. Forum!Exists(p) /\ Forum!Votes(p)' = Forum!Votes(p)
      BY <2>2 DEF Forum!Exists
    <3>2. \/ \E t \in Calls : speech[t].pc = "score" /\ speech[t].post = p
          \/ posts[p].upvotes = Forum!Cardinality(Forum!Votes(p))
      BY <3>1, ForumFacts DEF Forum!ScoreIsVotes, Forum!At
    <3> QED BY <1>4, <3>1, <3>2
  <2> QED BY <2>1, <2>2
<1>11. Forum!ModerationIsLogged'
  <2> SUFFICES ASSUME NEW p \in Posts, posts'[p].status = "hidden", upsets' = 0
               PROVE  \/ <<p, "hide">> \in modLog'
                      \/ \E t \in Calls : /\ speech'[t].pc = "log" /\ speech'[t].post = p
                                          /\ speech'[t].verb = "hide"
    BY DEF Forum!ModerationIsLogged, Forum!At
  <2>1. \/ <<p, "hide">> \in modLog
        \/ \E t \in Calls : speech[t].pc = "log" /\ speech[t].post = p /\ speech[t].verb = "hide"
    BY ForumFacts DEF Forum!ModerationIsLogged, Forum!At
  <2> QED BY <1>4, <2>1
<1>12. \A p \in Posts : ~(posts[p].status = "none" /\ posts'[p].status # "none")
  OBVIOUS
<1>13. c.pc \notin {"idle", "alert"} /\ (upsets' = 0 => upsets = 0) /\ (crossTalk => crossTalk')
  OBVIOUS
<1> QED BY <1>4, <1>5, <1>6, <1>7, <1>9, <1>10, <1>11, <1>12, <1>13, SpeechCall

LEMMA SpeechVotes ==
  ASSUME ForumOK, NEW s \in Calls, Forum!DeleteVote(s) \/ Forum!InsertVote(s)
  PROVE  ForumOK'
<1> DEFINE c == speech[s]
           b == <<c.post, c.who>>
           V == Forum!Votes(c.post)
<1>1. /\ c.pc \in {"unvote", "vote"}
      /\ UNCHANGED <<posts, alerts, modLog, crossTalk, messages, upsets>>
  BY DEF Forum!DeleteVote, Forum!InsertVote, Forum!At, Forum!history
<1>2. Forum!Written(c.post) /\ c.who \in People /\ c.post \in Posts
  BY <1>1, ForumFacts DEF Forum!SpeechOK, Forum!Written
<1>3. c.upvotes \in Nat
  BY ForumFacts DEF Forum!Speech
<1>4. CASE Forum!DeleteVote(s)
  <2> DEFINE n == IF c.upvotes > 0 THEN c.upvotes - 1 ELSE 0
  <2>1. c.pc = "unvote" /\ ballots' = ballots \ {b}
        /\ speech' = [speech EXCEPT ![s].pc = "score", ![s].upvotes = n]
    <3>1. speech' = [speech EXCEPT ![s].pc = "score",
                                   ![s].upvotes = IF @ > 0 THEN @ - 1 ELSE 0]
      BY <1>4 DEF Forum!DeleteVote
    <3> QED BY <1>4, <3>1, ForumFacts DEF Forum!DeleteVote, Forum!At
  <2>2. n \in Nat
    BY <1>3
  <2>3. /\ ballots' \in SUBSET (Posts \X People) /\ IsFiniteSet(ballots')
        /\ \A a \in ballots' : Forum!Written(a[1])
    BY <2>1, ForumFacts, FS_Subset
  <2>4. \A p \in Posts \ {c.post} : Forum!Votes(p)' = Forum!Votes(p)
    BY <2>1 DEF Forum!Votes
  <2>5. ASSUME ~crossTalk, upsets = 0, Forum!Exists(c.post)
        PROVE  n = Cardinality({a \in ballots' : a[1] = c.post})
    <3>1. b \in V
      BY <1>1, <2>1, <2>5, ForumFacts DEF Forum!SpeechOK, Forum!Votes
    <3>2. {a \in ballots' : a[1] = c.post} = V \ {b}
      BY <2>1 DEF Forum!Votes
    <3>3. IsFiniteSet(V) /\ c.upvotes = Cardinality(V)
      BY <1>1, <2>5, VoteCounts
    <3> HIDE DEF V, b
    <3>4. Cardinality(V \ {b}) = Cardinality(V) - 1 /\ Cardinality(V) \in Nat
          /\ Cardinality(V \ {b}) \in Nat
      BY <3>1, <3>3, FS_RemoveElement, FS_CardinalityType
    <3>5. ASSUME NEW u, NEW v, NEW w, u = v, w = v - 1, v \in Nat, w \in Nat
          PROVE  (IF u > 0 THEN u - 1 ELSE 0) = w
      BY <3>5
    <3>6. n = Cardinality(V \ {b})
      BY <3>3, <3>4, <3>5
    <3> QED BY <3>2, <3>6
  <2> HIDE DEF n
  <2> QED BY <1>1, <2>1, <2>2, <2>3, <2>4, <2>5, VoteMoves
<1>5. CASE Forum!InsertVote(s)
  <2>1. CASE b \in ballots \/ ~Forum!Exists(c.post)
    <3>1. ballots' = ballots /\ Forum!Return(s)
      BY <1>5, <2>1 DEF Forum!InsertVote
    <3> QED BY <1>1, <3>1, ForumFacts, SpeechReturns, SpeechQuiet
  <2>2. CASE ~(b \in ballots \/ ~Forum!Exists(c.post))
    <3>1. ballots' = ballots \union {b}
          /\ speech' = [speech EXCEPT ![s].pc = "score", ![s].upvotes = @ + 1]
      BY <1>5, <2>2 DEF Forum!InsertVote
    <3>2. speech' = [speech EXCEPT ![s].pc = "score", ![s].upvotes = c.upvotes + 1]
      BY <3>1, ForumFacts
    <3>3. /\ ballots' \in SUBSET (Posts \X People) /\ IsFiniteSet(ballots')
          /\ \A a \in ballots' : Forum!Written(a[1])
      <4>1. IsFiniteSet(ballots \union {b})
        BY ForumFacts, FS_AddElement
      <4> QED BY <1>2, <3>1, <4>1, ForumFacts
    <3>4. \A p \in Posts \ {c.post} : Forum!Votes(p)' = Forum!Votes(p)
      BY <3>1 DEF Forum!Votes
    <3>5. ASSUME ~crossTalk, upsets = 0, Forum!Exists(c.post)
          PROVE  c.upvotes + 1 = Cardinality({a \in ballots' : a[1] = c.post})
      <4>1. b \notin V
        BY <2>2 DEF Forum!Votes
      <4>2. {a \in ballots' : a[1] = c.post} = V \union {b}
        BY <3>1 DEF Forum!Votes
      <4>3. IsFiniteSet(V) /\ c.upvotes = Cardinality(V)
        BY <1>1, <3>5, VoteCounts
      <4> HIDE DEF V, b
      <4>4. Cardinality(V \union {b}) = Cardinality(V) + 1
        BY <4>1, <4>3, FS_AddElement
      <4> QED BY <4>2, <4>3, <4>4
    <3>6. c.upvotes + 1 \in Nat
      BY <1>3
    <3> QED BY <1>1, <3>2, <3>3, <3>4, <3>5, <3>6, VoteMoves
  <2> QED BY <2>1, <2>2
<1> QED BY <1>4, <1>5

-----------------------------------------------------------------------------
(* Discussions: steps that write posts                                     *)

LEMMA ThreadKept ==
  ASSUME ForumOK, ForumGrows, \A p \in Posts : posts[p].status = "none" => posts'[p] = posts[p]
  PROVE  Forum!Threaded'
<1>1. ASSUME NEW p \in Posts, Forum!Written(p)
      PROVE  posts'[p].author \in People /\ Forum!OneBelow(posts[p].depth, posts[p].parent)'
  <2>1. posts[p].author \in People /\ Forum!OneBelow(posts[p].depth, posts[p].parent)
    BY <1>1, ForumFacts DEF Forum!Threaded
  <2> QED BY <1>1, <2>1 DEF ForumGrows, Forum!OneBelow, Forum!Written
<1>2. ASSUME NEW p \in Posts, ~Forum!Written(p)
      PROVE  posts'[p] = Forum!NoRow /\ posts'[p].status = "none"
  BY <1>2, ForumFacts DEF Forum!Threaded, Forum!Written
<1> QED BY <1>1, <1>2 DEF Forum!Threaded, Forum!Written, ForumGrows

(* A call ends by writing a row that is there.                             *)
LEMMA PostWrites ==
  ASSUME ForumOK, NEW s \in Calls, speech[s].pc \in {"score", "edit"}, Forum!Return(s),
         UNCHANGED <<ballots, alerts, modLog, crossTalk, messages, upsets>>,
         NEW p, NEW row \in Forum!Post,
         posts' = posts \/ (posts' = [posts EXCEPT ![p] = row] /\ Forum!Exists(p)),
         p \in Posts => /\ row.status = posts[p].status /\ row.parent = posts[p].parent
                        /\ row.depth = posts[p].depth /\ row.author = posts[p].author,
         speech[s].pc = "edit" /\ p \in Posts => row.upvotes = posts[p].upvotes,
         speech[s].pc = "score" =>
           /\ p = speech[s].post /\ (Forum!Exists(p) => posts' = [posts EXCEPT ![p] = row])
           /\ row.upvotes = speech[s].upvotes
  PROVE  ForumOK'
<1>1. /\ speech' \in [Calls -> Forum!Speech]
      /\ \A t \in Calls \ {s} : speech'[t] = speech[t]
      /\ Forum!SpeechOK(s)'
  BY SpeechReturns
<1>2. posts' \in [Posts -> Forum!Post] /\ \A q \in Posts : q # p => posts'[q] = posts[q]
  BY ForumFacts
<1>3. \A q \in Posts : /\ posts'[q].status = posts[q].status /\ posts'[q].parent = posts[q].parent
                       /\ posts'[q].depth = posts[q].depth /\ posts'[q].author = posts[q].author
                       /\ posts[q].status = "none" => posts'[q] = posts[q]
  <2>1. CASE posts' = posts
    BY <2>1
  <2>2. CASE posts' = [posts EXCEPT ![p] = row] /\ Forum!Exists(p)
    <3>1. p \in Posts /\ posts'[p] = row /\ posts[p].status # "none"
      BY <2>2, ForumFacts DEF Forum!Exists
    <3> QED BY <1>2, <3>1
  <2> QED BY <2>1, <2>2
<1>4. ForumGrows
  BY <1>3 DEF ForumGrows, Forum!Written
<1>5. Forum!Threaded'
  BY <1>3, <1>4, ThreadKept
<1>6. Forum!TypeOK'
  BY <1>1, <1>2, ForumFacts DEF Forum!TypeOK
<1>7. IsFiniteSet(ballots') /\ \A b \in ballots' : Forum!Written(b[1])'
  BY <1>3, ForumFacts DEF Forum!Written
<1>8. Forum!ScoreIsVotes'
  <2> SUFFICES ASSUME NEW q \in Posts, Forum!Exists(q)', ~crossTalk', upsets' = 0
               PROVE  \/ \E t \in Calls : speech'[t].pc = "score" /\ speech'[t].post = q
                      \/ posts'[q].upvotes = Forum!Cardinality(Forum!Votes(q)')
    BY DEF Forum!ScoreIsVotes, Forum!At
  <2>1. Forum!Exists(q) /\ Forum!Votes(q)' = Forum!Votes(q)
    BY <1>3 DEF Forum!Exists, Forum!Votes
  <2>2. \/ \E t \in Calls : speech[t].pc = "score" /\ speech[t].post = q
        \/ posts[q].upvotes = Forum!Cardinality(Forum!Votes(q))
    BY <2>1, ForumFacts DEF Forum!ScoreIsVotes, Forum!At
  <2>3. CASE speech[s].pc = "score" /\ q = p
    <3>1. posts' = [posts EXCEPT ![p] = row]
      BY <2>1, <2>3
    <3>2. posts'[q].upvotes = speech[s].upvotes
      BY <2>3, <3>1, ForumFacts
    <3>3. speech[s].upvotes = Forum!Cardinality(Forum!Votes(q))
      BY <2>1, <2>3, ForumFacts DEF Forum!SpeechOK
    <3> QED BY <2>1, <3>2, <3>3
  <2>4. CASE ~(speech[s].pc = "score" /\ q = p)
    <3>1. posts'[q].upvotes = posts[q].upvotes
      BY <1>2, <2>4, ForumFacts
    <3>2. CASE posts[q].upvotes = Forum!Cardinality(Forum!Votes(q))
      BY <2>1, <3>1, <3>2
    <3>3. CASE \E t \in Calls : speech[t].pc = "score" /\ speech[t].post = q
      BY <1>1, <2>4, <3>3
    <3> QED BY <2>2, <3>2, <3>3
  <2> QED BY <2>3, <2>4
<1>9. Forum!ModerationIsLogged'
  <2> SUFFICES ASSUME NEW q \in Posts, posts'[q].status = "hidden", upsets' = 0
               PROVE  \/ <<q, "hide">> \in modLog'
                      \/ \E t \in Calls : /\ speech'[t].pc = "log" /\ speech'[t].post = q
                                          /\ speech'[t].verb = "hide"
    BY DEF Forum!ModerationIsLogged, Forum!At
  <2>1. \/ <<q, "hide">> \in modLog
        \/ \E t \in Calls : speech[t].pc = "log" /\ speech[t].post = q /\ speech[t].verb = "hide"
    BY <1>3, ForumFacts DEF Forum!ModerationIsLogged, Forum!At
  <2> QED BY <1>1, <2>1
<1>10. \A q \in Posts : ~(posts[q].status = "none" /\ posts'[q].status # "none")
  BY <1>3
<1>11. speech[s].pc \notin {"idle", "alert"} /\ (upsets' = 0 => upsets = 0)
       /\ (crossTalk => crossTalk')
  OBVIOUS
<1> QED BY <1>1, <1>4, <1>5, <1>6, <1>7, <1>8, <1>9, <1>10, <1>11, SpeechCall

LEMMA SpeechWrites ==
  ASSUME ForumOK, NEW s \in Calls, Forum!WriteScore(s) \/ Forum!WriteEdit(s)
  PROVE  ForumOK'
<1> DEFINE c == speech[s]
           p == c.post
<1>1. /\ c.pc \in {"score", "edit"} /\ Forum!Return(s)
      /\ UNCHANGED <<ballots, alerts, modLog, crossTalk, messages, upsets>>
  BY DEF Forum!WriteScore, Forum!WriteEdit, Forum!At, Forum!history
<1>2. p \in Posts /\ posts[p] \in Forum!Post /\ c.upvotes \in Nat
  BY <1>1, ForumFacts DEF Forum!SpeechOK, Forum!Written, Forum!Speech
<1>3. CASE Forum!WriteScore(s)
  <2> DEFINE row == [posts[p] EXCEPT !.upvotes = c.upvotes]
  <2>1. row \in Forum!Post /\ row.status = posts[p].status /\ row.parent = posts[p].parent
        /\ row.depth = posts[p].depth /\ row.author = posts[p].author
        /\ row.upvotes = c.upvotes
    BY <1>2 DEF Forum!Post
  <2>2. c.pc = "score"
        /\ posts' = IF Forum!Exists(p) THEN [posts EXCEPT ![p] = row] ELSE posts
    BY <1>2, <1>3, ForumFacts DEF Forum!WriteScore, Forum!At
  <2> HIDE DEF row
  <2> QED BY <1>1, <2>1, <2>2, PostWrites
<1>4. CASE Forum!WriteEdit(s)
  <2> DEFINE row == [posts[p] EXCEPT !.edited = TRUE]
  <2>1. row \in Forum!Post /\ row.status = posts[p].status /\ row.parent = posts[p].parent
        /\ row.depth = posts[p].depth /\ row.author = posts[p].author
        /\ row.upvotes = posts[p].upvotes
    BY <1>2 DEF Forum!Post
  <2>2. c.pc = "edit"
        /\ posts' = IF Forum!Exists(p) THEN [posts EXCEPT ![p] = row] ELSE posts
    BY <1>2, <1>4, ForumFacts DEF Forum!WriteEdit, Forum!At
  <2> HIDE DEF row
  <2> QED BY <1>1, <2>1, <2>2, PostWrites
<1> QED BY <1>1, <1>3, <1>4

LEMMA SpeechModerates ==
  ASSUME ForumOK, NEW s \in Calls, Forum!WriteModeration(s)
  PROVE  ForumOK'
<1> DEFINE c == speech[s]
           gone == IF c.verb = "delete" /\ Forum!Exists(c.post) THEN Forum!Subtree(c.post) ELSE {}
           word == IF c.verb = "hide" THEN "hidden" ELSE "visible"
<1>1. /\ c.pc = "moderate" /\ Forum!Goto(s, "log")
      /\ posts' = [p \in Posts |->
           IF p \in gone THEN [posts[p] EXCEPT !.status = "deleted"]
           ELSE IF p = c.post /\ Forum!Exists(p) THEN [posts[p] EXCEPT !.status = word]
           ELSE posts[p]]
      /\ ballots' = {b \in ballots : b[1] \notin gone}
      /\ UNCHANGED <<alerts, modLog, crossTalk, messages, upsets>>
  BY DEF Forum!WriteModeration, Forum!At, Forum!history
<1>2. /\ speech' \in [Calls -> Forum!Speech]
      /\ speech'[s].pc = "log" /\ speech'[s].post = c.post /\ speech'[s].verb = c.verb
      /\ \A t \in Calls \ {s} : speech'[t] = speech[t]
  <2>1. speech' = [speech EXCEPT ![s] = [c EXCEPT !.pc = "log"]] /\ c \in Forum!Speech
    BY <1>1, ForumFacts DEF Forum!Goto
  <2>2. /\ [c EXCEPT !.pc = "log"] \in Forum!Speech /\ [c EXCEPT !.pc = "log"].pc = "log"
        /\ [c EXCEPT !.pc = "log"].post = c.post /\ [c EXCEPT !.pc = "log"].verb = c.verb
    BY <2>1, SpeechIdle DEF Forum!Speech
  <2> QED BY <2>1, <2>2, ForumFacts
<1>3. Forum!Written(c.post)
  BY <1>1, ForumFacts DEF Forum!SpeechOK
<1>4. \A p \in gone : Forum!Written(p)
  <2>1. \A q \in Posts : \A p \in Forum!Below(q) : Forum!Written(p)
    BY ForumFacts DEF Forum!Below, Forum!Threaded, Forum!NoRow
  <2> QED BY <1>3, <2>1 DEF Forum!Subtree, Forum!Below, Forum!Written
<1> HIDE DEF gone
<1>5. ASSUME NEW p \in Posts
      PROVE  /\ posts'[p] \in Forum!Post
             /\ posts'[p].author = posts[p].author /\ posts'[p].parent = posts[p].parent
             /\ posts'[p].depth = posts[p].depth /\ posts'[p].upvotes = posts[p].upvotes
             /\ Forum!Written(p) => posts'[p].status # "none"
             /\ posts[p].status = "none" => posts'[p] = posts[p]
             /\ posts'[p].status \in {"visible", "hidden"} =>
                  posts[p].status \in {"visible", "hidden"} /\ p \notin gone
             /\ posts'[p].status = "hidden" =>
                  posts[p].status = "hidden" \/ (p = c.post /\ c.verb = "hide")
  <2>1. posts[p] \in Forum!Post
    BY ForumFacts
  <2>2. CASE p \in gone
    <3>1. posts'[p] = [posts[p] EXCEPT !.status = "deleted"] /\ posts[p].status # "none"
      BY <1>1, <1>4, <2>2 DEF Forum!Written
    <3> QED BY <2>1, <2>2, <3>1 DEF Forum!Post
  <2>3. CASE p \notin gone /\ p = c.post /\ Forum!Exists(p)
    <3>1. posts'[p] = [posts[p] EXCEPT !.status = word]
      BY <1>1, <2>3
    <3>2. word \in {"hidden", "visible"} /\ (word = "hidden" => c.verb = "hide")
      OBVIOUS
    <3>3. posts[p].status \in {"visible", "hidden"}
      BY <2>3 DEF Forum!Exists
    <3> HIDE DEF word
    <3> QED BY <2>1, <2>3, <3>1, <3>2, <3>3 DEF Forum!Post
  <2>4. CASE p \notin gone /\ ~(p = c.post /\ Forum!Exists(p))
    <3>1. posts'[p] = posts[p]
      BY <1>1, <2>4
    <3> QED BY <2>1, <2>4, <3>1 DEF Forum!Written
  <2> QED BY <2>2, <2>3, <2>4
<1>6. ForumGrows
  BY <1>1, <1>5 DEF ForumGrows
<1>7. Forum!Threaded'
  BY <1>5, <1>6, ThreadKept
<1>8. ballots' \subseteq ballots /\ IsFiniteSet(ballots')
  BY <1>1, ForumFacts, FS_Subset
<1>9. \A b \in ballots' : Forum!Written(b[1])'
  BY <1>6, <1>8, ForumFacts DEF ForumGrows, Forum!Written
<1>10. Forum!TypeOK'
  <2>1. posts' \in [Posts -> Forum!Post]
    BY <1>1, <1>5
  <2> QED BY <1>1, <1>2, <1>8, <2>1, ForumFacts DEF Forum!TypeOK
<1>11. Forum!ScoreIsVotes'
  <2> SUFFICES ASSUME NEW q \in Posts, Forum!Exists(q)', ~crossTalk', upsets' = 0
               PROVE  \/ \E t \in Calls : speech'[t].pc = "score" /\ speech'[t].post = q
                      \/ posts'[q].upvotes = Forum!Cardinality(Forum!Votes(q)')
    BY DEF Forum!ScoreIsVotes, Forum!At
  <2>1. Forum!Exists(q) /\ q \notin gone
    BY <1>5 DEF Forum!Exists
  <2>2. Forum!Votes(q)' = Forum!Votes(q)
    BY <1>1, <2>1 DEF Forum!Votes
  <2>3. \/ \E t \in Calls : speech[t].pc = "score" /\ speech[t].post = q
        \/ posts[q].upvotes = Forum!Cardinality(Forum!Votes(q))
    BY <1>1, <2>1, ForumFacts DEF Forum!ScoreIsVotes, Forum!At
  <2> QED BY <1>1, <1>2, <1>5, <2>2, <2>3
<1>12. Forum!ModerationIsLogged'
  <2> SUFFICES ASSUME NEW q \in Posts, posts'[q].status = "hidden", upsets' = 0
               PROVE  \/ <<q, "hide">> \in modLog'
                      \/ \E t \in Calls : /\ speech'[t].pc = "log" /\ speech'[t].post = q
                                          /\ speech'[t].verb = "hide"
    BY DEF Forum!ModerationIsLogged, Forum!At
  <2>1. CASE q = c.post /\ c.verb = "hide"
    BY <1>2, <2>1
  <2>2. CASE posts[q].status = "hidden"
    <3>1. \/ <<q, "hide">> \in modLog
          \/ \E t \in Calls : speech[t].pc = "log" /\ speech[t].post = q /\ speech[t].verb = "hide"
      BY <1>1, <2>2, ForumFacts DEF Forum!ModerationIsLogged, Forum!At
    <3> QED BY <1>1, <1>2, <3>1
  <2> QED BY <1>5, <2>1, <2>2
<1>13. Forum!SpeechOK(s)'
  <2>1. c.post \in Posts /\ posts'[c.post].status # "none"
    BY <1>3, <1>6 DEF ForumGrows, Forum!Written
  <2> QED BY <1>2, <2>1 DEF Forum!SpeechOK, Forum!Written
<1>14. \A p \in Posts : ~(posts[p].status = "none" /\ posts'[p].status # "none")
  BY <1>5
<1>15. c.pc \notin {"idle", "alert"} /\ (upsets' = 0 => upsets = 0) /\ (crossTalk => crossTalk')
  BY <1>1
<1> QED BY <1>2, <1>6, <1>7, <1>8, <1>9, <1>10, <1>11, <1>12, <1>13, <1>14, <1>15, SpeechCall

(* A call writes its post: c is the call, next what it is then.            *)
LEMMA PostInserts ==
  ASSUME ForumOK, NEW s \in Calls, NEW p \in Posts, posts[p].status = "none",
         UNCHANGED <<ballots, alerts, modLog, crossTalk, messages, upsets>>,
         NEW c \in Forum!Speech, c = speech[s], c.pc = "insert",
         c.post = None \/ Forum!Exists(c.post),
         NEW row \in Forum!Post, posts' = [posts EXCEPT ![p] = row],
         row.status = "visible", row.parent = c.post, row.depth = c.depth, row.author = c.who,
         row.upvotes = 0,
         NEW next \in Forum!Speech, speech' = [speech EXCEPT ![s] = next],
         next.pc = "alert", next.post = p, next.ancestors = c.ancestors \ {c.who}
  PROVE  ForumOK'
<1>1. /\ c.who \in People /\ Forum!OneBelow(c.depth, c.post)
      /\ Forum!SpeechOK(s) /\ ~Forum!Written(p) /\ posts[p] = Forum!NoRow
  BY ForumFacts DEF Forum!SpeechOK, Forum!Written, Forum!Threaded
<1>2. /\ speech' \in [Calls -> Forum!Speech] /\ speech'[s] = next
      /\ \A t \in Calls \ {s} : speech'[t] = speech[t]
  BY ForumFacts
<1>3. /\ posts' \in [Posts -> Forum!Post] /\ posts'[p] = row
      /\ \A q \in Posts : q # p => posts'[q] = posts[q]
  BY <1>1, ForumFacts
<1>4. ForumGrows
  BY <1>1, <1>3 DEF ForumGrows, Forum!Written
<1>5. \A q \in Posts : Forum!Written(q)' <=> (q = p \/ Forum!Written(q))
  BY <1>1, <1>3 DEF Forum!Written
<1>6. Forum!OneBelow(row.depth, row.parent)'
  BY <1>1, <1>4, BelowKept
<1>7. Forum!Threaded'
  <2>1. ASSUME NEW q \in Posts, Forum!Written(q)'
        PROVE  (posts[q].author \in People /\ Forum!OneBelow(posts[q].depth, posts[q].parent))'
    <3>1. CASE q = p
      BY <1>1, <1>3, <1>6, <3>1 DEF Forum!OneBelow, Forum!Written
    <3>2. CASE q # p
      <4>1. /\ Forum!Written(q) /\ posts'[q] = posts[q] /\ posts[q].author \in People
            /\ Forum!OneBelow(posts[q].depth, posts[q].parent)
        BY <1>3, <1>5, <2>1, <3>2, ForumFacts DEF Forum!Threaded
      <4> QED BY <1>4, <4>1 DEF Forum!OneBelow, ForumGrows, Forum!Written
    <3> QED BY <3>1, <3>2
  <2>2. ASSUME NEW q \in Posts, ~Forum!Written(q)'
        PROVE  posts'[q] = Forum!NoRow
    BY <1>3, <1>5, <2>2, ForumFacts DEF Forum!Threaded
  <2> QED BY <2>1, <2>2 DEF Forum!Threaded
<1>8. Forum!TypeOK'
  BY <1>2, <1>3, ForumFacts DEF Forum!TypeOK
<1>9. IsFiniteSet(ballots') /\ \A b \in ballots' : Forum!Written(b[1])'
  BY <1>4, ForumFacts DEF ForumGrows, Forum!Written
<1>10. Forum!ScoreIsVotes'
  <2> SUFFICES ASSUME NEW q \in Posts, Forum!Exists(q)', ~crossTalk', upsets' = 0
               PROVE  \/ \E t \in Calls : speech'[t].pc = "score" /\ speech'[t].post = q
                      \/ posts'[q].upvotes = Forum!Cardinality(Forum!Votes(q)')
    BY DEF Forum!ScoreIsVotes, Forum!At
  <2>1. Forum!Votes(q)' = Forum!Votes(q)
    BY DEF Forum!Votes
  <2>2. CASE q = p
    <3>1. Forum!Votes(p) = {}
      BY <1>1, ForumFacts DEF Forum!Votes
    <3>2. Forum!Cardinality({}) = 0
      BY SameVoteCount, FS_EmptySet
    <3> QED BY <1>1, <1>3, <2>1, <2>2, <3>1, <3>2
  <2>3. CASE q # p
    <3>1. Forum!Exists(q) /\ posts'[q] = posts[q]
      BY <1>3, <2>3 DEF Forum!Exists
    <3>2. \/ \E t \in Calls : speech[t].pc = "score" /\ speech[t].post = q
          \/ posts[q].upvotes = Forum!Cardinality(Forum!Votes(q))
      BY <3>1, ForumFacts DEF Forum!ScoreIsVotes, Forum!At
    <3> QED BY <1>2, <2>1, <3>1, <3>2
  <2> QED BY <2>2, <2>3
<1>11. Forum!ModerationIsLogged'
  <2> SUFFICES ASSUME NEW q \in Posts, posts'[q].status = "hidden", upsets' = 0
               PROVE  \/ <<q, "hide">> \in modLog'
                      \/ \E t \in Calls : /\ speech'[t].pc = "log" /\ speech'[t].post = q
                                          /\ speech'[t].verb = "hide"
    BY DEF Forum!ModerationIsLogged, Forum!At
  <2>1. posts[q].status = "hidden"
    BY <1>1, <1>3
  <2>2. \/ <<q, "hide">> \in modLog
        \/ \E t \in Calls : speech[t].pc = "log" /\ speech[t].post = q /\ speech[t].verb = "hide"
    BY <2>1, ForumFacts DEF Forum!ModerationIsLogged, Forum!At
  <2> QED BY <1>2, <2>2
<1>12. Forum!Heard(p, next.ancestors)'
  <2> SUFFICES ASSUME NEW q \in Forum!Above(p)', posts'[q].author # posts'[p].author
               PROVE  posts'[q].author \in next.ancestors
    BY DEF Forum!Heard
  <2>1. posts'[p].author = c.who /\ posts'[p].parent = c.post
    BY <1>1, <1>3
  <2>2. c.post # None
    BY <2>1 DEF Forum!Above
  <2>3. c.post \in Posts /\ Forum!Written(c.post) /\ c.post # p
    BY <1>1, <2>2 DEF Forum!OneBelow, Forum!Written
  <2>4. posts'[c.post] = posts[c.post]
    BY <1>3, <2>3
  <2>5. posts[c.post].parent \in Posts => /\ Forum!Written(posts[c.post].parent)
                                          /\ posts[c.post].parent # p
    BY <1>1, <2>3, ForumFacts DEF Forum!Threaded, Forum!OneBelow
  <2>6. /\ posts[c.post].author \in c.ancestors
        /\ posts[c.post].parent \in Posts => posts[posts[c.post].parent].author \in c.ancestors
    BY <1>1, <2>2 DEF Forum!SpeechOK
  <2>7. q = c.post \/ (q \in Posts /\ q = posts[c.post].parent)
    BY <2>1, <2>4 DEF Forum!Above
  <2>8. posts'[q].author \in c.ancestors
    BY <1>3, <2>4, <2>5, <2>6, <2>7
  <2> QED BY <2>1, <2>8
<1>13. Forum!SpeechOK(s)'
  <2>1. Forum!Written(p)'
    BY <1>5
  <2> QED BY <1>2, <1>12, <2>1 DEF Forum!SpeechOK
<1>14. \A q \in Posts : posts[q].status = "none" /\ posts'[q].status # "none" =>
         speech'[s].pc = "alert" /\ speech'[s].post = q
  BY <1>2, <1>3
<1>15. c.pc \notin {"idle", "alert"} /\ (upsets' = 0 => upsets = 0) /\ (crossTalk => crossTalk')
  OBVIOUS
<1> QED BY <1>2, <1>4, <1>7, <1>8, <1>9, <1>10, <1>11, <1>13, <1>14, <1>15, SpeechCall

LEMMA SpeechInserts ==
  ASSUME ForumOK, NEW s \in Calls, NEW p \in Posts, Forum!InsertPost(s, p)
  PROVE  ForumOK'
<1> DEFINE c == speech[s]
<1>1. /\ c.pc = "insert" /\ posts[p].status = "none"
      /\ UNCHANGED <<ballots, alerts, modLog, crossTalk, messages, upsets>>
  BY DEF Forum!InsertPost, Forum!At, Forum!history
<1>2. /\ c \in Forum!Speech /\ c.who \in People /\ Forum!OneBelow(c.depth, c.post)
      /\ Forum!SpeechOK(s) /\ ~Forum!Written(p) /\ posts[p] = Forum!NoRow
  BY <1>1, ForumFacts DEF Forum!SpeechOK, Forum!Written, Forum!Threaded
<1>3. CASE ~(c.post = None \/ Forum!Exists(c.post))
  <2>1. Forum!Return(s) /\ UNCHANGED posts
    BY <1>3 DEF Forum!InsertPost
  <2>2. /\ speech' \in [Calls -> Forum!Speech] /\ Forum!SpeechOK(s)'
        /\ \A t \in Calls \ {s} : speech'[t] = speech[t]
    BY <2>1, SpeechReturns
  <2> QED BY <1>1, <2>1, <2>2, ForumFacts, SpeechQuiet
<1>4. CASE c.post = None \/ Forum!Exists(c.post)
  <2> DEFINE row == [Forum!NoRow EXCEPT !.status = "visible", !.parent = c.post,
                                        !.depth = c.depth, !.author = c.who]
             next == [c EXCEPT !.pc = "alert", !.post = p, !.ancestors = @ \ {c.who}]
  <2>1. posts' = [posts EXCEPT ![p] = row] /\ speech' = [speech EXCEPT ![s] = next]
    BY <1>4, ForumFacts DEF Forum!InsertPost
  <2>2. /\ row \in Forum!Post /\ row.status = "visible" /\ row.parent = c.post
        /\ row.depth = c.depth /\ row.author = c.who /\ row.upvotes = 0
    BY <1>2 DEF Forum!NoRow, Forum!Post, Forum!Speech, Forum!MaxReplyDepth
  <2>3. /\ next \in Forum!Speech /\ next.pc = "alert" /\ next.post = p
        /\ next.ancestors = c.ancestors \ {c.who}
    BY <1>2, SpeechIdle DEF Forum!Speech
  <2> HIDE DEF row, next
  <2> QED BY <1>1, <1>2, <1>4, <2>1, <2>2, <2>3, PostInserts
<1> QED BY <1>3, <1>4

LEMMA ForumStep ==
  ASSUME ForumOK, Forum!Next
  PROVE  ForumOK'
<1>1. ASSUME Forum!DiscussionRequest PROVE ForumOK'
  BY <1>1, SpeechRequests
<1>2. ASSUME NEW s \in Calls, Forum!SpeechStep(s) PROVE ForumOK'
  <2>1. CASE Forum!WalkChain(s)
    BY <2>1, SpeechWalks
  <2>2. CASE \E p \in Posts : Forum!InsertPost(s, p)
    BY <2>2, SpeechInserts
  <2>3. CASE Forum!AlertAncestor(s) \/ Forum!AnswerPost(s)
    BY <2>3, SpeechAlerts
  <2>4. CASE Forum!LookForVote(s)
    BY <2>4, SpeechLooks
  <2>5. CASE Forum!DeleteVote(s) \/ Forum!InsertVote(s)
    BY <2>5, SpeechVotes
  <2>6. CASE Forum!WriteScore(s) \/ Forum!WriteEdit(s)
    BY <2>6, SpeechWrites
  <2>7. CASE Forum!WriteModeration(s)
    BY <2>7, SpeechModerates
  <2>8. CASE Forum!LogModeration(s)
    BY <2>8, SpeechLogs
  <2> QED BY <1>2, <2>1, <2>2, <2>3, <2>4, <2>5, <2>6, <2>7, <2>8 DEF Forum!SpeechStep
<1>3. ASSUME NEW s \in Calls, Forum!Crash(s) PROVE ForumOK'
  BY <1>3, SpeechCrash
<1> QED BY <1>1, <1>2, <1>3 DEF Forum!Next

LEMMA ForumFrame ==
  ASSUME ForumOK, UNCHANGED forumVars
  PROVE  ForumOK'
<1>1. UNCHANGED <<posts, ballots, alerts, modLog, speech, crossTalk, messages, upsets>>
  BY DEF forumVars
<1>2. Forum!TypeOK' /\ Forum!Threaded' /\ Forum!Alone'
  BY <1>1, ForumFacts DEF Forum!TypeOK, Forum!Threaded, Forum!Written, Forum!OneBelow,
                          Forum!Alone, Forum!At
<1>3. Forum!ThreadIsWhole'
  <2>1. Forum!TypeOK /\ Forum!Threaded => Forum!ThreadIsWhole
    BY WholeThread
  <2>2. (Forum!TypeOK /\ Forum!Threaded => Forum!ThreadIsWhole)'
    BY WholeThread, PTL
  <2> QED BY <1>2, <2>2
<1>4. Forum!RepliesAreHeard'
  BY <1>1, ForumFacts DEF Forum!RepliesAreHeard, Forum!Heard, Forum!Above, Forum!At, Forum!Exists
<1>5. Forum!ScoreIsVotes' /\ Forum!ModerationIsLogged'
  BY <1>1, ForumFacts DEF Forum!ScoreIsVotes, Forum!Votes, Forum!Exists, Forum!At,
                          Forum!ModerationIsLogged
<1>6. IsFiniteSet(ballots') /\ \A b \in ballots' : Forum!Written(b[1])'
  BY <1>1, ForumFacts DEF Forum!Written
<1>7. ASSUME NEW s \in Calls PROVE Forum!SpeechOK(s)'
  <2>1. Forum!SpeechOK(s)
    BY ForumFacts
  <2> QED BY <1>1, <2>1 DEF Forum!SpeechOK, Forum!Written, Forum!OneBelow, Forum!Exists,
                            Forum!Votes, Forum!Heard, Forum!Above
<1> QED BY <1>2, <1>3, <1>4, <1>5, <1>6, <1>7 DEF ForumOK, Forum!ForumInv

(* For any number of calls in flight: a viewer's thread shows every post   *)
(* the viewer may see; without crashes everybody above a reply hears of it *)
(* and hiding a post is on record; without crashes and while calls do not  *)
(* overlap votes add up (discussions/service.ts).                          *)
THEOREM ThreadsAreWhole == Spec => []ForumInv
<1>1. Init => ForumOK
  BY ForumInit DEF Init
<1>2. ForumOK /\ [Next]_vars => ForumOK'
  BY ForumStep, ForumFrame DEF Next, Only, vars
<1>3. Spec => []ForumOK
  BY <1>1, <1>2, PTL DEF Spec
<1>4. ForumOK => ForumInv
  BY DEF ForumOK, ForumInv
<1> QED BY <1>3, <1>4, PTL

-----------------------------------------------------------------------------
(* The catalogue.  A match is on the page its place among the matches      *)
(* gives it; in whatever order the database returns ties, its place is     *)
(* after the matches sorted above it and among those not sorted below it.  *)

USE AskedAssumption

LEMMA ShopCount == \A S : Shop!Cardinality(S) = Cardinality(S)
BY DEF Cardinality, Shop!Cardinality

LEMMA ShelfCounts ==
  /\ Shop!Cardinality(Titles) \in Nat \ {0}
  /\ \A T \in SUBSET Titles :
       /\ IsFiniteSet(T) /\ Shop!Cardinality(T) \in Nat
       /\ Shop!Cardinality(T) <= Shop!Cardinality(Titles)
<1>1. Shop!Cardinality(Titles) \in Nat \ {0}
  BY ShopCount, FS_CardinalityType, FS_EmptySet
<1>2. ASSUME NEW T \in SUBSET Titles
      PROVE  /\ IsFiniteSet(T) /\ Shop!Cardinality(T) \in Nat
             /\ Shop!Cardinality(T) <= Shop!Cardinality(Titles)
  BY ShopCount, FS_Subset, FS_CardinalityType
<1> QED BY <1>1, <1>2

LEMMA ShelfFacts ==
  ASSUME Shop!TypeOK
  PROVE  /\ shelf \in [Titles -> Shop!Course] /\ visit \in Shop!Visit
         /\ visit.page \in 1..Shop!Cardinality(Titles)
         /\ visit.total \in 0..Shop!Cardinality(Titles)
         /\ still \in BOOLEAN /\ reshelved \in 0..MaxReshelvings
         /\ \A t \in Titles : shelf[t].rank \in Nat /\ shelf[t].weeks \in Nat
         /\ \A bands : Shop!Matches(bands) \in SUBSET Titles
<1>1. ASSUME NEW t \in Titles PROVE shelf[t].rank \in Nat /\ shelf[t].weeks \in Nat
  <2>1. shelf[t] \in Shop!Course
    BY DEF Shop!TypeOK
  <2>2. shelf[t].rank \in 1..Shop!Cardinality(Titles) /\ shelf[t].weeks \in Weeks
    BY <2>1 DEF Shop!Course
  <2>3. shelf[t].weeks \in Nat
    BY <2>2
  <2>4. shelf[t].rank \in Nat
    <3>1. \A N \in Nat : \A k \in 1..N : k \in Nat
      OBVIOUS
    <3> QED BY <2>2, <3>1, ShelfCounts
  <2> QED BY <2>3, <2>4
<1>2. \A bands : Shop!Matches(bands) \in SUBSET Titles
  BY DEF Shop!Matches
<1> QED BY <1>1, <1>2 DEF Shop!TypeOK

LEMMA MoreIsMore ==
  ASSUME NEW m \in Nat, NEW n \in Nat, m <= n
  PROVE  m * PageSize \in Nat /\ m * PageSize <= n * PageSize
<1>1. n = m + (n - m) /\ n - m \in Nat
  OBVIOUS
<1>2. n * PageSize = m * PageSize + (n - m) * PageSize
  BY <1>1
<1>3. (n - m) * PageSize >= 0 /\ m * PageSize >= 0
  BY <1>1
<1> QED BY <1>2, <1>3

(* Of matches in some order of the database, fewer than i are sorted above *)
(* the i-th, and at least i are not sorted below it.                       *)
LEMMA PlaceInOrder ==
  ASSUME Shop!TypeOK, NEW s \in Shop!Orders(Shop!Matches(visit.bands))
  PROVE  LET M == Shop!Matches(visit.bands) IN
         /\ s \in [1..Shop!Cardinality(M) -> M] /\ Shop!Cardinality(M) \in Nat
         /\ \A t \in M : \E i \in 1..Shop!Cardinality(M) : s[i] = t
         /\ \A i \in 1..Shop!Cardinality(M) :
              /\ Shop!Cardinality(Shop!Above(s[i])) \in Nat
              /\ Shop!Cardinality(Shop!NotBelow(s[i])) \in Nat
              /\ Shop!Cardinality(Shop!Above(s[i])) < i
              /\ i <= Shop!Cardinality(Shop!NotBelow(s[i]))
<1> DEFINE M == Shop!Matches(visit.bands)
           n == Shop!Cardinality(M)
           Pre(k) == {s[j] : j \in 1..k}
<1>1. /\ s \in [1..n -> M] /\ n \in Nat /\ IsFiniteSet(M) /\ M \in SUBSET Titles
      /\ \A i, j \in 1..n : i # j => s[i] # s[j]
      /\ \A i, j \in 1..n : i < j => shelf[s[i]].rank >= shelf[s[j]].rank
  BY ShelfFacts, ShelfCounts DEF Shop!Orders
<1>2. \A t : /\ Shop!Above(t) = {u \in M : shelf[u].rank > shelf[t].rank}
             /\ Shop!NotBelow(t) = {u \in M : shelf[u].rank >= shelf[t].rank}
  BY DEF Shop!Above, Shop!NotBelow
<1>3. Cardinality(M) = n
  BY ShopCount
<1>4. \A t \in M : shelf[t].rank \in Nat
  BY <1>1, ShelfFacts
<1> HIDE DEF M, n
<1>5. \A t \in M : \E i \in 1..n : s[i] = t
  <2>1. s \in Injection(1..n, M)
    BY <1>1 DEF Injection, IsInjective
  <2>2. Cardinality(1..n) = n
    BY <1>1, FS_Interval
  <2>3. s \in Surjection(1..n, M)
    BY <1>1, <1>3, <2>1, <2>2, FS_Injection
  <2> QED BY <2>3 DEF Surjection
<1>6. ASSUME NEW k \in 0..n
      PROVE  Pre(k) \in SUBSET M /\ IsFiniteSet(Pre(k)) /\ Cardinality(Pre(k)) = k
  <2> DEFINE P == Pre(k)
             g == [j \in 1..k |-> s[j]]
  <2>1. k \in Nat /\ \A j \in 1..k : j \in 1..n
    BY <1>1
  <2>2. P \in SUBSET M /\ \A u \in P : \E j \in 1..k : s[j] = u
    BY <1>1, <2>1
  <2>3. \A j \in 1..k : s[j] \in P
    OBVIOUS
  <2> HIDE DEF P
  <2>4. g \in [1..k -> P]
    BY <2>3
  <2>5. g \in Injection(1..k, P) /\ g \in Surjection(1..k, P)
    BY <1>1, <2>1, <2>2, <2>4 DEF Injection, IsInjective, Surjection
  <2>6. ExistsBijection(1..k, P)
    BY <2>5 DEF ExistsBijection, Bijection
  <2>7. IsFiniteSet(1..k) /\ Cardinality(1..k) = k
    BY <2>1, FS_Interval
  <2> QED BY <2>2, <2>6, <2>7, FS_Bijection DEF P
<1>7. ASSUME NEW i \in 1..n
      PROVE  /\ Shop!Cardinality(Shop!Above(s[i])) \in Nat
             /\ Shop!Cardinality(Shop!NotBelow(s[i])) \in Nat
             /\ Shop!Cardinality(Shop!Above(s[i])) < i
             /\ i <= Shop!Cardinality(Shop!NotBelow(s[i]))
  <2> DEFINE A == Shop!Above(s[i])
             B == Shop!NotBelow(s[i])
             P == Pre(i - 1)
             Q == Pre(i)
  <2>1. i \in Nat /\ i - 1 \in 0..n /\ i \in 0..n
    BY <1>1
  <2>2. /\ IsFiniteSet(P) /\ Cardinality(P) = i - 1
        /\ IsFiniteSet(Q) /\ Cardinality(Q) = i
    BY <1>6, <2>1
  <2>3. ASSUME NEW u \in A PROVE u \in P
    <3>1. PICK j \in 1..n : s[j] = u
      BY <1>2, <1>5
    <3>2. shelf[s[j]].rank > shelf[s[i]].rank
      BY <1>2, <3>1
    <3>3. shelf[s[j]].rank \in Nat /\ shelf[s[i]].rank \in Nat
      BY <1>1, <1>4
    <3>4. ~(i < j) /\ j # i
      BY <1>1, <3>2, <3>3
    <3>5. j \in 1..(i - 1)
      BY <1>1, <3>4
    <3> QED BY <3>1, <3>5
  <2>4. ASSUME NEW u \in Q PROVE u \in B
    <3>1. PICK j \in 1..i : s[j] = u
      OBVIOUS
    <3>2. j \in 1..n /\ (j < i \/ j = i)
      BY <1>1
    <3>3. s[j] \in M /\ shelf[s[j]].rank \in Nat /\ shelf[s[i]].rank \in Nat
      BY <1>1, <1>4, <3>2
    <3>4. shelf[s[j]].rank >= shelf[s[i]].rank
      BY <1>1, <3>2, <3>3
    <3> QED BY <1>2, <3>1, <3>3, <3>4
  <2>5. A \in SUBSET P /\ Q \in SUBSET B /\ B \in SUBSET M
    BY <1>2, <2>3, <2>4
  <2> HIDE DEF A, B, P, Q
  <2>6. IsFiniteSet(B)
    BY <1>1, <2>5, FS_Subset
  <2>7. /\ Cardinality(A) \in Nat /\ Cardinality(A) <= i - 1
        /\ Cardinality(B) \in Nat /\ i <= Cardinality(B)
    BY <2>2, <2>5, <2>6, FS_Subset, FS_CardinalityType
  <2> QED BY <2>1, <2>7, ShopCount DEF A, B
<1> QED BY <1>1, <1>5, <1>7 DEF M, n

(* So a page holds what it must, and nothing it cannot, in every order.    *)
LEMMA RowsArePage ==
  ASSUME Shop!TypeOK, NEW s \in Shop!Orders(Shop!Matches(visit.bands)),
         NEW p \in Nat \ {0}
  PROVE  LET rows == {s[i] : i \in {k \in DOMAIN s : /\ k > (p - 1) * PageSize
                                                     /\ k <= p * PageSize}} IN
         Shop!Sure(p) \subseteq rows /\ rows \subseteq Shop!Possible(p)
<1> DEFINE M == Shop!Matches(visit.bands)
           n == Shop!Cardinality(M)
           a == (p - 1) * PageSize
           b == p * PageSize
           Over(t) == Shop!Cardinality(Shop!Above(t))
           Within(t) == Shop!Cardinality(Shop!NotBelow(t))
           rows == {s[i] : i \in {k \in DOMAIN s : k > a /\ k <= b}}
<1>1. /\ s \in [1..n -> M] /\ n \in Nat
      /\ \A t \in M : \E i \in 1..n : s[i] = t
      /\ \A i \in 1..n : /\ Over(s[i]) \in Nat /\ Within(s[i]) \in Nat
                         /\ Over(s[i]) < i /\ i <= Within(s[i])
  BY PlaceInOrder
<1>2. a \in Nat /\ b \in Nat
  BY MoreIsMore
<1>3. /\ Shop!Sure(p) = {t \in M : a <= Over(t) /\ Within(t) <= b}
      /\ Shop!Possible(p) = {t \in M : a < Within(t) /\ Over(t) < b}
  BY DEF Shop!Sure, Shop!Possible
<1> HIDE DEF M, n, a, b, Over, Within
<1>4. DOMAIN s = 1..n
  BY <1>1
<1>5. ASSUME NEW i \in 1..n, i > a, i <= b PROVE s[i] \in Shop!Possible(p)
  BY <1>1, <1>2, <1>3, <1>5
<1>6. ASSUME NEW t \in Shop!Sure(p) PROVE \E i \in 1..n : i > a /\ i <= b /\ s[i] = t
  <2>1. PICK i \in 1..n : s[i] = t
    BY <1>1, <1>3
  <2>2. i > a /\ i <= b
    BY <1>1, <1>2, <1>3, <2>1
  <2> QED BY <2>1, <2>2
<1>7. Shop!Sure(p) \subseteq rows /\ rows \subseteq Shop!Possible(p)
  BY <1>4, <1>5, <1>6
<1> QED BY <1>7 DEF a, b

LEMMA BandsAreExact ==
  ASSUME NEW w \in Nat, NEW b \in Shop!Bands, w # 0 \/ b # "13+"
  PROVE  Shop!InBand(w, b) <=> Shop!BandOf(w) = b
<1>1. /\ Shop!Bands = {"1-4", "5-8", "9-12", "13+"}
      /\ Shop!InBand(w, "1-4") <=> w \in 1..4
      /\ Shop!InBand(w, "5-8") <=> w \in 5..8
      /\ Shop!InBand(w, "9-12") <=> w \in 9..12
      /\ Shop!InBand(w, "13+") <=> w >= 13
  BY DEF Shop!Bands, Shop!InBand
<1>2. CASE w # 0
  <2>1. \E d \in Shop!Bands : Shop!InBand(w, d)
    BY <1>1, <1>2
  <2>2. \A d, e \in Shop!Bands : Shop!InBand(w, d) /\ Shop!InBand(w, e) => d = e
    BY <1>1
  <2>3. Shop!BandOf(w) = CHOOSE d \in Shop!Bands : Shop!InBand(w, d)
    BY <2>1 DEF Shop!BandOf
  <2>4. Shop!BandOf(w) \in Shop!Bands /\ Shop!InBand(w, Shop!BandOf(w))
    BY <2>1, <2>3
  <2> QED BY <2>2, <2>4
<1>3. CASE w = 0
  <2>1. \A d \in Shop!Bands : ~Shop!InBand(w, d)
    BY <1>1, <1>3
  <2>2. Shop!BandOf(w) = "13+"
    BY <2>1 DEF Shop!BandOf
  <2> QED BY <1>3, <2>1, <2>2
<1> QED BY <1>2, <1>3

(* Answers that are true make pages that show every match whose ties no    *)
(* page's end separates, on its own page ...                               *)
LEMMA PagesAreWhole ==
  ASSUME Shop!TypeOK, Shop!AnswersAreTrue
  PROVE  Shop!PagesPartition
<1> DEFINE M == Shop!Matches(visit.bands)
           Over(t) == Shop!Cardinality(Shop!Above(t))
           Within(t) == Shop!Cardinality(Shop!NotBelow(t))
<1> SUFFICES ASSUME Shop!At("shown"), still
             PROVE  /\ \A q \in 1..visit.page : visit.pages[q] \subseteq M
                    /\ \A p \in 1..Shop!Cardinality(Titles) : \A t \in Shop!Sure(p) :
                         /\ \A q \in 1..visit.page : t \in visit.pages[q] => q = p
                         /\ ~Shop!HasMore => p <= visit.page /\ t \in visit.pages[p]
  BY DEF Shop!PagesPartition
<1>1. /\ visit.page \in Nat \ {0}
      /\ \A p \in 1..visit.page : /\ Shop!Sure(p) \subseteq visit.pages[p]
                                 /\ visit.pages[p] \subseteq Shop!Possible(p)
  BY ShelfCounts, ShelfFacts DEF Shop!AnswersAreTrue, Shop!Turned, Shop!At
<1>2. ASSUME NEW t \in M
      PROVE  /\ Over(t) \in Nat /\ Within(t) \in Nat /\ Shop!Cardinality(M) \in Nat
             /\ Over(t) < Within(t) /\ Within(t) <= Shop!Cardinality(M)
  <2> DEFINE A == Shop!Above(t)
             B == Shop!NotBelow(t)
  <2>1. shelf[t].rank \in Nat /\ \A u \in M : shelf[u].rank \in Nat
    BY ShelfFacts
  <2>2. M \in SUBSET Titles /\ A \in SUBSET B /\ B \in SUBSET M /\ t \in B /\ t \notin A
    BY <2>1, ShelfFacts DEF Shop!Above, Shop!NotBelow
  <2> HIDE DEF A, B, M
  <2>3. IsFiniteSet(M) /\ IsFiniteSet(B)
    BY <2>2, ShelfCounts, FS_Subset
  <2>4. /\ Cardinality(A) <= Cardinality(B) /\ (Cardinality(B) = Cardinality(A) => B = A)
        /\ Cardinality(B) <= Cardinality(M)
    BY <2>2, <2>3, FS_Subset
  <2>5. A # B
    BY <2>2
  <2>6. Cardinality(A) \in Nat /\ Cardinality(B) \in Nat /\ Cardinality(M) \in Nat
    BY <2>2, <2>3, FS_Subset, FS_CardinalityType
  <2> QED BY <2>4, <2>5, <2>6, ShopCount DEF A, B
<1>3. /\ \A p : Shop!Sure(p) = {t \in M : (p - 1) * PageSize <= Over(t)
                                         /\ Within(t) <= p * PageSize}
      /\ \A p : Shop!Possible(p) = {t \in M : (p - 1) * PageSize < Within(t)
                                             /\ Over(t) < p * PageSize}
  BY DEF Shop!Sure, Shop!Possible
<1> HIDE DEF M, Over, Within
<1>4. \A q \in 1..visit.page : visit.pages[q] \subseteq M
  BY <1>1, <1>3
<1>5. ASSUME NEW p \in 1..Shop!Cardinality(Titles), NEW t \in Shop!Sure(p)
      PROVE  /\ \A q \in 1..visit.page : t \in visit.pages[q] => q = p
             /\ ~Shop!HasMore => p <= visit.page /\ t \in visit.pages[p]
  <2>1. p \in Nat \ {0} /\ p - 1 \in Nat
    BY ShelfCounts
  <2>2. p * PageSize \in Nat /\ (p - 1) * PageSize \in Nat
    BY <2>1, MoreIsMore
  <2>3. /\ t \in M /\ Over(t) \in Nat /\ Within(t) \in Nat /\ Over(t) < Within(t)
        /\ (p - 1) * PageSize <= Over(t) /\ Within(t) <= p * PageSize
    BY <1>2, <1>3
  <2>4. ASSUME NEW q \in 1..visit.page, t \in visit.pages[q] PROVE q = p
    <3>1. q \in Nat \ {0} /\ q - 1 \in Nat
      BY <1>1
    <3>2. q * PageSize \in Nat /\ (q - 1) * PageSize \in Nat
      BY <3>1, MoreIsMore
    <3>3. (q - 1) * PageSize < Within(t) /\ Over(t) < q * PageSize
      BY <1>1, <1>3, <2>4
    <3>4. ~(p <= q - 1)
      <4>1. p <= q - 1 => p * PageSize <= (q - 1) * PageSize
        BY <2>1, <3>1, MoreIsMore
      <4> QED BY <2>2, <2>3, <3>2, <3>3, <4>1
    <3>5. ~(q <= p - 1)
      <4>1. q <= p - 1 => q * PageSize <= (p - 1) * PageSize
        BY <2>1, <3>1, MoreIsMore
      <4> QED BY <2>2, <2>3, <3>2, <3>3, <4>1
    <3> QED BY <2>1, <3>1, <3>4, <3>5
  <2>5. ASSUME ~Shop!HasMore PROVE p <= visit.page /\ t \in visit.pages[p]
    <3>1. visit.total = Shop!Cardinality(M)
      BY DEF Shop!AnswersAreTrue, M
    <3>2. ~(visit.page * PageSize < visit.total)
      BY <2>5 DEF Shop!HasMore
    <3>3. visit.page * PageSize \in Nat
      BY <1>1, MoreIsMore
    <3>4. Over(t) < visit.page * PageSize
      BY <1>2, <2>3, <3>1, <3>2, <3>3
    <3>5. ~(visit.page <= p - 1)
      <4>1. visit.page <= p - 1 => visit.page * PageSize <= (p - 1) * PageSize
        BY <1>1, <2>1, MoreIsMore
      <4> QED BY <2>2, <2>3, <3>3, <3>4, <4>1
    <3>6. p <= visit.page /\ p \in 1..visit.page
      BY <1>1, <2>1, <3>5
    <3> QED BY <1>1, <3>6
  <2> QED BY <2>4, <2>5
<1> QED BY <1>4, <1>5

(* ... and counts that lead to as many courses.                            *)
LEMMA CountsLeadThere ==
  ASSUME Shop!TypeOK, Shop!AnswersAreTrue
  PROVE  Shop!FacetsKeepWord
<1> SUFFICES ASSUME Shop!At("shown"), still, visit.offered # Shop!NoCounts, reshelved = 0,
                    NEW b \in Shop!Bands, visit.bands = {b},
                    b = "13+" => \A t \in Titles : shelf[t].weeks # 0
             PROVE  visit.total = visit.offered[b]
  BY DEF Shop!FacetsKeepWord
<1>1. visit.total = Shop!Cardinality(Shop!Matches({b}))
  BY DEF Shop!AnswersAreTrue
<1>2. visit.offered[b] =
        Shop!Cardinality({t \in Shop!Matches({}) : Shop!BandOf(shelf[t].weeks) = b})
  BY DEF Shop!AnswersAreTrue, Shop!Filed
<1>3. \A t \in Titles : Shop!InBand(shelf[t].weeks, b) <=> Shop!BandOf(shelf[t].weeks) = b
  BY BandsAreExact, ShelfFacts
<1>4. Shop!Matches({b}) = {t \in Shop!Matches({}) : Shop!BandOf(shelf[t].weeks) = b}
  BY <1>3 DEF Shop!Matches
<1> QED BY <1>1, <1>2, <1>4

LEMMA ShelfWhole ==
  ASSUME Shop!TypeOK', Shop!AnswersAreTrue'
  PROVE  Shop!CatalogueInv'
<1>1. (Shop!TypeOK /\ Shop!AnswersAreTrue => Shop!PagesPartition /\ Shop!FacetsKeepWord)'
  BY PagesAreWhole, CountsLeadThere, PTL
<1> QED BY <1>1 DEF Shop!CatalogueInv

(* While no course changes, the answers there are stay what they are.      *)
LEMMA ShelfKept ==
  ASSUME UNCHANGED shelf
  PROVE  /\ \A bands : Shop!Matches(bands)' = Shop!Matches(bands)
         /\ \A bands : Shop!Filed(bands)' = Shop!Filed(bands)
         /\ visit'.bands = visit.bands =>
              /\ Shop!Matches(visit.bands)' = Shop!Matches(visit.bands)
              /\ Shop!Filed(visit.bands)' = Shop!Filed(visit.bands)
              /\ \A p : Shop!Sure(p)' = Shop!Sure(p) /\ Shop!Possible(p)' = Shop!Possible(p)
<1>1. \A bands : Shop!Matches(bands)' = Shop!Matches(bands)
  BY DEF Shop!Matches
<1>2. \A bands : Shop!Filed(bands)' = Shop!Filed(bands)
  BY <1>1 DEF Shop!Filed
<1>3. ASSUME visit'.bands = visit.bands
      PROVE  /\ Shop!Matches(visit.bands)' = Shop!Matches(visit.bands)
             /\ Shop!Filed(visit.bands)' = Shop!Filed(visit.bands)
             /\ \A p : Shop!Sure(p)' = Shop!Sure(p) /\ Shop!Possible(p)' = Shop!Possible(p)
  <2>1. Shop!Matches(visit.bands)' = Shop!Matches(visit.bands)
    BY <1>3 DEF Shop!Matches
  <2>2. Shop!Filed(visit.bands)' = Shop!Filed(visit.bands)
    BY <2>1 DEF Shop!Filed
  <2>3. \A t : Shop!Above(t)' = Shop!Above(t) /\ Shop!NotBelow(t)' = Shop!NotBelow(t)
    BY <2>1 DEF Shop!Above, Shop!NotBelow
  <2>4. \A p : Shop!Sure(p)' = Shop!Sure(p) /\ Shop!Possible(p)' = Shop!Possible(p)
    BY <2>1, <2>3 DEF Shop!Sure, Shop!Possible
  <2> QED BY <2>1, <2>2, <2>4
<1> QED BY <1>1, <1>2, <1>3

LEMMA ShopIdle ==
  /\ Shop!Idle \in Shop!Visit /\ Shop!Idle.page = 1 /\ Shop!Idle.total = 0
  /\ Shop!Idle.pc = "idle" /\ Shop!Idle.offered = Shop!NoCounts
  /\ Shop!NoCounts \in [Shop!Bands -> Nat]
<1>1. Shop!NoCounts \in [Shop!Bands -> Nat]
      /\ Shop!NoPages \in [1..Shop!Cardinality(Titles) -> SUBSET Titles]
  BY DEF Shop!NoCounts, Shop!NoPages
<1> QED BY <1>1 DEF Shop!Idle, Shop!Visit

LEMMA ShelfInit == Shop!Init => Shop!CatalogueInv
<1> SUFFICES ASSUME Shop!Init PROVE Shop!CatalogueInv
  OBVIOUS
<1>1. /\ shelf \in [Titles -> [published : {TRUE}, weeks : Weeks,
                               rank : 1..Shop!Cardinality(Titles)]]
      /\ visit = Shop!Idle /\ still = TRUE /\ reshelved = 0
  BY DEF Shop!Init
<1>2. Shop!TypeOK
  <2>1. shelf \in [Titles -> Shop!Course]
    BY <1>1 DEF Shop!Course
  <2> QED BY <1>1, <2>1, ShopIdle, ShelfCounts DEF Shop!TypeOK
<1>3. Shop!AnswersAreTrue
  BY <1>1, ShopIdle DEF Shop!AnswersAreTrue, Shop!Turned, Shop!At
<1> QED BY <1>2, <1>3, PagesAreWhole, CountsLeadThere DEF Shop!CatalogueInv

LEMMA ShelfSearch ==
  ASSUME Shop!CatalogueInv, NEW bands \in Asked, Shop!Search(bands)
  PROVE  Shop!CatalogueInv'
<1> DEFINE o == IF Shop!At("shown") /\ visit.bands = {} /\ still
                  THEN visit.facets ELSE Shop!NoCounts
<1>1. Shop!TypeOK /\ Shop!AnswersAreTrue
  BY DEF Shop!CatalogueInv
<1>2. /\ visit' = [Shop!Idle EXCEPT !.pc = "facets", !.bands = bands, !.offered = o]
      /\ still' = TRUE /\ UNCHANGED <<shelf, reshelved>>
  BY DEF Shop!Search
<1>3. o \in [Shop!Bands -> Nat]
  BY <1>1, ShelfFacts, ShopIdle DEF Shop!Visit
<1>4. o # Shop!NoCounts => o = Shop!Filed({})
  BY <1>1 DEF Shop!AnswersAreTrue, Shop!At
<1> HIDE DEF o
<1>5. /\ visit' \in Shop!Visit /\ visit'.pc = "facets" /\ visit'.page = 1 /\ visit'.total = 0
      /\ visit'.offered = o
  BY <1>2, <1>3, ShopIdle DEF Shop!Visit
<1>6. Shop!TypeOK'
  BY <1>1, <1>2, <1>5, ShelfCounts DEF Shop!TypeOK
<1>7. Shop!AnswersAreTrue'
  BY <1>2, <1>4, <1>5, ShelfKept DEF Shop!AnswersAreTrue, Shop!Turned, Shop!At
<1> QED BY <1>6, <1>7, ShelfWhole

LEMMA ShelfTurns ==
  ASSUME Shop!CatalogueInv, Shop!TurnPage
  PROVE  Shop!CatalogueInv'
<1>1. Shop!TypeOK /\ Shop!AnswersAreTrue
  BY DEF Shop!CatalogueInv
<1>2. /\ visit.pc = "shown" /\ visit.page * PageSize < visit.total
      /\ visit' = [visit EXCEPT !.pc = "facets", !.page = visit.page + 1]
      /\ UNCHANGED <<shelf, still, reshelved>>
  BY DEF Shop!TurnPage, Shop!At, Shop!HasMore
<1>3. visit.page + 1 \in 1..Shop!Cardinality(Titles)
  <2>1. visit.page \in Nat /\ PageSize \in Nat /\ PageSize >= 1
    BY <1>1, ShelfFacts, ShelfCounts
  <2>2. visit.page * PageSize = visit.page + visit.page * (PageSize - 1)
        /\ visit.page * (PageSize - 1) >= 0
    BY <2>1
  <2>3. visit.page <= visit.page * PageSize /\ visit.page * PageSize \in Nat
    BY <2>1, <2>2
  <2>4. visit.total <= Shop!Cardinality(Titles) /\ visit.total \in Nat
    BY <1>1, ShelfFacts, ShelfCounts
  <2> QED BY <1>2, <2>1, <2>3, <2>4, ShelfCounts
<1>4. /\ visit' \in Shop!Visit /\ visit'.pc = "facets" /\ visit'.page = visit.page + 1
      /\ visit'.bands = visit.bands /\ visit'.total = visit.total
      /\ visit'.offered = visit.offered /\ visit'.pages = visit.pages
  <2>1. visit \in Shop!Visit /\ visit.page + 1 \in Nat
    BY <1>1, <1>3, ShelfFacts, ShelfCounts
  <2> QED BY <1>2, <2>1 DEF Shop!Visit
<1>5. Shop!TypeOK'
  BY <1>1, <1>2, <1>3, <1>4 DEF Shop!TypeOK
<1>6. Shop!Turned' = Shop!Turned
  BY <1>1, <1>2, <1>4, ShelfFacts, ShelfCounts DEF Shop!Turned, Shop!At
<1>7. Shop!AnswersAreTrue'
  BY <1>1, <1>2, <1>4, <1>6, ShelfKept DEF Shop!AnswersAreTrue, Shop!At
<1> QED BY <1>5, <1>7, ShelfWhole

LEMMA ShelfFiles ==
  ASSUME Shop!TypeOK
  PROVE  \A bands : Shop!Filed(bands) \in [Shop!Bands -> Nat]
<1>1. ASSUME NEW bands, NEW b \in Shop!Bands
      PROVE  Shop!Cardinality({t \in Shop!Matches(bands) : Shop!BandOf(shelf[t].weeks) = b})
               \in Nat
  BY ShelfFacts, ShelfCounts
<1> QED BY <1>1 DEF Shop!Filed

LEMMA ShelfBands ==
  ASSUME Shop!CatalogueInv, Shop!CountBands
  PROVE  Shop!CatalogueInv'
<1> DEFINE f == Shop!Filed(visit.bands)
<1>1. Shop!TypeOK /\ Shop!AnswersAreTrue
  BY DEF Shop!CatalogueInv
<1>2. /\ visit.pc = "facets" /\ visit' = [visit EXCEPT !.pc = "rows", !.facets = f]
      /\ UNCHANGED <<shelf, still, reshelved>>
  BY DEF Shop!CountBands, Shop!At, Shop!Filed
<1>3. f \in [Shop!Bands -> Nat]
  BY <1>1, ShelfFiles
<1> HIDE DEF f
<1>4. /\ visit' \in Shop!Visit /\ visit'.pc = "rows" /\ visit'.page = visit.page
      /\ visit'.bands = visit.bands /\ visit'.total = visit.total
      /\ visit'.offered = visit.offered /\ visit'.pages = visit.pages /\ visit'.facets = f
  <2>1. visit \in Shop!Visit
    BY <1>1, ShelfFacts
  <2> QED BY <1>2, <1>3, <2>1 DEF Shop!Visit
<1>5. Shop!TypeOK'
  BY <1>1, <1>2, <1>4 DEF Shop!TypeOK
<1>6. Shop!Turned' = Shop!Turned
  BY <1>2, <1>4 DEF Shop!Turned, Shop!At
<1>7. Shop!AnswersAreTrue'
  <2>1. visit'.facets = Shop!Filed(visit.bands)'
    BY <1>2, <1>4, ShelfKept DEF f
  <2> QED BY <1>1, <1>2, <1>4, <1>6, <2>1, ShelfKept DEF Shop!AnswersAreTrue, Shop!At
<1> QED BY <1>5, <1>7, ShelfWhole

LEMMA ShelfRows ==
  ASSUME Shop!CatalogueInv, Shop!ReadRows
  PROVE  Shop!CatalogueInv'
<1> DEFINE M == Shop!Matches(visit.bands)
           p == visit.page
<1>1. Shop!TypeOK /\ Shop!AnswersAreTrue
  BY DEF Shop!CatalogueInv
<1>2. PICK s \in Shop!Orders(M) :
        /\ visit.pc = "rows" /\ UNCHANGED <<shelf, still, reshelved>>
        /\ visit' = [visit EXCEPT !.pc = "total",
             !.rows = {s[i] : i \in {k \in DOMAIN s : k > (p - 1) * PageSize
                                                      /\ k <= p * PageSize}},
             !.pages[p] = {s[i] : i \in {k \in DOMAIN s : k > (p - 1) * PageSize
                                                          /\ k <= p * PageSize}}]
  BY DEF Shop!ReadRows, Shop!At
<1> DEFINE rows == {s[i] : i \in {k \in DOMAIN s : k > (p - 1) * PageSize /\ k <= p * PageSize}}
<1>3. rows \in SUBSET Titles
  <2>1. s \in [1..Shop!Cardinality(M) -> M] /\ M \in SUBSET Titles
    BY <1>1, ShelfFacts DEF Shop!Orders
  <2> QED BY <2>1
<1>4. p \in Nat \ {0} /\ p \in 1..Shop!Cardinality(Titles)
  BY <1>1, ShelfFacts, ShelfCounts
<1>5. Shop!Sure(p) \subseteq rows /\ rows \subseteq Shop!Possible(p)
  BY <1>1, <1>2, <1>4, RowsArePage
<1>6. visit' = [visit EXCEPT !.pc = "total", !.rows = rows, !.pages[p] = rows]
  BY <1>2
<1> HIDE DEF rows, M
<1>7. /\ visit' \in Shop!Visit /\ visit'.pc = "total" /\ visit'.page = visit.page
      /\ visit'.bands = visit.bands /\ visit'.total = visit.total
      /\ visit'.offered = visit.offered /\ visit'.facets = visit.facets
      /\ visit'.pages = [visit.pages EXCEPT ![p] = rows]
  <2>1. visit \in Shop!Visit
    BY <1>1, ShelfFacts
  <2>2. [visit.pages EXCEPT ![p] = rows] \in [1..Shop!Cardinality(Titles) -> SUBSET Titles]
    BY <1>3, <1>4, <2>1 DEF Shop!Visit
  <2> QED BY <1>3, <1>6, <2>1, <2>2 DEF Shop!Visit
<1>8. Shop!TypeOK'
  BY <1>1, <1>2, <1>7 DEF Shop!TypeOK
<1>9. ASSUME still', NEW k \in 1..Shop!Turned'
      PROVE  /\ Shop!Sure(k)' \subseteq visit'.pages[k]
             /\ visit'.pages[k] \subseteq Shop!Possible(k)'
  <2>1. Shop!Sure(k)' = Shop!Sure(k) /\ Shop!Possible(k)' = Shop!Possible(k)
    BY <1>2, <1>7, ShelfKept
  <2>2. Shop!Turned' = p /\ Shop!Turned = p - 1
    BY <1>2, <1>7 DEF Shop!Turned, Shop!At
  <2>3. k \in 1..p /\ p \in DOMAIN visit.pages /\ k \in DOMAIN visit.pages
    <3>1. visit.pages \in [1..Shop!Cardinality(Titles) -> SUBSET Titles]
      BY <1>1, ShelfFacts DEF Shop!Visit
    <3> QED BY <1>4, <2>2, <3>1, ShelfCounts
  <2>4. CASE k = p
    BY <1>5, <1>7, <2>1, <2>3, <2>4
  <2>5. CASE k # p
    <3>1. k \in 1..(p - 1)
      BY <1>4, <2>3, <2>5
    <3>2. Shop!Sure(k) \subseteq visit.pages[k] /\ visit.pages[k] \subseteq Shop!Possible(k)
      BY <1>1, <1>2, <1>9, <2>2, <3>1 DEF Shop!AnswersAreTrue
    <3> QED BY <1>7, <2>1, <2>3, <2>5, <3>2
  <2> QED BY <2>4, <2>5
<1>10. Shop!AnswersAreTrue'
  BY <1>1, <1>2, <1>7, <1>9, ShelfKept DEF Shop!AnswersAreTrue, Shop!At
<1> QED BY <1>8, <1>10, ShelfWhole

LEMMA ShelfTotals ==
  ASSUME Shop!CatalogueInv, Shop!CountTotal
  PROVE  Shop!CatalogueInv'
<1> DEFINE n == Shop!Cardinality(Shop!Matches(visit.bands))
<1>1. Shop!TypeOK /\ Shop!AnswersAreTrue
  BY DEF Shop!CatalogueInv
<1>2. /\ visit.pc = "total" /\ visit' = [visit EXCEPT !.pc = "shown", !.total = n]
      /\ UNCHANGED <<shelf, still, reshelved>>
  BY DEF Shop!CountTotal, Shop!At
<1>3. n \in Nat /\ n \in 0..Shop!Cardinality(Titles)
  BY <1>1, ShelfFacts, ShelfCounts
<1> HIDE DEF n
<1>4. /\ visit' \in Shop!Visit /\ visit'.pc = "shown" /\ visit'.page = visit.page
      /\ visit'.bands = visit.bands /\ visit'.total = n
      /\ visit'.offered = visit.offered /\ visit'.pages = visit.pages
      /\ visit'.facets = visit.facets
  <2>1. visit \in Shop!Visit
    BY <1>1, ShelfFacts
  <2> QED BY <1>2, <1>3, <2>1 DEF Shop!Visit
<1>5. Shop!TypeOK'
  BY <1>1, <1>2, <1>3, <1>4 DEF Shop!TypeOK
<1>6. Shop!Turned' = Shop!Turned
  BY <1>2, <1>4 DEF Shop!Turned, Shop!At
<1>7. Shop!AnswersAreTrue'
  <2>1. visit'.total = Shop!Cardinality(Shop!Matches(visit.bands)')
    BY <1>2, <1>4, ShelfKept DEF n
  <2> QED BY <1>1, <1>2, <1>4, <1>6, <2>1, ShelfKept DEF Shop!AnswersAreTrue, Shop!At
<1> QED BY <1>5, <1>7, ShelfWhole

LEMMA ShelfEdits ==
  ASSUME Shop!CatalogueInv, NEW t \in Titles, NEW c \in Shop!Course, Shop!EditCourse(t, c)
  PROVE  Shop!CatalogueInv'
<1>1. Shop!TypeOK
  BY DEF Shop!CatalogueInv
<1>2. /\ reshelved < MaxReshelvings /\ reshelved' = reshelved + 1 /\ still' = FALSE
      /\ shelf' = [shelf EXCEPT ![t] = c] /\ UNCHANGED visit
  BY DEF Shop!EditCourse
<1>3. shelf' \in [Titles -> Shop!Course]
  BY <1>1, <1>2, ShelfFacts
<1>4. reshelved' \in 0..MaxReshelvings /\ reshelved' # 0
  BY <1>1, <1>2, ShelfFacts
<1>5. Shop!TypeOK'
  BY <1>1, <1>2, <1>3, <1>4 DEF Shop!TypeOK
<1>6. Shop!AnswersAreTrue'
  BY <1>2, <1>4 DEF Shop!AnswersAreTrue
<1> QED BY <1>5, <1>6, ShelfWhole

LEMMA ShelfStep ==
  ASSUME Shop!CatalogueInv, Shop!Next
  PROVE  Shop!CatalogueInv'
BY ShelfSearch, ShelfTurns, ShelfBands, ShelfRows, ShelfTotals, ShelfEdits
   DEF Shop!Next, Shop!CatalogueRequest

LEMMA ShelfFrame ==
  ASSUME Shop!CatalogueInv, UNCHANGED shelfVars
  PROVE  Shop!CatalogueInv'
<1>1. UNCHANGED <<shelf, visit, still, reshelved>>
  BY DEF shelfVars
<1>2. Shop!TypeOK /\ Shop!AnswersAreTrue
  BY DEF Shop!CatalogueInv
<1>3. Shop!TypeOK'
  BY <1>1, <1>2 DEF Shop!TypeOK
<1>4. Shop!Turned' = Shop!Turned
  BY <1>1 DEF Shop!Turned, Shop!At
<1>5. Shop!AnswersAreTrue'
  BY <1>1, <1>2, <1>4, ShelfKept DEF Shop!AnswersAreTrue, Shop!At
<1> QED BY <1>3, <1>5, ShelfWhole

(* For any number of courses, in whatever order the database returns those *)
(* with equal keys, while nobody edits: the pages show matches only, and a *)
(* match none of whose ties are beyond a page's end is on exactly one page *)
(* (ties that a page's end separates may be shown twice or not at all); a  *)
(* band leads to as many courses as its count said, the last band only if  *)
(* every course has a duration (catalogue/service.ts, courses/page.tsx).   *)
THEOREM PagesAndCountsHold == Spec => []CatalogueInv
<1>1. Init => Shop!CatalogueInv
  BY ShelfInit DEF Init
<1>2. Shop!CatalogueInv /\ [Next]_vars => Shop!CatalogueInv'
  BY ShelfStep, ShelfFrame DEF Next, Only, vars
<1>3. Spec => []Shop!CatalogueInv
  BY <1>1, <1>2, PTL DEF Spec
<1> QED BY <1>3, PTL DEF CatalogueInv
=============================================================================
