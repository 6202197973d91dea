----------------------------- MODULE Authoring -----------------------------
(***************************************************************************)
(* The course builder (apps/api/src/modules/builder): creating, editing    *)
(* and publishing a course, its modules and its lessons, and announcing a  *)
(* new lesson to the learners.  All courses have one title, so that their  *)
(* slugs differ by the number uniqueSlug appends.  Calls are made by the   *)
(* owner; statements are awaited one by one.                               *)
(***************************************************************************)
EXTENDS Naturals, FiniteSets, FiniteSetsExt

CONSTANTS
  Drafts,     \* rows of courses
  Chapters,   \* rows of modules
  Pages,      \* rows of lessons
  Authors,    \* calls that may be in flight at once
  NoDraft, NoChapter, NoPage,
  MaxChanges, \* bound: calls made
  MaxBreaks   \* bound: crashes

VARIABLES
  drafts,     \* courses
  chapters,   \* modules
  pages,      \* lessons
  authored,   \* the calls in flight
  announced,  \* lessons the learners were told of
  refused,    \* history: lessons whose author said "not published"
  discarded,  \* history: lessons deleted by their author
  clashed,    \* history: did an insert fail for a taken slug or position, a lost module?
  rivals,     \* history: have two calls ever been in flight at once?
  changes,    \* calls so far
  breaks      \* crashes so far

history == <<refused, discarded, clashed, rivals, changes, breaks>>
vars == <<drafts, chapters, pages, authored, announced, history>>

Draft == [status : {"none", "draft", "published"}, slug : Nat]
Chapter == [status : {"none", "row", "deleted"}, draft : Drafts \union {NoDraft},
            position : Nat]
Page == [status : {"none", "row", "deleted"}, draft : Drafts \union {NoDraft},
         chapter : Chapters \union {NoChapter}, position : Nat, published : BOOLEAN,
         edited : BOOLEAN]
Told == {"yes", "no", "unsaid"}   \* payload.published
Step == {"idle", "slug", "course", "patchcourse", "maxmodule", "module", "maxlesson", "lesson",
         "announce", "patch", "deletemodule", "unassign", "deletelesson"}
Authored == [pc : Step, draft : Drafts \union {NoDraft}, live : BOOLEAN, n : Nat,
             chapter : Chapters \union {NoChapter}, page : Pages \union {NoPage}, told : Told]
Idle == [pc |-> "idle", draft |-> NoDraft, live |-> FALSE, n |-> 0, chapter |-> NoChapter,
         page |-> NoPage, told |-> "unsaid"]

(* Courses, modules, lessons and calls have their types. *)
TypeOK ==
  /\ drafts \in [Drafts -> Draft] /\ chapters \in [Chapters -> Chapter]
  /\ pages \in [Pages -> Page] /\ authored \in [Authors -> Authored]
  /\ announced \in SUBSET Pages /\ refused \in SUBSET Pages /\ discarded \in SUBSET Pages
  /\ clashed \in BOOLEAN /\ rivals \in BOOLEAN
  /\ changes \in 0..MaxChanges /\ breaks \in 0..MaxBreaks

Init ==
  /\ drafts = [d \in Drafts |-> [status |-> "none", slug |-> 0]]
  /\ chapters = [m \in Chapters |-> [status |-> "none", draft |-> NoDraft, position |-> 0]]
  /\ pages = [l \in Pages |-> [status |-> "none", draft |-> NoDraft, chapter |-> NoChapter,
                               position |-> 0, published |-> FALSE, edited |-> FALSE]]
  /\ authored = [a \in Authors |-> Idle]
  /\ announced = {} /\ refused = {} /\ discarded = {} /\ clashed = FALSE /\ rivals = FALSE
  /\ changes = 0 /\ breaks = 0

-----------------------------------------------------------------------------
(* Helpers *)

At(a, step) == authored[a].pc = step
Goto(a, step) == authored' = [authored EXCEPT ![a].pc = step]
Return(a) == authored' = [authored EXCEPT ![a] = Idle]
Begin(a, c) ==
  /\ At(a, "idle") /\ changes < MaxChanges
  /\ changes' = changes + 1
  /\ authored' = [authored EXCEPT ![a] = c]
  /\ rivals' = (rivals \/ \E b \in Authors \ {a} : ~At(b, "idle"))
  /\ UNCHANGED <<drafts, chapters, pages, announced, refused, discarded, clashed, breaks>>
There(d) == d \in Drafts /\ drafts[d].status # "none"
Rows(table) == {r \in DOMAIN table : table[r].status = "row"}
PositionsIn(table, d) == {table[r].position : r \in {q \in Rows(table) : table[q].draft = d}}
NextPosition(taken) == 1 + Max({0} \union taken)

-----------------------------------------------------------------------------
(* createCourse *)

CreateCourse(a) == Begin(a, [Idle EXCEPT !.pc = "slug", !.n = 1])

(* uniqueSlug: one read for each candidate, until one is free. *)
LookForSlug(a) ==
  /\ At(a, "slug")
  /\ IF \E d \in Drafts : There(d) /\ drafts[d].slug = authored[a].n
       THEN authored' = [authored EXCEPT ![a].n = @ + 1]
       ELSE Goto(a, "course")
  /\ UNCHANGED <<drafts, chapters, pages, announced, history>>

(* The insert fails for a slug taken meanwhile. *)
InsertCourse(a, d) ==
  /\ At(a, "course") /\ ~There(d)
  /\ IF \E e \in Drafts : There(e) /\ drafts[e].slug = authored[a].n
       THEN clashed' = TRUE /\ UNCHANGED drafts
       ELSE /\ drafts' = [drafts EXCEPT ![d] = [status |-> "draft", slug |-> authored[a].n]]
            /\ UNCHANGED clashed
  /\ Return(a)
  /\ UNCHANGED <<chapters, pages, announced, refused, discarded, rivals, changes, breaks>>

(* publishCourse (updateCourse leaves what is modelled alone).             *)
PublishCourse(a, d) ==
  /\ There(d)
  /\ Begin(a, [Idle EXCEPT !.pc = "patchcourse", !.draft = d])

WriteCourse(a) ==
  /\ At(a, "patchcourse")
  /\ drafts' = [drafts EXCEPT ![authored[a].draft].status = "published"]
  /\ Return(a)
  /\ UNCHANGED <<chapters, pages, announced, history>>

-----------------------------------------------------------------------------
(* addModule, deleteModule (updateModule leaves what is modelled alone)    *)

AddModule(a, d) ==
  /\ There(d)
  /\ Begin(a, [Idle EXCEPT !.pc = "maxmodule", !.draft = d])

NextModulePosition(a) ==
  /\ At(a, "maxmodule")
  /\ authored' = [authored EXCEPT ![a].pc = "module",
                    ![a].n = NextPosition(PositionsIn(chapters, authored[a].draft))]
  /\ UNCHANGED <<drafts, chapters, pages, announced, history>>

(* The insert fails for a position taken meanwhile. *)
InsertModule(a, m) ==
  LET c == authored[a] IN
  /\ At(a, "module") /\ chapters[m].status = "none"
  /\ IF c.n \in PositionsIn(chapters, c.draft)
       THEN clashed' = TRUE /\ UNCHANGED chapters
       ELSE /\ chapters' = [chapters EXCEPT ![m] = [status |-> "row", draft |-> c.draft,
                                                    position |-> c.n]]
            /\ UNCHANGED clashed
  /\ Return(a)
  /\ UNCHANGED <<drafts, pages, announced, refused, discarded, rivals, changes, breaks>>

DeleteModule(a, m) ==
  /\ chapters[m].status = "row"
  /\ Begin(a, [Idle EXCEPT !.pc = "deletemodule", !.chapter = m])

(* The foreign key of lessons.module_id cascades: the module takes its     *)
(* lessons along.                                                          *)
DeleteModuleRow(a) ==
  LET m == authored[a].chapter IN
  /\ At(a, "deletemodule")
  /\ chapters' = [chapters EXCEPT ![m].status = "deleted"]
  /\ pages' = [l \in Pages |-> IF pages[l].status = "row" /\ pages[l].chapter = m
                                 THEN [pages[l] EXCEPT !.status = "deleted"] ELSE pages[l]]
  /\ Goto(a, "unassign")
  /\ UNCHANGED <<drafts, announced, history>>

(* Whatever lessons are left lose their module. *)
UnassignLessons(a) ==
  LET m == authored[a].chapter IN
  /\ At(a, "unassign")
  /\ pages' = [l \in Pages |-> IF pages[l].status = "row" /\ pages[l].chapter = m
                                 THEN [pages[l] EXCEPT !.chapter = NoChapter] ELSE pages[l]]
  /\ Return(a)
  /\ UNCHANGED <<drafts, chapters, announced, history>>

-----------------------------------------------------------------------------
(* addLesson *)

(* In a module of the author's (of any of their courses) or in none.       *)
AddLesson(a, d, m, told) ==
  /\ There(d) /\ (m # NoChapter => chapters[m].status = "row")
  /\ Begin(a, [Idle EXCEPT !.pc = "maxlesson", !.draft = d, !.chapter = m, !.told = told,
                 !.live = drafts[d].status = "published"])

NextLessonPosition(a) ==
  /\ At(a, "maxlesson")
  /\ authored' = [authored EXCEPT ![a].pc = "lesson",
                    ![a].n = NextPosition(PositionsIn(pages, authored[a].draft))]
  /\ UNCHANGED <<drafts, chapters, pages, announced, history>>

Mutant_InsertLesson_Tells(a, l) ==
  LET c == authored[a] IN
  /\ At(a, "lesson") /\ pages[l].status = "none"
  /\ IF \/ c.n \in PositionsIn(pages, c.draft)
        \/ c.chapter # NoChapter /\ chapters[c.chapter].status # "row"
       THEN clashed' = TRUE /\ UNCHANGED <<pages, refused>> /\ Return(a)
       ELSE /\ UNCHANGED clashed
            /\ pages' = [pages EXCEPT ![l] = [status |-> "row", draft |-> c.draft,
                           chapter |-> c.chapter, position |-> c.n,
                           published |-> c.told = "yes", edited |-> FALSE]]
            /\ refused' = IF c.told = "no" THEN refused \union {l} ELSE refused
            /\ IF c.live
                 THEN authored' = [authored EXCEPT ![a].pc = "announce", ![a].page = l]
                 ELSE Return(a)
  /\ UNCHANGED <<drafts, chapters, announced, discarded, rivals, changes, breaks>>

(* The insert fails for a position taken or a module deleted meanwhile. A  *)
(* lesson is published when the payload says so, and announced, in a       *)
(* course that was published when the call began, unless it says not.      *)
InsertLesson(a, l) ==
  LET c == authored[a] IN
  /\ At(a, "lesson") /\ pages[l].status = "none"
  /\ IF \/ c.n \in PositionsIn(pages, c.draft)
        \/ c.chapter # NoChapter /\ chapters[c.chapter].status # "row"
       THEN clashed' = TRUE /\ UNCHANGED <<pages, refused>> /\ Return(a)
       ELSE /\ UNCHANGED clashed
            /\ pages' = [pages EXCEPT ![l] = [status |-> "row", draft |-> c.draft,
                           chapter |-> c.chapter, position |-> c.n,
                           published |-> c.told = "yes", edited |-> FALSE]]
            /\ refused' = IF c.told = "no" THEN refused \union {l} ELSE refused
            /\ IF c.live /\ c.told # "no"
                 THEN authored' = [authored EXCEPT ![a].pc = "announce", ![a].page = l]
                 ELSE Return(a)
  /\ UNCHANGED <<drafts, chapters, announced, discarded, rivals, changes, breaks>>

(* notifyCourseContentAdded (module Notifications).  *)
AnnounceLesson(a) ==
  /\ At(a, "announce")
  /\ announced' = announced \union {authored[a].page}
  /\ Return(a)
  /\ UNCHANGED <<drafts, chapters, pages, history>>

-----------------------------------------------------------------------------
(* updateLesson: any field, published among them; deleteLesson             *)

UpdateLesson(a, l, told) ==
  /\ pages[l].status = "row"
  /\ Begin(a, [Idle EXCEPT !.pc = "patch", !.page = l, !.told = told])

WriteLesson(a) ==
  LET c == authored[a] IN
  /\ At(a, "patch")
  /\ pages' = IF pages[c.page].status # "row" THEN pages
              ELSE [pages EXCEPT ![c.page].edited = TRUE,
                      ![c.page].published = IF c.told = "unsaid" THEN @ ELSE c.told = "yes"]
  /\ Return(a)
  /\ UNCHANGED <<drafts, chapters, announced, history>>

DeleteLesson(a, l) ==
  /\ pages[l].status = "row"
  /\ Begin(a, [Idle EXCEPT !.pc = "deletelesson", !.page = l])

DeleteLessonRow(a) ==
  LET l == authored[a].page IN
  /\ At(a, "deletelesson")
  /\ pages' = [pages EXCEPT ![l].status = "deleted"]
  /\ discarded' = discarded \union {l}
  /\ Return(a)
  /\ UNCHANGED <<drafts, chapters, announced, refused, clashed, rivals, changes, breaks>>

-----------------------------------------------------------------------------
(* The process dies, or a statement fails: the call ends where it is.      *)
Crash(a) ==
  /\ ~At(a, "idle") /\ breaks < MaxBreaks
  /\ breaks' = breaks + 1
  /\ Return(a)
  /\ UNCHANGED <<drafts, chapters, pages, announced, refused, discarded, clashed, rivals, changes>>

BuilderRequest ==
  \E a \in Authors :
    \/ CreateCourse(a)
    \/ \E d \in Drafts : PublishCourse(a, d) \/ AddModule(a, d)
         \/ \E m \in Chapters \union {NoChapter}, told \in Told : AddLesson(a, d, m, told)
    \/ \E m \in Chapters : DeleteModule(a, m)
    \/ \E l \in Pages : DeleteLesson(a, l) \/ \E told \in Told : UpdateLesson(a, l, told)

AuthorStep(a) ==
  \/ LookForSlug(a) \/ (\E d \in Drafts : InsertCourse(a, d)) \/ WriteCourse(a)
  \/ NextModulePosition(a) \/ (\E m \in Chapters : InsertModule(a, m))
  \/ DeleteModuleRow(a) \/ UnassignLessons(a)
  \/ NextLessonPosition(a) \/ (\E l \in Pages : InsertLesson(a, l)) \/ AnnounceLesson(a)
  \/ WriteLesson(a) \/ DeleteLessonRow(a)

Next == BuilderRequest \/ \E a \in Authors : AuthorStep(a) \/ Crash(a)

Spec == Init /\ [][Next]_vars

-----------------------------------------------------------------------------
(* getBuilderCourse: the lessons shown, by module and unassigned.          *)

ModulesShown(d) == {m \in Rows(chapters) : chapters[m].draft = d}
LessonsShown(d) ==
  {l \in Rows(pages) : pages[l].draft = d
                         /\ pages[l].chapter \in ModulesShown(d) \union {NoChapter}}

-----------------------------------------------------------------------------
(* Properties *)

(* The builder shows every lesson of a course, but for those put into a    *)
(* module of another course.                                               *)
EveryLessonShown ==
  \A l \in Rows(pages) :
    LET m == pages[l].chapter IN
    (m = NoChapter \/ chapters[m].draft = pages[l].draft) => l \in LessonsShown(pages[l].draft)

(* What its author wanted unpublished is not announced; and a call that    *)
(* runs alone never fails, as only others can take the slug or the         *)
(* position it found free, or the module it found there.                   *)
AuthorsDecide == announced \intersect refused = {} /\ (~rivals => ~clashed)

(* What they rest on: a lesson's module is there; one call at a time as    *)
(* long as calls do not overlap; lessons refused or announced were         *)
(* written; and what a call found free, or there, is so until it writes.   *)
Housed == \A l \in Rows(pages) : pages[l].chapter # NoChapter =>
            pages[l].chapter \in Rows(chapters)
Alone == ~rivals => \A a, b \in Authors : ~At(a, "idle") /\ ~At(b, "idle") => a = b
Written == {l \in Pages : pages[l].status # "none"}
AuthorOK(a) ==
  LET c == authored[a] IN
  /\ c.pc \in {"patchcourse", "maxmodule", "module", "maxlesson", "lesson"} => c.draft \in Drafts
  /\ c.pc \in {"deletemodule", "unassign"} => c.chapter \in Chapters
  /\ c.pc \in {"announce", "patch", "deletelesson"} => c.page \in Written
  /\ c.pc = "announce" => c.page \notin refused
  /\ ~rivals =>
       /\ c.pc = "course" => \A d \in Drafts : There(d) => drafts[d].slug # c.n
       /\ c.pc = "module" => c.n \notin PositionsIn(chapters, c.draft)
       /\ c.pc = "lesson" => c.n \notin PositionsIn(pages, c.draft)
       /\ c.pc \in {"maxlesson", "lesson"} /\ c.chapter # NoChapter => c.chapter \in Rows(chapters)

(* Types, every lesson shown, authors' decisions kept: with what they rest *)
(* on, the inductive invariant.                                            *)
AuthoringInv ==
  /\ TypeOK /\ EveryLessonShown /\ AuthorsDecide
  /\ Housed /\ Alone /\ refused \union announced \subseteq Written
  /\ \A a \in Authors : AuthorOK(a)
=============================================================================
