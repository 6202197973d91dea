----------------------------- MODULE Catalogue -----------------------------
(***************************************************************************)
(* The course catalogue (apps/api/src/modules/catalogue/service.ts) and    *)
(* the page that browses it (apps/web/app/courses/page.tsx): a visitor     *)
(* narrows the published courses to bands of duration and turns pages,     *)
(* while authors edit.  An answer is made of separate statements: facet    *)
(* counts, the rows of the page, the total.                                *)
(***************************************************************************)
EXTENDS Naturals, FiniteSets

CONSTANTS
  Titles,     \* courses
  Weeks,      \* durations a course may have
  Asked,    \* bound: the sets of bands the visitor asks for
  PageSize,   \* courses on a page (the web client asks for 9)
  MaxChanges  \* bound: edits by authors

VARIABLES
  shelf,    \* courses: published?, duration, key it is sorted by
  visit,    \* what the visitor asks for and has been shown
  still,    \* have no courses changed since the visitor's first page?
  changes   \* edits so far

vars == <<shelf, visit, still, changes>>

(* DURATION_BANDS; the last one is open. *)
Bands == {"1-4", "5-8", "9-12", "13+"}
InBand(w, b) ==
  CASE b = "1-4"  -> w \in 1..4
    [] b = "5-8"  -> w \in 5..8
    [] b = "9-12" -> w \in 9..12
    [] b = "13+"  -> w >= 13
(* The band the facet query files a duration under: what is left over      *)
(* goes to the last one.                                                   *)
BandOf(w) == IF \E b \in Bands : InBand(w, b) THEN CHOOSE b \in Bands : InBand(w, b) ELSE "13+"

Course == [published : BOOLEAN, weeks : Weeks, rank : 1..Cardinality(Titles)]
Visit  == [pc : {"idle", "facets", "rows", "total", "shown"},
           bands : SUBSET Bands, page : Nat, facets : [Bands -> Nat], offered : [Bands -> Nat],
           rows : SUBSET Titles, total : Nat, pages : [1..Cardinality(Titles) -> SUBSET Titles]]
NoCounts == [b \in Bands |-> 0]
NoPages  == [p \in 1..Cardinality(Titles) |-> {}]
Idle == [pc |-> "idle", bands |-> {}, page |-> 1, facets |-> NoCounts, offered |-> NoCounts,
         rows |-> {}, total |-> 0, pages |-> NoPages]

(* Courses and answers have their types. *)
TypeOK ==
  /\ shelf \in [Titles -> Course]
  /\ visit \in Visit
  /\ visit.page \in 1..Cardinality(Titles) /\ visit.total \in 0..Cardinality(Titles)
  /\ still \in BOOLEAN
  /\ changes \in 0..MaxChanges

(* At first every course is published. *)
Init ==
  /\ shelf \in [Titles -> [published : {TRUE}, weeks : Weeks, rank : 1..Cardinality(Titles)]]
  /\ visit = Idle
  /\ still = TRUE
  /\ changes = 0

-----------------------------------------------------------------------------
(* Helpers *)

At(step) == visit.pc = step

(* Published courses in one of the bands asked for, or in any. *)
Matches(bands) ==
  {t \in Titles : shelf[t].published
                  /\ (bands = {} \/ \E b \in bands : InBand(shelf[t].weeks, b))}

(* ORDER BY fixes the order of courses whose keys differ, and no more. *)
Orders(set) ==
  {s \in [1..Cardinality(set) -> set] :
     /\ \A i, j \in DOMAIN s : i # j => s[i] # s[j]
     /\ \A i, j \in DOMAIN s : i < j => shelf[s[i]].rank >= shelf[s[j]].rank}

HasMore == visit.page * PageSize < visit.total

-----------------------------------------------------------------------------
(* catalogueSearch for the first page under some filter ... *)
Search(bands) ==
  /\ At("idle") \/ At("shown")
  /\ visit' = [Idle EXCEPT !.pc = "facets", !.bands = bands,
                 !.offered = IF At("shown") /\ visit.bands = {} /\ still
                               THEN visit.facets ELSE NoCounts]
  /\ still' = TRUE
  /\ UNCHANGED <<shelf, changes>>

(* ... and for the next page, offered when there is more. *)
TurnPage ==
  /\ At("shown") /\ HasMore
  /\ visit' = [visit EXCEPT !.pc = "facets", !.page = @ + 1]
  /\ UNCHANGED <<shelf, still, changes>>

CountBands ==
  /\ At("facets")
  /\ visit' = [visit EXCEPT !.pc = "rows",
                 !.facets = [b \in Bands |-> Cardinality({t \in Matches(visit.bands) :
                                                            BandOf(shelf[t].weeks) = b})]]
  /\ UNCHANGED <<shelf, still, changes>>

(* LIMIT pageSize OFFSET (page - 1) * pageSize. *)
Mutant_ReadRows_OffsetOne ==
  /\ At("rows")
  /\ \E s \in Orders(Matches(visit.bands)) :
       LET rows == {s[i] : i \in {k \in DOMAIN s : /\ k > visit.page - 1
                                                  /\ k <= visit.page - 1 + PageSize}}
       IN  visit' = [visit EXCEPT !.pc = "total", !.rows = rows, !.pages[visit.page] = rows]
  /\ UNCHANGED <<shelf, still, changes>>

ReadRows ==
  /\ At("rows")
  /\ \E s \in Orders(Matches(visit.bands)) :
       LET rows == {s[i] : i \in {k \in DOMAIN s : k > (visit.page - 1) * PageSize
                                                    /\ k <= visit.page * PageSize}}
       IN  visit' = [visit EXCEPT !.pc = "total", !.rows = rows, !.pages[visit.page] = rows]
  /\ UNCHANGED <<shelf, still, changes>>

CountTotal ==
  /\ At("total")
  /\ visit' = [visit EXCEPT !.pc = "shown", !.total = Cardinality(Matches(visit.bands))]
  /\ UNCHANGED <<shelf, still, changes>>

(* An author publishes, withdraws or edits a course, at any time. *)
EditCourse(t, course) ==
  /\ changes < MaxChanges /\ course # shelf[t]
  /\ shelf' = [shelf EXCEPT ![t] = course]
  /\ changes' = changes + 1
  /\ still' = FALSE
  /\ UNCHANGED visit

CatalogueRequest == \E bands \in Asked : Search(bands)
Next ==
  \/ CatalogueRequest \/ TurnPage
  \/ CountBands \/ ReadRows \/ CountTotal
  \/ \E t \in Titles, course \in Course : EditCourse(t, course)

Spec == Init /\ [][Next]_vars

-----------------------------------------------------------------------------
(* Properties *)

(* Of the matches, those sorted above a course and those not sorted below  *)
(* it (the course itself and its ties among them) bound its place.  So a   *)
(* course is on page p for sure if no page ends among its ties, and may be *)
(* on p if one of their places is.                                         *)
Above(t) == {u \in Matches(visit.bands) : shelf[u].rank > shelf[t].rank}
NotBelow(t) == {u \in Matches(visit.bands) : shelf[u].rank >= shelf[t].rank}
Sure(p) == {t \in Matches(visit.bands) : /\ (p - 1) * PageSize <= Cardinality(Above(t))
                                         /\ Cardinality(NotBelow(t)) <= p * PageSize}
Possible(p) == {t \in Matches(visit.bands) : /\ (p - 1) * PageSize < Cardinality(NotBelow(t))
                                             /\ Cardinality(Above(t)) < p * PageSize}

(* Without edits, the pages turned so far show matches only; a course none *)
(* of whose ties are on the other side of a page's end is on no second     *)
(* page, and once no next page is offered it has been on its own.  (Of     *)
(* ties that a page's end separates, OFFSET may repeat one and skip        *)
(* another; without ties every match is covered.)                          *)
PagesPartition ==
  At("shown") /\ still =>
    /\ \A q \in 1..visit.page : visit.pages[q] \subseteq Matches(visit.bands)
    /\ \A p \in 1..Cardinality(Titles) : \A t \in Sure(p) :
         /\ \A q \in 1..visit.page : t \in visit.pages[q] => q = p
         /\ ~HasMore => p <= visit.page /\ t \in visit.pages[p]

(* A band offered with a count leads to that many courses, unless courses  *)
(* changed between the two.  The last band keeps its word only if every    *)
(* course has a duration: it counts the others, and its filter does not    *)
(* find them.                                                              *)
FacetsKeepWord ==
  At("shown") /\ still /\ visit.offered # NoCounts /\ changes = 0 =>
    \A b \in Bands :
      /\ visit.bands = {b}
      /\ b = "13+" => \A t \in Titles : shelf[t].weeks # 0
      => visit.total = visit.offered[b]

(* What they rest on: a page holds what it must and nothing it cannot;     *)
(* totals and counts that were read are those of the courses there are, as *)
(* long as none changes.                                                   *)
Turned == IF At("total") \/ At("shown") THEN visit.page ELSE visit.page - 1
Filed(bands) ==
  [b \in Bands |-> Cardinality({t \in Matches(bands) : BandOf(shelf[t].weeks) = b})]
AnswersAreTrue ==
  /\ still => \A p \in 1..Turned :
       Sure(p) \subseteq visit.pages[p] /\ visit.pages[p] \subseteq Possible(p)
  /\ still /\ At("shown") => visit.total = Cardinality(Matches(visit.bands))
  /\ still /\ visit.pc \in {"rows", "total", "shown"} => visit.facets = Filed(visit.bands)
  /\ changes = 0 /\ visit.offered # NoCounts => visit.offered = Filed({})

(* The catalogue's invariant: types, whole pages, true counts; with what   *)
(* they rest on, it is inductive.                                          *)
CatalogueInv == TypeOK /\ PagesPartition /\ FacetsKeepWord /\ AnswersAreTrue
=============================================================================
