------------------------------ MODULE Services ------------------------------
(* The services around a course: its authoring, catalogue and discussions, *)
(* notifications, activity, the public API, the configuration, the seed    *)
(* script; and checkout with one call at a time.  They share no state here *)
(* and are explored next to each other: `moves' names the one a behaviour  *)
(* is about, and the others stay as they are at the start.                 *)
EXTENDS Naturals, FiniteSets

CONSTANTS
  Calls,   \* calls that may be in flight at once
  None,    \* no row, nobody
  Sections, Nodes, Lookups, Ttl, MaxEdits, MaxOutages,                  \* configuration
  Posts, People, Enrolled, Staff, MaxMessages, MaxUpsets,               \* discussions
  Readers, Slips, MaxErrands, MaxDays, MaxGlitches,                     \* notifications
  Clients, Bearers, Limit, MaxHits, MaxSecrets, MaxHours, MaxDrops,     \* public API
  Drafts, Chapters, Pages, MaxChanges, MaxBreaks,                       \* course builder
  Titles, Weeks, Asked, PageSize, MaxReshelvings,                       \* catalogue
  Tabs, Beats, LastDay, Lookback,                                       \* activity
  Size, Quizzes, Questions, MaxRuns, MaxTweaks, MaxDeaths,              \* seed script
  Learners, Courses, Providers, TheCall, MaxOrders, MaxFaults           \* checkout

ASSUME ServicesAssumption ==
  /\ Sections # {} /\ IsFiniteSet(Nodes) /\ Ttl \in Nat \ {0}
  /\ MaxEdits \in Nat /\ MaxOutages \in Nat
  /\ None \notin Posts /\ MaxMessages \in Nat /\ MaxUpsets \in Nat
  /\ IsFiniteSet(Readers) /\ None \notin Readers
  /\ MaxErrands \in Nat /\ MaxDays \in Nat /\ MaxGlitches \in Nat
  /\ Limit \in Nat /\ MaxHits \in Nat /\ MaxSecrets \in Nat \ {0} /\ MaxHours \in Nat
  /\ MaxDrops \in Nat
  /\ IsFiniteSet(Tabs) /\ LastDay \in Nat /\ Lookback \in Nat
  /\ IsFiniteSet(Chapters) /\ IsFiniteSet(Pages) /\ MaxChanges \in Nat /\ MaxBreaks \in Nat
  /\ IsFiniteSet(Titles) /\ Titles # {} /\ Weeks \subseteq Nat /\ PageSize \in Nat \ {0}
  /\ MaxReshelvings \in Nat
  /\ Size \in Nat \ {0} /\ Quizzes \subseteq 1..Size /\ Questions \in Nat
  /\ MaxRuns \in Nat /\ MaxTweaks \in Nat /\ MaxDeaths \in Nat

VARIABLES
  moves,
  redisOn, configRow, redisCopy, memory, revisions, lookup,
  edits, sinceEdit, wanted, writers, clash, outages,
  posts, ballots, alerts, modLog, speech, crossTalk, messages, upsets,
  wants, notices, errand, asked, against, audience, jostled, errands, midnights, glitches,
  clients, bearers, line, redisUp, counters, allowed, served, ghosts, contended, hits, hours,
  drops,
  drafts, chapters, pages, authored, announced, refused, discarded, clashed, rivals,
  changes, breaks,
  shelf, visit, still, reshelved,
  today, days, beat, inserts, sets, named, tab, twice,
  people, course, chapter, lesson, bank, run, paper, abreast, runs, tweaks, deaths,
  mode, heard, status, buyer, via, charge, access, receipts, call, faults

settingsVars == <<redisOn, configRow, redisCopy, memory, revisions, lookup,
                  edits, sinceEdit, wanted, writers, clash, outages>>
forumVars == <<posts, ballots, alerts, modLog, speech, crossTalk, messages, upsets>>
noticeVars == <<wants, notices, errand, asked, against, audience, jostled, errands, midnights,
                glitches>>
apiVars == <<clients, bearers, line, redisUp, counters, allowed, served, ghosts, contended,
             hits, hours, drops>>
authorVars == <<drafts, chapters, pages, authored, announced, refused, discarded, clashed,
                rivals, changes, breaks>>
shelfVars == <<shelf, visit, still, reshelved>>
activityVars == <<today, days, beat, inserts, sets, named, tab, twice>>
seedVars == <<people, course, chapter, lesson, bank, run, paper, abreast, runs, tweaks, deaths>>
orderVars == <<mode, heard, status, buyer, via, charge, access, receipts, call, faults>>
vars == <<moves, settingsVars, forumVars, noticeVars, apiVars, authorVars, shelfVars,
          activityVars, seedVars, orderVars>>

Config == INSTANCE Settings WITH NoNode <- None, started <- edits

Forum == INSTANCE Discussions WITH Speakers <- Calls, NoPost <- None, NoPerson <- None

Notices == INSTANCE Notifications WITH
  Notices <- Slips, Errands <- Calls, NoReader <- None, today <- midnights

Api == INSTANCE PublicApi WITH Lines <- Calls, NoClient <- None, NoBearer <- None

Builder == INSTANCE Authoring WITH
  Authors <- Calls, NoDraft <- None, NoChapter <- None, NoPage <- None

Shop == INSTANCE Catalogue WITH MaxChanges <- MaxReshelvings, changes <- reshelved

(* Visitors ask for bands there are. *)
ASSUME AskedAssumption == Asked \subseteq SUBSET Shop!Bands

Learner == INSTANCE Activity

Script == INSTANCE Seed WITH Runs <- Calls, MaxChanges <- MaxTweaks

Serial == INSTANCE Checkout WITH Handlers <- {TheCall}

Init ==
  /\ moves \in {"config", "forum", "notices", "api", "builder", "shop", "learner", "script",
                "orders"}
  /\ moves = "config" \/ redisOn = FALSE
  /\ moves = "orders" \/ mode = "mock"
  /\ moves = "shop"
       \/ shelf = [t \in Titles |-> [published |-> TRUE, rank |-> 1,
                                     weeks |-> CHOOSE w \in Weeks : TRUE]]
  /\ Config!Init /\ Forum!Init /\ Notices!Init /\ Api!Init /\ Builder!Init /\ Shop!Init
  /\ Learner!Init /\ Script!Init /\ Serial!Init

(* Nothing but the component c moves. *)
Only(c) ==
  /\ moves = c /\ UNCHANGED moves
  /\ IF c = "config" THEN TRUE ELSE UNCHANGED settingsVars
  /\ IF c = "forum" THEN TRUE ELSE UNCHANGED forumVars
  /\ IF c = "notices" THEN TRUE ELSE UNCHANGED noticeVars
  /\ IF c = "api" THEN TRUE ELSE UNCHANGED apiVars
  /\ IF c = "builder" THEN TRUE ELSE UNCHANGED authorVars
  /\ IF c = "shop" THEN TRUE ELSE UNCHANGED shelfVars
  /\ IF c = "learner" THEN TRUE ELSE UNCHANGED activityVars
  /\ IF c = "script" THEN TRUE ELSE UNCHANGED seedVars
  /\ IF c = "orders" THEN TRUE ELSE UNCHANGED orderVars

Next ==
  \/ Only("config") /\ Config!Next
  \/ Only("forum") /\ Forum!Next
  \/ Only("notices") /\ Notices!Next
  \/ Only("api") /\ Api!Next
  \/ Only("builder") /\ Builder!Next
  \/ Only("shop") /\ Shop!Next
  \/ Only("learner") /\ Learner!Next
  \/ Only("script") /\ Script!Next
  \/ Only("orders") /\ Serial!Next

Spec == Init /\ [][Next]_vars

-----------------------------------------------------------------------------
(* Properties *)

(* Of the configuration: an edit is everywhere within 60 seconds, and no   *)
(* edit of one process undoes another.                                     *)
SettingsInv == Config!SettingsInv

(* Of discussions: threads as deep as allowed, moderation on record.       *)
ForumInv == Forum!ForumInv

(* Of notifications: preferences kept, nobody pestered, announcements      *)
(* arrive.                                                                 *)
NotificationsInv == Notices!NotificationsInv

(* Of the public API: no more than the limit, nothing after a revocation.  *)
PublicApiInv == Api!PublicApiInv

(* Of course authoring: every lesson is shown, authors decide.             *)
AuthoringInv == Builder!AuthoringInv

(* Of the catalogue: pages partition the matches, facets keep their word.  *)
CatalogueInv == Shop!CatalogueInv

(* Of activity: the streak is due, open tabs hear.                         *)
ActivityInv == Learner!ActivityInv

(* Of the seed script: no question twice, a run that ends has repaired the *)
(* course, snapshots are whole.                                            *)
SeedInv == Script!SeedInv

(* Of checkout with one call at a time: one pending order of a learner for *)
(* a course, one receipt of an order; and what that rests on.              *)
OrdersInv == Serial!OnePending /\ Serial!OneReceipt /\ Serial!InTurn
=============================================================================
