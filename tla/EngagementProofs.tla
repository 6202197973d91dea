-------------------------- MODULE EngagementProofs --------------------------
(***************************************************************************)
(* What Services guarantees of what learners are told and counted: notices *)
(* and preferences, the streak and the streams of progress events, for any *)
(* number of readers, days, tabs, calls in flight and failures.            *)
(***************************************************************************)
EXTENDS Services, Integers, SequenceTheorems, FiniteSetTheorems, WellFoundedInduction, TLAPS

USE ServicesAssumption

-----------------------------------------------------------------------------
(* Notifications: how calls move *)

LEMMA NoticeFacts ==
  ASSUME Notices!NotificationsInv
  PROVE  /\ Notices!TypeOK /\ Notices!PatchesKept /\ Notices!NobodyIsPestered
         /\ Notices!AnnouncementsArrive /\ Notices!Alone
         /\ \A n \in Notices!Written : notices[n].day <= midnights
         /\ \A e \in Calls : Notices!ErrandOK(e) /\ errand[e] \in Notices!Errand
         /\ \A n \in Slips : notices[n] \in Notices!Notice
         /\ \A r \in Readers : wants[r] \in SUBSET Notices!Keys /\ asked[r] \in SUBSET Notices!Keys
         /\ glitches \in 0..MaxGlitches /\ errands \in 0..MaxErrands /\ midnights \in 0..MaxDays
         /\ audience \in [who : SUBSET Readers, over : BOOLEAN]
BY DEF Notices!NotificationsInv, Notices!TypeOK

LEMMA NoticeIdle ==
  /\ Notices!Idle \in Notices!Errand /\ Notices!Idle.pc = "idle" /\ Notices!Idle.rest = {}
  /\ Notices!Idle.kind = "streak"
  /\ Notices!Step = {"idle", "upsert", "recent", "already", "next", "prefs", "insert"}
BY DEF Notices!Idle, Notices!Errand, Notices!Step, Notices!Kinds, Notices!Keys

LEMMA SameCount == \A S : Notices!Cardinality(S) = Cardinality(S)
BY DEF Cardinality, Notices!Cardinality

(* Sets of readers and how many there are.                                 *)
LEMMA ReaderCount ==
  ASSUME NEW S \in SUBSET Readers
  PROVE  /\ IsFiniteSet(S) /\ Notices!Cardinality(S) \in Nat
         /\ S = {} => Notices!Cardinality(S) = 0
         /\ \A T \in SUBSET S : Notices!Cardinality(T) <= Notices!Cardinality(S)
         /\ \A x \in Readers : Notices!Cardinality(S \union {x}) <= Notices!Cardinality(S) + 1
<1>1. IsFiniteSet(S)
  BY FS_Subset
<1>2. Cardinality(S) \in Nat /\ (S = {} => Cardinality(S) = 0)
  BY <1>1, FS_CardinalityType, FS_EmptySet
<1>3. \A T \in SUBSET S : Cardinality(T) <= Cardinality(S)
  BY <1>1, FS_Subset
<1>4. \A x \in Readers : Cardinality(S \union {x}) <= Cardinality(S) + 1
  <2> SUFFICES ASSUME NEW x \in Readers PROVE Cardinality(S \union {x}) <= Cardinality(S) + 1
    OBVIOUS
  <2>1. Cardinality(S \union {x}) = IF x \in S THEN Cardinality(S) ELSE Cardinality(S) + 1
    BY <1>1, FS_AddElement
  <2> QED BY <1>2, <2>1
<1> QED BY <1>1, <1>2, <1>3, <1>4, SameCount

LEMMA NoticeReturns ==
  ASSUME Notices!TypeOK, NEW e \in Calls, Notices!Return(e)
  PROVE  /\ errand' \in [Calls -> Notices!Errand] /\ errand'[e] = Notices!Idle
         /\ \A o \in Calls \ {e} : errand'[o] = errand[o]
<1>1. errand \in [Calls -> Notices!Errand] /\ errand' = [errand EXCEPT ![e] = Notices!Idle]
  BY DEF Notices!TypeOK, Notices!Return
<1> QED BY <1>1, NoticeIdle

LEMMA NoticeGoes ==
  ASSUME Notices!TypeOK, NEW e \in Calls, NEW s \in Notices!Step,
         errand' = [errand EXCEPT ![e].pc = s]
  PROVE  /\ errand' \in [Calls -> Notices!Errand] /\ errand'[e].pc = s
         /\ errand'[e].kind = errand[e].kind /\ errand'[e].who = errand[e].who
         /\ errand'[e].rest = errand[e].rest /\ errand'[e].keys = errand[e].keys
         /\ \A o \in Calls \ {e} : errand'[o] = errand[o]
<1> DEFINE n(r) == [r EXCEPT !.pc = s]
<1>1. ASSUME NEW r \in Notices!Errand
      PROVE  /\ n(r) \in Notices!Errand /\ n(r).pc = s /\ n(r).kind = r.kind
             /\ n(r).who = r.who /\ n(r).rest = r.rest /\ n(r).keys = r.keys
  BY DEF Notices!Errand
<1>2. errand \in [Calls -> Notices!Errand] /\ errand' = [errand EXCEPT ![e] = n(errand[e])]
  BY DEF Notices!TypeOK
<1> HIDE DEF n
<1>3. errand[e] \in Notices!Errand /\ errand'[e] = n(errand[e])
  BY <1>2
<1> QED BY <1>1, <1>2, <1>3

LEMMA NoticeBegins ==
  ASSUME Notices!TypeOK, NEW e \in Calls, NEW c \in Notices!Errand, Notices!Begin(e, c)
  PROVE  /\ errand' \in [Calls -> Notices!Errand] /\ errand'[e] = c
         /\ errand[e].pc = "idle" /\ errands' \in 0..MaxErrands
         /\ \A o \in Calls \ {e} : errand'[o] = errand[o]
         /\ jostled' = (jostled \/ \E o \in Calls \ {e} : errand[o].pc # "idle")
         /\ jostled' \in BOOLEAN
         /\ UNCHANGED <<notices, against, midnights, glitches>>
<1>1. /\ errand \in [Calls -> Notices!Errand] /\ errand' = [errand EXCEPT ![e] = c]
      /\ errands \in 0..MaxErrands /\ errands < MaxErrands /\ errands' = errands + 1
      /\ jostled \in BOOLEAN
  BY DEF Notices!TypeOK, Notices!Begin
<1> QED BY <1>1 DEF Notices!Begin, Notices!At

(* A call e takes a step: unless calls overlapped, the others are idle.    *)
LEMMA NoticeCall ==
  ASSUME Notices!NotificationsInv, NEW e \in Calls,
         \A o \in Calls \ {e} : errand'[o] = errand[o], jostled => jostled',
         errand[e].pc # "idle" \/ errand'[e].pc # "idle",
         errand[e].pc = "idle" => jostled' \/ \A o \in Calls \ {e} : errand[o].pc = "idle",
         Notices!TypeOK', Notices!PatchesKept', Notices!NobodyIsPestered',
         Notices!AnnouncementsArrive', Notices!ErrandOK(e)',
         \A n \in Notices!Written' : notices'[n].day <= midnights'
  PROVE  Notices!NotificationsInv'
<1>0. Notices!Alone /\ \A o \in Calls : Notices!ErrandOK(o)
  BY NoticeFacts
<1>1. ~jostled' => \A o \in Calls \ {e} : errand[o].pc = "idle"
  BY <1>0 DEF Notices!Alone, Notices!At
<1>2. Notices!Alone'
  BY <1>1 DEF Notices!Alone, Notices!At
<1>3. \A o \in Calls : Notices!ErrandOK(o)'
  <2> SUFFICES ASSUME NEW o \in Calls \ {e} PROVE Notices!ErrandOK(o)'
    OBVIOUS
  <2>1. errand'[o] = errand[o] /\ Notices!ErrandOK(o) /\ (~jostled' => errand'[o].pc = "idle")
    BY <1>0, <1>1
  <2> QED BY <2>1 DEF Notices!ErrandOK, Notices!FansOut, Notices!At
<1> QED BY <1>2, <1>3 DEF Notices!NotificationsInv

(* A call that neither writes preferences nor notices.                     *)
LEMMA QuietCall ==
  ASSUME Notices!NotificationsInv, NEW e \in Calls,
         UNCHANGED <<wants, notices, asked, against, midnights>>,
         errand' \in [Calls -> Notices!Errand],
         \A o \in Calls \ {e} : errand'[o] = errand[o], jostled => jostled',
         jostled' \in BOOLEAN, errands' \in 0..MaxErrands,
         glitches' \in 0..MaxGlitches, glitches <= glitches',
         audience' \in [who : SUBSET Readers, over : BOOLEAN],
         errand[e].pc # "idle" \/ errand'[e].pc # "idle",
         errand[e].pc = "idle" => jostled' \/ \A o \in Calls \ {e} : errand[o].pc = "idle",
         errand[e].pc # "upsert" \/ glitches' # 0,
         audience' = audience \/ Notices!AnnouncementsArrive',
         Notices!ErrandOK(e)'
  PROVE  Notices!NotificationsInv'
<1>0. /\ Notices!TypeOK /\ Notices!PatchesKept /\ Notices!NobodyIsPestered
      /\ Notices!AnnouncementsArrive /\ glitches \in Nat
      /\ \A n \in Notices!Written : notices[n].day <= midnights
      /\ audience \in [who : SUBSET Readers, over : BOOLEAN]
  BY NoticeFacts
<1>1. Notices!TypeOK'
  BY <1>0 DEF Notices!TypeOK
<1>2. Notices!PatchesKept'
  <2>1. glitches' = 0 => glitches = 0
    BY <1>0
  <2>2. wants' = wants /\ asked' = asked
    OBVIOUS
  <2> SUFFICES ASSUME ~jostled', glitches' = 0, NEW r \in Readers
               PROVE  wants'[r] = asked'[r] \/ \E o \in Calls : Notices!At(o, "upsert")'
                                                                /\ errand'[o].who = r
    BY DEF Notices!PatchesKept
  <2>3. wants[r] = asked[r] \/ \E o \in Calls : errand[o].pc = "upsert" /\ errand[o].who = r
    BY <1>0, <2>1 DEF Notices!PatchesKept, Notices!At
  <2> QED BY <2>2, <2>3 DEF Notices!At
<1>3. Notices!NobodyIsPestered' /\ \A n \in Notices!Written' : notices'[n].day <= midnights'
  BY <1>0 DEF Notices!NobodyIsPestered, Notices!Written
<1>4. Notices!AnnouncementsArrive'
  <2> SUFFICES ASSUME audience' = audience PROVE Notices!AnnouncementsArrive'
    OBVIOUS
  <2>1. Notices!Told' = Notices!Told /\ audience.who \ Notices!Told \in SUBSET Readers
    BY <1>0 DEF Notices!Told, Notices!Written
  <2>2. Notices!Cardinality(audience.who \ Notices!Told) \in Nat
    BY <2>1, ReaderCount
  <2> QED BY <1>0, <2>1, <2>2 DEF Notices!AnnouncementsArrive
<1> QED BY <1>1, <1>2, <1>3, <1>4, NoticeCall

LEMMA NoticeInit == Notices!Init => Notices!NotificationsInv
<1> SUFFICES ASSUME Notices!Init PROVE Notices!NotificationsInv
  OBVIOUS
<1>1. /\ wants = [r \in Readers |-> Notices!Keys] /\ asked = wants
      /\ notices = [n \in Slips |-> Notices!NoNotice] /\ against = {}
      /\ errand = [e \in Calls |-> Notices!Idle]
      /\ audience = [who |-> {}, over |-> FALSE] /\ jostled = FALSE
      /\ errands = 0 /\ midnights = 0 /\ glitches = 0
  BY DEF Notices!Init
<1>2. Notices!NoNotice \in Notices!Notice /\ Notices!NoNotice.who = None
  BY DEF Notices!NoNotice, Notices!Notice, Notices!Kinds
<1>3. Notices!TypeOK
  <2>1. wants \in [Readers -> SUBSET Notices!Keys] /\ asked \in [Readers -> SUBSET Notices!Keys]
    BY <1>1
  <2>2. notices \in [Slips -> Notices!Notice] /\ errand \in [Calls -> Notices!Errand]
    BY <1>1, <1>2, NoticeIdle
  <2>3. /\ audience \in [who : SUBSET Readers, over : BOOLEAN] /\ jostled \in BOOLEAN
        /\ against \in SUBSET Slips
    BY <1>1
  <2>4. errands \in 0..MaxErrands /\ midnights \in 0..MaxDays /\ glitches \in 0..MaxGlitches
    BY <1>1
  <2> QED BY <2>1, <2>2, <2>3, <2>4 DEF Notices!TypeOK
<1>4. Notices!Written = {}
  BY <1>1, <1>2 DEF Notices!Written
<1>5. Notices!PatchesKept /\ Notices!NobodyIsPestered
  BY <1>1, <1>4 DEF Notices!PatchesKept, Notices!NobodyIsPestered
<1>6. Notices!AnnouncementsArrive
  BY <1>1 DEF Notices!AnnouncementsArrive
<1>7. \A e \in Calls : errand[e].pc = "idle" /\ errand[e].kind = "streak" /\ errand[e].rest = {}
  BY <1>1, NoticeIdle
<1>8. Notices!Alone /\ \A e \in Calls : Notices!ErrandOK(e)
  BY <1>7 DEF Notices!Alone, Notices!ErrandOK, Notices!FansOut, Notices!At
<1> QED BY <1>3, <1>4, <1>5, <1>6, <1>8 DEF Notices!NotificationsInv

LEMMA NoticeIdleOK ==
  ASSUME NEW e \in Calls, errand'[e] = Notices!Idle
  PROVE  Notices!ErrandOK(e)'
<1>1. errand'[e].pc = "idle" /\ errand'[e].kind = "streak" /\ errand'[e].rest = {}
  BY NoticeIdle
<1> QED BY <1>1 DEF Notices!ErrandOK, Notices!FansOut, Notices!At

-----------------------------------------------------------------------------
(* Notifications: the steps that write neither preferences nor notices     *)

LEMMA NoticeCrash ==
  ASSUME Notices!NotificationsInv, NEW e \in Calls, Notices!Crash(e)
  PROVE  Notices!NotificationsInv'
<1>0. Notices!TypeOK /\ glitches \in 0..MaxGlitches /\ jostled \in BOOLEAN
      /\ errands \in 0..MaxErrands /\ audience \in [who : SUBSET Readers, over : BOOLEAN]
  BY NoticeFacts DEF Notices!TypeOK
<1>1. /\ Notices!Return(e) /\ glitches < MaxGlitches /\ glitches' = glitches + 1
      /\ errand[e].pc # "idle" /\ audience' = audience /\ jostled' = jostled
      /\ errands' = errands
      /\ UNCHANGED <<wants, notices, asked, against, midnights>>
  BY DEF Notices!Crash, Notices!At
<1>2. /\ errand' \in [Calls -> Notices!Errand] /\ Notices!ErrandOK(e)'
      /\ \A o \in Calls \ {e} : errand'[o] = errand[o]
  BY <1>0, <1>1, NoticeReturns, NoticeIdleOK
<1>3. glitches' \in 0..MaxGlitches /\ glitches <= glitches' /\ glitches' # 0
  BY <1>0, <1>1
<1> QED BY <1>0, <1>1, <1>2, <1>3, QuietCall

LEMMA NoticeRemind ==
  ASSUME Notices!NotificationsInv, NEW e \in Calls, NEW r \in Readers,
         Notices!MaybeSendStreakReminder(e, r)
  PROVE  Notices!NotificationsInv'
<1> DEFINE c == [Notices!Idle EXCEPT !.pc = "recent", !.who = r]
<1>0. Notices!TypeOK /\ glitches \in 0..MaxGlitches /\ jostled \in BOOLEAN
      /\ errands \in 0..MaxErrands /\ audience \in [who : SUBSET Readers, over : BOOLEAN]
  BY NoticeFacts DEF Notices!TypeOK
<1>1. c \in Notices!Errand /\ c.pc = "recent" /\ c.who = r /\ c.kind = "streak" /\ c.rest = {}
  BY DEF Notices!Idle, Notices!Errand, Notices!Step, Notices!Kinds, Notices!Keys
<1>2. PICK d \in Notices!Errand : /\ Notices!Begin(e, d) /\ d.pc = "recent" /\ d.who = r
                                  /\ d.kind = "streak" /\ d.rest = {}
  BY <1>1 DEF Notices!MaybeSendStreakReminder
<1>3. UNCHANGED <<wants, asked, audience>>
  BY DEF Notices!MaybeSendStreakReminder
<1>4. /\ errand' \in [Calls -> Notices!Errand] /\ errand'[e] = d
      /\ errand[e].pc = "idle" /\ errands' \in 0..MaxErrands
      /\ \A o \in Calls \ {e} : errand'[o] = errand[o]
      /\ jostled' = (jostled \/ \E o \in Calls \ {e} : errand[o].pc # "idle")
      /\ jostled' \in BOOLEAN
      /\ UNCHANGED <<notices, against, midnights, glitches>>
  BY <1>0, <1>2, NoticeBegins
<1>5. Notices!ErrandOK(e)'
  BY <1>2, <1>4 DEF Notices!ErrandOK, Notices!FansOut, Notices!At
<1>6. glitches' \in 0..MaxGlitches /\ glitches <= glitches'
  BY <1>0, <1>4
<1> QED BY <1>0, <1>2, <1>3, <1>4, <1>5, <1>6, QuietCall

LEMMA NoticeCount ==
  ASSUME Notices!NotificationsInv, NEW e \in Calls,
         Notices!CountRecentViews(e) \/ Notices!CountAlready(e)
  PROVE  Notices!NotificationsInv'
<1>0. Notices!TypeOK /\ glitches \in 0..MaxGlitches /\ jostled \in BOOLEAN
      /\ errands \in 0..MaxErrands /\ audience \in [who : SUBSET Readers, over : BOOLEAN]
      /\ Notices!ErrandOK(e)
  BY NoticeFacts DEF Notices!TypeOK
<1>1. /\ errand[e].pc \in {"recent", "already"}
      /\ UNCHANGED <<wants, notices, asked, against, audience, jostled, errands, midnights,
                     glitches>>
      /\ \/ Notices!Return(e)
         \/ Notices!Goto(e, "already")
         \/ /\ Notices!Goto(e, "prefs") /\ Notices!RemindedToday(errand[e].who) = {}
  BY DEF Notices!CountRecentViews, Notices!CountAlready, Notices!At, Notices!history
<1>2. errand[e].who \in Readers /\ errand[e].kind = "streak" /\ errand[e].rest = {}
  BY <1>0, <1>1 DEF Notices!ErrandOK
<1>3. glitches' \in 0..MaxGlitches /\ glitches <= glitches'
  BY <1>0, <1>1
<1>4. /\ errand' \in [Calls -> Notices!Errand] /\ Notices!ErrandOK(e)'
      /\ \A o \in Calls \ {e} : errand'[o] = errand[o]
  <2>1. CASE Notices!Return(e)
    BY <1>0, <2>1, NoticeReturns, NoticeIdleOK
  <2>2. ASSUME NEW s \in {"already", "prefs"}, Notices!Goto(e, s),
               s = "prefs" => Notices!RemindedToday(errand[e].who) = {}
        PROVE  <1>4
    <3>1. /\ errand' \in [Calls -> Notices!Errand] /\ errand'[e].pc = s
          /\ errand'[e].kind = "streak" /\ errand'[e].who = errand[e].who
          /\ errand'[e].rest = {} /\ \A o \in Calls \ {e} : errand'[o] = errand[o]
      BY <1>0, <1>2, <2>2, NoticeGoes, NoticeIdle DEF Notices!Goto
    <3>2. s = "prefs" => Notices!RemindedToday(errand[e].who)' = {}
      BY <1>1, <2>2, <3>1 DEF Notices!RemindedToday, Notices!Written
    <3>3. Notices!ErrandOK(e)'
      BY <1>2, <3>1, <3>2 DEF Notices!ErrandOK, Notices!FansOut, Notices!At,
                             Notices!RemindedToday, Notices!Written
    <3> QED BY <3>1, <3>3
  <2> QED BY <1>1, <2>1, <2>2
<1> QED BY <1>0, <1>1, <1>3, <1>4, QuietCall

LEMMA NoticeAnnounce ==
  ASSUME Notices!NotificationsInv, NEW e \in Calls, NEW enrolled \in SUBSET Readers,
         Notices!Announce(e, enrolled)
  PROVE  Notices!NotificationsInv'
<1> DEFINE c == [Notices!Idle EXCEPT !.pc = "next", !.kind = "announcement", !.rest = enrolled]
<1>0. Notices!TypeOK /\ glitches \in 0..MaxGlitches /\ jostled \in BOOLEAN
      /\ errands \in 0..MaxErrands
  BY NoticeFacts DEF Notices!TypeOK
<1>1. /\ c \in Notices!Errand /\ c.pc = "next" /\ c.kind = "announcement"
      /\ c.rest = enrolled
  BY DEF Notices!Idle, Notices!Errand, Notices!Step, Notices!Kinds, Notices!Keys
<1>2. PICK d \in Notices!Errand : /\ Notices!Begin(e, d) /\ d.pc = "next"
                                  /\ d.kind = "announcement" /\ d.rest = enrolled
  BY <1>1 DEF Notices!Announce
<1>3. /\ UNCHANGED <<wants, asked>>
      /\ audience' = [who |-> {r \in enrolled : "announcement" \in wants[r]}, over |-> FALSE]
  BY DEF Notices!Announce
<1>4. /\ errand' \in [Calls -> Notices!Errand] /\ errand'[e] = d
      /\ errand[e].pc = "idle" /\ errands' \in 0..MaxErrands
      /\ \A o \in Calls \ {e} : errand'[o] = errand[o]
      /\ jostled' = (jostled \/ \E o \in Calls \ {e} : errand[o].pc # "idle")
      /\ jostled' \in BOOLEAN
      /\ UNCHANGED <<notices, against, midnights, glitches>>
  BY <1>0, <1>2, NoticeBegins
<1>5. audience' \in [who : SUBSET Readers, over : BOOLEAN] /\ Notices!AnnouncementsArrive'
  BY <1>3 DEF Notices!AnnouncementsArrive
<1>6. \A T : Notices!Cardinality((audience'.who \ T) \ enrolled) = 0
  <2>1. \A T : (audience'.who \ T) \ enrolled = {}
    BY <1>3
  <2> QED BY <2>1, ReaderCount
<1>7. Notices!ErrandOK(e)'
  <2>1. Notices!Pending(e)' = enrolled
    BY <1>2, <1>4 DEF Notices!Pending
  <2>2. Notices!Cardinality((audience'.who \ Notices!Told') \ Notices!Pending(e)') <= glitches'
    BY <1>0, <1>4, <1>6, <2>1
  <2>3. ~audience'.over /\ \A r \in audience'.who : "announcement" \in wants'[r]
    BY <1>3
  <2> QED BY <1>2, <1>4, <2>2, <2>3 DEF Notices!ErrandOK, Notices!FansOut, Notices!At
<1>8. glitches' \in 0..MaxGlitches /\ glitches <= glitches'
  BY <1>0, <1>4
<1> QED BY <1>0, <1>2, <1>3, <1>4, <1>5, <1>7, <1>8, QuietCall

(* A fan-out that keeps in sight whoever it still owes the announcement.   *)
LEMMA StillOwed ==
  ASSUME Notices!NotificationsInv, NEW e \in Calls, Notices!FansOut(e), ~jostled,
         glitches' \in Nat, Notices!Told' = Notices!Told, audience' = audience, wants' = wants,
         \/ /\ glitches' = glitches
            /\ audience.who \ Notices!Pending(e)' \subseteq audience.who \ Notices!Pending(e)
         \/ /\ glitches' = glitches + 1
            /\ \E x \in Readers : audience.who \ Notices!Pending(e)'
                                    \subseteq (audience.who \ Notices!Pending(e)) \union {x}
  PROVE  /\ ~audience'.over /\ \A r \in audience'.who : "announcement" \in wants'[r]
         /\ Notices!Cardinality((audience'.who \ Notices!Told') \ Notices!Pending(e)') <= glitches'
<1> DEFINE owed == (audience.who \ Notices!Told) \ Notices!Pending(e)
           after == (audience'.who \ Notices!Told') \ Notices!Pending(e)'
<1>1. /\ ~audience.over /\ \A r \in audience.who : "announcement" \in wants[r]
      /\ Notices!Cardinality(owed) <= glitches /\ glitches \in Nat
      /\ audience.who \in SUBSET Readers
  BY NoticeFacts DEF Notices!ErrandOK
<1>2. owed \in SUBSET Readers /\ Notices!Cardinality(owed) \in Nat
  BY <1>1, ReaderCount
<1>3. CASE glitches' = glitches /\ after \subseteq owed
  BY <1>1, <1>2, <1>3, ReaderCount
<1>4. CASE glitches' = glitches + 1 /\ \E x \in Readers : after \subseteq owed \union {x}
  <2>1. PICK x \in Readers : after \subseteq owed \union {x}
    BY <1>4
  <2>2. owed \union {x} \in SUBSET Readers
    BY <1>2
  <2>3. /\ Notices!Cardinality(owed \union {x}) \in Nat
        /\ Notices!Cardinality(owed \union {x}) <= Notices!Cardinality(owed) + 1
        /\ Notices!Cardinality(after) <= Notices!Cardinality(owed \union {x})
        /\ Notices!Cardinality(after) \in Nat
    BY <1>2, <2>1, <2>2, ReaderCount
  <2>4. Notices!Cardinality(after) <= glitches'
    BY <1>1, <1>2, <1>4, <2>3
  <2> QED BY <1>1, <2>4
<1>5. \/ glitches' = glitches /\ after \subseteq owed
      \/ glitches' = glitches + 1 /\ \E x \in Readers : after \subseteq owed \union {x}
  <2>1. audience'.who \ Notices!Told' = audience.who \ Notices!Told
    OBVIOUS
  <2> HIDE DEF owed, after
  <2>2. ASSUME glitches' = glitches,
               audience.who \ Notices!Pending(e)' \subseteq audience.who \ Notices!Pending(e)
        PROVE  after \subseteq owed
    BY <2>1, <2>2 DEF owed, after
  <2>3. ASSUME NEW x \in Readers, audience.who \ Notices!Pending(e)'
                                    \subseteq (audience.who \ Notices!Pending(e)) \union {x}
        PROVE  after \subseteq owed \union {x}
    BY <2>1, <2>3 DEF owed, after
  <2> QED BY <2>2, <2>3
<1> QED BY <1>3, <1>4, <1>5

LEMMA NoticeTake ==
  ASSUME Notices!NotificationsInv, NEW e \in Calls, Notices!TakeRecipient(e)
  PROVE  Notices!NotificationsInv'
<1>0. /\ Notices!TypeOK /\ glitches \in 0..MaxGlitches /\ jostled \in BOOLEAN
      /\ errands \in 0..MaxErrands /\ audience \in [who : SUBSET Readers, over : BOOLEAN]
      /\ errand \in [Calls -> Notices!Errand] /\ errand[e] \in Notices!Errand
      /\ Notices!ErrandOK(e)
  BY NoticeFacts DEF Notices!TypeOK
<1>1. /\ errand[e].pc = "next"
      /\ UNCHANGED <<wants, notices, asked, against, jostled, errands, midnights, glitches>>
  BY DEF Notices!TakeRecipient, Notices!At
<1>2. glitches' \in 0..MaxGlitches /\ glitches <= glitches' /\ glitches' \in Nat
  BY <1>0, <1>1
<1>3. Notices!Told' = Notices!Told
  BY <1>1 DEF Notices!Told, Notices!Written
<1>4. ASSUME NEW r \in errand[e].rest,
             errand' = [errand EXCEPT ![e].pc = "prefs", ![e].who = r, ![e].rest = @ \ {r}],
             UNCHANGED audience
      PROVE  Notices!NotificationsInv'
  <2> DEFINE n(c) == [c EXCEPT !.pc = "prefs", !.who = r, !.rest = @ \ {r}]
  <2>1. errand[e].rest \in SUBSET Readers
    BY <1>0 DEF Notices!Errand
  <2>2. r \in Readers /\ errand[e].rest # {}
    BY <2>1, <1>4
  <2>3. ASSUME NEW c \in Notices!Errand
        PROVE  /\ n(c) \in Notices!Errand /\ n(c).pc = "prefs" /\ n(c).who = r
               /\ n(c).rest = c.rest \ {r} /\ n(c).kind = c.kind
    BY <2>2 DEF Notices!Errand, Notices!Step
  <2>4. errand' = [errand EXCEPT ![e] = n(errand[e])]
    BY <1>0, <1>4
  <2> HIDE DEF n
  <2>5. /\ errand' \in [Calls -> Notices!Errand] /\ errand'[e] = n(errand[e])
        /\ \A o \in Calls \ {e} : errand'[o] = errand[o]
    BY <1>0, <2>3, <2>4
  <2>6. /\ errand'[e].pc = "prefs" /\ errand'[e].who = r /\ errand'[e].kind = errand[e].kind
        /\ errand'[e].rest = errand[e].rest \ {r}
    BY <1>0, <2>3, <2>5
  <2>7. errand[e].kind # "streak"
    BY <1>0, <2>2 DEF Notices!ErrandOK
  <2>8. Notices!Pending(e)' = Notices!Pending(e)
    BY <1>1, <1>4, <2>6 DEF Notices!Pending
  <2>9. Notices!ErrandOK(e)'
    <3>1. CASE jostled \/ errand[e].kind # "announcement"
      BY <1>1, <2>2, <2>6, <2>7, <3>1 DEF Notices!ErrandOK, Notices!FansOut, Notices!At
    <3>2. CASE ~jostled /\ errand[e].kind = "announcement"
      <4>1. Notices!FansOut(e)
        BY <1>1, <3>2 DEF Notices!FansOut, Notices!At
      <4>2. /\ ~audience'.over /\ \A q \in audience'.who : "announcement" \in wants'[q]
            /\ Notices!Cardinality((audience'.who \ Notices!Told') \ Notices!Pending(e)')
                 <= glitches'
        BY <1>1, <1>2, <1>3, <1>4, <2>8, <3>2, <4>1, StillOwed
      <4> QED BY <2>2, <2>6, <2>7, <4>2 DEF Notices!ErrandOK, Notices!FansOut, Notices!At
    <3> QED BY <1>0, <3>1, <3>2
  <2> QED BY <1>0, <1>1, <1>2, <1>4, <2>5, <2>9, QuietCall
<1>5. ASSUME errand[e].rest = {}, Notices!Return(e),
             audience' = IF errand[e].kind = "announcement" THEN [audience EXCEPT !.over = TRUE]
                         ELSE audience
      PROVE  Notices!NotificationsInv'
  <2>1. /\ errand' \in [Calls -> Notices!Errand] /\ Notices!ErrandOK(e)'
        /\ \A o \in Calls \ {e} : errand'[o] = errand[o]
    BY <1>0, <1>5, NoticeReturns, NoticeIdleOK
  <2>2. audience' \in [who : SUBSET Readers, over : BOOLEAN] /\ audience'.who = audience.who
    BY <1>0, <1>5
  <2>3. audience' = audience \/ Notices!AnnouncementsArrive'
    <3> SUFFICES ASSUME errand[e].kind = "announcement", ~jostled
                 PROVE  Notices!Cardinality(audience'.who \ Notices!Told') <= glitches'
      BY <1>1, <1>5 DEF Notices!AnnouncementsArrive
    <3>1. Notices!FansOut(e) /\ Notices!Pending(e) = {}
      BY <1>1, <1>5 DEF Notices!FansOut, Notices!Pending, Notices!At
    <3>2. Notices!Cardinality((audience.who \ Notices!Told) \ Notices!Pending(e)) <= glitches
      BY <1>0, <3>1 DEF Notices!ErrandOK
    <3>3. (audience.who \ Notices!Told) \ Notices!Pending(e) = audience'.who \ Notices!Told'
      BY <1>3, <2>2, <3>1
    <3> QED BY <1>1, <3>2, <3>3
  <2> QED BY <1>0, <1>1, <1>2, <2>1, <2>2, <2>3, QuietCall
<1> QED BY <1>4, <1>5 DEF Notices!TakeRecipient

LEMMA NoticeReadPreferences ==
  ASSUME Notices!NotificationsInv, NEW e \in Calls, Notices!ReadPreferences(e)
  PROVE  Notices!NotificationsInv'
<1>0. /\ Notices!TypeOK /\ glitches \in 0..MaxGlitches /\ jostled \in BOOLEAN
      /\ errands \in 0..MaxErrands /\ audience \in [who : SUBSET Readers, over : BOOLEAN]
      /\ errand \in [Calls -> Notices!Errand] /\ errand[e] \in Notices!Errand
      /\ Notices!ErrandOK(e)
  BY NoticeFacts DEF Notices!TypeOK
<1>1. /\ errand[e].pc = "prefs"
      /\ UNCHANGED <<wants, notices, asked, against, audience, jostled, errands, midnights,
                     glitches>>
  BY DEF Notices!ReadPreferences, Notices!At, Notices!history
<1>2. glitches' \in 0..MaxGlitches /\ glitches <= glitches' /\ glitches' \in Nat
  BY <1>0, <1>1
<1>3. /\ Notices!Told' = Notices!Told
      /\ Notices!RemindedToday(errand[e].who)' = {} <=> Notices!RemindedToday(errand'[e].who) = {}
  BY <1>1 DEF Notices!Told, Notices!Written, Notices!RemindedToday
<1>4. /\ errand[e].who \in Readers /\ (errand[e].kind = "streak" => errand[e].rest = {})
      /\ ~jostled /\ errand[e].kind = "streak" => Notices!RemindedToday(errand[e].who) = {}
      /\ wants[errand[e].who] \in SUBSET Notices!Keys
  BY <1>0, <1>1, NoticeFacts DEF Notices!ErrandOK
<1>5. ASSUME errand[e].kind \in wants[errand[e].who],
             errand' = [errand EXCEPT ![e].pc = "insert", ![e].keys = wants[errand[e].who]]
      PROVE  Notices!NotificationsInv'
  <2> DEFINE n(c) == [c EXCEPT !.pc = "insert", !.keys = wants[errand[e].who]]
  <2>1. ASSUME NEW c \in Notices!Errand
        PROVE  /\ n(c) \in Notices!Errand /\ n(c).pc = "insert" /\ n(c).who = c.who
               /\ n(c).rest = c.rest /\ n(c).kind = c.kind
    BY <1>4 DEF Notices!Errand, Notices!Step
  <2>2. errand' = [errand EXCEPT ![e] = n(errand[e])]
    BY <1>0, <1>5
  <2> HIDE DEF n
  <2>3. /\ errand' \in [Calls -> Notices!Errand] /\ errand'[e] = n(errand[e])
        /\ \A o \in Calls \ {e} : errand'[o] = errand[o]
    BY <1>0, <2>1, <2>2
  <2>4. /\ errand'[e].pc = "insert" /\ errand'[e].who = errand[e].who
        /\ errand'[e].kind = errand[e].kind /\ errand'[e].rest = errand[e].rest
    BY <1>0, <2>1, <2>3
  <2>5. Notices!Pending(e)' = Notices!Pending(e)
    BY <1>1, <2>4 DEF Notices!Pending
  <2>6. /\ ~jostled /\ Notices!FansOut(e)' =>
             /\ ~audience'.over /\ \A q \in audience'.who : "announcement" \in wants'[q]
             /\ Notices!Cardinality((audience'.who \ Notices!Told') \ Notices!Pending(e)')
                  <= glitches'
    <3> SUFFICES ASSUME ~jostled, Notices!FansOut(e)'
                 PROVE  /\ ~audience'.over
                        /\ \A q \in audience'.who : "announcement" \in wants'[q]
                        /\ Notices!Cardinality((audience'.who \ Notices!Told')
                                                 \ Notices!Pending(e)') <= glitches'
      OBVIOUS
    <3>1. Notices!FansOut(e)
      BY <1>1, <2>4 DEF Notices!FansOut, Notices!At
    <3> QED BY <1>1, <1>2, <1>3, <2>5, <3>1, StillOwed
  <2>7. ~jostled /\ errand[e].kind = "streak" => Notices!RemindedToday(errand[e].who)' = {}
    BY <1>1, <1>4, <2>4 DEF Notices!RemindedToday, Notices!Written
  <2>8. Notices!ErrandOK(e)'
    BY <1>1, <1>4, <1>5, <2>4, <2>6, <2>7 DEF Notices!ErrandOK, Notices!RemindedToday,
                                              Notices!Written
  <2> QED BY <1>0, <1>1, <1>2, <2>3, <2>8, QuietCall
<1>6. ASSUME errand[e].kind \notin wants[errand[e].who],
             errand' = [errand EXCEPT ![e].pc = "next"]
      PROVE  Notices!NotificationsInv'
  <2>1. /\ errand' \in [Calls -> Notices!Errand] /\ errand'[e].pc = "next"
        /\ errand'[e].kind = errand[e].kind /\ errand'[e].rest = errand[e].rest
        /\ \A o \in Calls \ {e} : errand'[o] = errand[o]
    BY <1>0, <1>6, NoticeGoes, NoticeIdle
  <2>2. ~jostled /\ errand[e].kind = "announcement" =>
             /\ ~audience'.over /\ \A q \in audience'.who : "announcement" \in wants'[q]
             /\ Notices!Cardinality((audience'.who \ Notices!Told') \ Notices!Pending(e)')
                  <= glitches'
    <3> SUFFICES ASSUME ~jostled, errand[e].kind = "announcement"
                 PROVE  /\ ~audience'.over
                        /\ \A q \in audience'.who : "announcement" \in wants'[q]
                        /\ Notices!Cardinality((audience'.who \ Notices!Told')
                                                 \ Notices!Pending(e)') <= glitches'
      OBVIOUS
    <3>1. Notices!FansOut(e)
      BY <1>1 DEF Notices!FansOut, Notices!At
    <3>2. errand[e].who \notin audience.who
      BY <1>0, <1>6, <3>1 DEF Notices!ErrandOK
    <3>3. audience.who \ Notices!Pending(e)' \subseteq audience.who \ Notices!Pending(e)
      BY <1>1, <2>1, <3>2 DEF Notices!Pending
    <3> QED BY <1>1, <1>2, <1>3, <3>1, <3>3, StillOwed
  <2>3. Notices!ErrandOK(e)'
    BY <1>1, <1>4, <2>1, <2>2 DEF Notices!ErrandOK, Notices!FansOut, Notices!At
  <2> QED BY <1>0, <1>1, <1>2, <2>1, <2>3, QuietCall
<1> QED BY <1>5, <1>6 DEF Notices!ReadPreferences, Notices!NextRecipient

LEMMA NoticeInsertFails ==
  ASSUME Notices!NotificationsInv, NEW e \in Calls, Notices!InsertFails(e)
  PROVE  Notices!NotificationsInv'
<1>0. /\ Notices!TypeOK /\ glitches \in 0..MaxGlitches /\ jostled \in BOOLEAN
      /\ errands \in 0..MaxErrands /\ audience \in [who : SUBSET Readers, over : BOOLEAN]
      /\ errand \in [Calls -> Notices!Errand] /\ errand[e] \in Notices!Errand
      /\ Notices!ErrandOK(e)
  BY NoticeFacts DEF Notices!TypeOK
<1>1. /\ errand[e].pc = "insert" /\ glitches < MaxGlitches /\ glitches' = glitches + 1
      /\ errand' = [errand EXCEPT ![e].pc = "next"]
      /\ UNCHANGED <<wants, notices, asked, against, audience, jostled, errands, midnights>>
  BY DEF Notices!InsertFails, Notices!At, Notices!NextRecipient
<1>2. glitches' \in 0..MaxGlitches /\ glitches <= glitches' /\ glitches' \in Nat
  BY <1>0, <1>1
<1>3. Notices!Told' = Notices!Told
  BY <1>1 DEF Notices!Told, Notices!Written
<1>4. errand[e].who \in Readers /\ (errand[e].kind = "streak" => errand[e].rest = {})
  BY <1>0, <1>1 DEF Notices!ErrandOK
<1>5. /\ errand' \in [Calls -> Notices!Errand] /\ errand'[e].pc = "next"
      /\ errand'[e].kind = errand[e].kind /\ errand'[e].rest = errand[e].rest
      /\ \A o \in Calls \ {e} : errand'[o] = errand[o]
  BY <1>0, <1>1, NoticeGoes, NoticeIdle
<1>6. ~jostled /\ errand[e].kind = "announcement" =>
         /\ ~audience'.over /\ \A q \in audience'.who : "announcement" \in wants'[q]
         /\ Notices!Cardinality((audience'.who \ Notices!Told') \ Notices!Pending(e)')
              <= glitches'
  <2> SUFFICES ASSUME ~jostled, errand[e].kind = "announcement"
               PROVE  /\ ~audience'.over
                      /\ \A q \in audience'.who : "announcement" \in wants'[q]
                      /\ Notices!Cardinality((audience'.who \ Notices!Told')
                                               \ Notices!Pending(e)') <= glitches'
    OBVIOUS
  <2>1. Notices!FansOut(e)
    BY <1>1 DEF Notices!FansOut, Notices!At
  <2>2. audience.who \ Notices!Pending(e)'
          \subseteq (audience.who \ Notices!Pending(e)) \union {errand[e].who}
    BY <1>1, <1>5 DEF Notices!Pending
  <2>3. \E x \in Readers : audience.who \ Notices!Pending(e)'
                             \subseteq (audience.who \ Notices!Pending(e)) \union {x}
    BY <1>4, <2>2
  <2> QED BY <1>1, <1>2, <1>3, <2>1, <2>3, StillOwed
<1>7. Notices!ErrandOK(e)'
  BY <1>1, <1>4, <1>5, <1>6 DEF Notices!ErrandOK, Notices!FansOut, Notices!At
<1> QED BY <1>0, <1>1, <1>2, <1>5, <1>7, QuietCall

-----------------------------------------------------------------------------
(* Notifications: preferences written                                      *)

LEMMA NoticeUpdate ==
  ASSUME Notices!NotificationsInv, NEW e \in Calls, NEW r \in Readers,
         NEW on \in SUBSET Notices!Keys, NEW off \in SUBSET Notices!Keys,
         Notices!UpdatePreferences(e, r, on, off)
  PROVE  Notices!NotificationsInv'
<1> DEFINE c == [Notices!Idle EXCEPT !.pc = "upsert", !.who = r, !.keys = (wants[r] \union on) \ off]
<1>0. /\ Notices!TypeOK /\ Notices!PatchesKept /\ Notices!NobodyIsPestered
      /\ Notices!AnnouncementsArrive
      /\ \A n \in Notices!Written : notices[n].day <= midnights
      /\ wants[r] \in SUBSET Notices!Keys /\ asked[r] \in SUBSET Notices!Keys
      /\ asked \in [Readers -> SUBSET Notices!Keys]
  BY NoticeFacts DEF Notices!TypeOK
<1>1. /\ c \in Notices!Errand /\ c.pc = "upsert" /\ c.who = r /\ c.kind = "streak"
      /\ c.rest = {} /\ c.keys = (wants[r] \union on) \ off
  BY <1>0 DEF Notices!Idle, Notices!Errand, Notices!Step, Notices!Kinds
<1>2. PICK d \in Notices!Errand :
        /\ Notices!Begin(e, d) /\ d.pc = "upsert" /\ d.who = r /\ d.kind = "streak"
        /\ d.rest = {} /\ d.keys = (wants[r] \union on) \ off
  BY <1>1 DEF Notices!UpdatePreferences
<1>3. /\ wants' = wants /\ audience' = audience
      /\ asked' = [asked EXCEPT ![r] = (asked[r] \union on) \ off]
  BY DEF Notices!UpdatePreferences
<1>4. /\ errand' \in [Calls -> Notices!Errand] /\ errand'[e] = d
      /\ errand[e].pc = "idle" /\ errands' \in 0..MaxErrands
      /\ \A o \in Calls \ {e} : errand'[o] = errand[o]
      /\ jostled' = (jostled \/ \E o \in Calls \ {e} : errand[o].pc # "idle")
      /\ jostled' \in BOOLEAN
      /\ UNCHANGED <<notices, against, midnights, glitches>>
  BY <1>0, <1>2, NoticeBegins
<1>5. asked' \in [Readers -> SUBSET Notices!Keys]
  BY <1>0, <1>3
<1>6. Notices!TypeOK'
  BY <1>0, <1>3, <1>4, <1>5 DEF Notices!TypeOK
<1>7. ~jostled' /\ glitches' = 0 => \A q \in Readers : wants[q] = asked[q]
  <2> SUFFICES ASSUME ~jostled', glitches' = 0, NEW q \in Readers PROVE wants[q] = asked[q]
    OBVIOUS
  <2>1. ~jostled /\ glitches = 0 /\ \A o \in Calls : errand[o].pc = "idle"
    BY <1>4
  <2> QED BY <1>0, <2>1 DEF Notices!PatchesKept, Notices!At
<1>8. Notices!PatchesKept'
  <2> SUFFICES ASSUME ~jostled', glitches' = 0, NEW q \in Readers
               PROVE  \/ wants'[q] = asked'[q]
                      \/ errand'[e].pc = "upsert" /\ errand'[e].who = q
    BY DEF Notices!PatchesKept, Notices!At
  <2>1. CASE q = r
    BY <1>2, <1>4, <2>1
  <2>2. CASE q # r
    BY <1>0, <1>3, <1>7, <2>2
  <2> QED BY <2>1, <2>2
<1>9. Notices!NobodyIsPestered' /\ \A n \in Notices!Written' : notices'[n].day <= midnights'
  BY <1>0, <1>4 DEF Notices!NobodyIsPestered, Notices!Written
<1>10. Notices!AnnouncementsArrive'
  <2>1. Notices!Told' = Notices!Told
    BY <1>4 DEF Notices!Told, Notices!Written
  <2> QED BY <1>0, <1>3, <1>4, <2>1 DEF Notices!AnnouncementsArrive
<1>11. Notices!ErrandOK(e)'
  <2>1. ~jostled' /\ glitches' = 0 => d.keys = asked'[r]
    BY <1>0, <1>2, <1>3, <1>7
  <2> QED BY <1>2, <1>4, <2>1 DEF Notices!ErrandOK, Notices!FansOut, Notices!At
<1>12. /\ errand'[e].pc # "idle" /\ (jostled => jostled')
       /\ jostled' \/ \A o \in Calls \ {e} : errand[o].pc = "idle"
  BY <1>2, <1>4
<1> QED BY <1>4, <1>6, <1>8, <1>9, <1>10, <1>11, <1>12, NoticeCall

LEMMA NoticeUpsert ==
  ASSUME Notices!NotificationsInv, NEW e \in Calls, Notices!UpsertPreferences(e)
  PROVE  Notices!NotificationsInv'
<1>0. /\ Notices!TypeOK /\ Notices!PatchesKept /\ Notices!NobodyIsPestered
      /\ Notices!AnnouncementsArrive /\ Notices!Alone /\ Notices!ErrandOK(e)
      /\ errand[e] \in Notices!Errand /\ wants \in [Readers -> SUBSET Notices!Keys]
      /\ \A n \in Notices!Written : notices[n].day <= midnights
  BY NoticeFacts DEF Notices!TypeOK
<1>1. /\ errand[e].pc = "upsert" /\ wants' = [wants EXCEPT ![errand[e].who] = errand[e].keys]
      /\ Notices!Return(e)
      /\ UNCHANGED <<notices, asked, against, audience, jostled, errands, midnights, glitches>>
  BY DEF Notices!UpsertPreferences, Notices!At, Notices!history
<1>2. /\ errand' \in [Calls -> Notices!Errand] /\ Notices!ErrandOK(e)'
      /\ \A o \in Calls \ {e} : errand'[o] = errand[o]
  BY <1>0, <1>1, NoticeReturns, NoticeIdleOK
<1>3. /\ errand[e].who \in Readers /\ errand[e].keys \in SUBSET Notices!Keys
      /\ ~jostled /\ glitches = 0 => errand[e].keys = asked[errand[e].who]
  BY <1>0, <1>1 DEF Notices!ErrandOK, Notices!Errand
<1>4. Notices!TypeOK'
  <2>1. wants' \in [Readers -> SUBSET Notices!Keys]
    BY <1>0, <1>1, <1>3
  <2> QED BY <1>0, <1>1, <1>2, <2>1 DEF Notices!TypeOK
<1>5. Notices!PatchesKept'
  <2> SUFFICES ASSUME ~jostled, glitches = 0, NEW q \in Readers PROVE wants'[q] = asked[q]
    BY <1>1 DEF Notices!PatchesKept
  <2>1. CASE q = errand[e].who
    BY <1>0, <1>1, <1>3, <2>1
  <2>2. CASE q # errand[e].who
    <3>1. \A o \in Calls : errand[o].pc = "upsert" => o = e
      BY <1>0, <1>1 DEF Notices!Alone, Notices!At
    <3>2. wants[q] = asked[q]
      BY <1>0, <2>2, <3>1 DEF Notices!PatchesKept, Notices!At
    <3> QED BY <1>0, <1>1, <2>2, <3>2
  <2> QED BY <2>1, <2>2
<1>6. Notices!NobodyIsPestered' /\ \A n \in Notices!Written' : notices'[n].day <= midnights'
  BY <1>0, <1>1 DEF Notices!NobodyIsPestered, Notices!Written
<1>7. Notices!AnnouncementsArrive'
  <2>1. Notices!Told' = Notices!Told
    BY <1>1 DEF Notices!Told, Notices!Written
  <2> QED BY <1>0, <1>1, <2>1 DEF Notices!AnnouncementsArrive
<1> QED BY <1>1, <1>2, <1>4, <1>5, <1>6, <1>7, NoticeCall

-----------------------------------------------------------------------------
(* Notifications: notices written, mailed and read; midnight               *)

(* A notice written: nobody else's is touched.                             *)
LEMMA NoticeWritten ==
  ASSUME Notices!NotificationsInv, NEW e \in Calls, NEW n \in Slips, Notices!InsertNotice(e, n)
  PROVE  /\ notices' \in [Slips -> Notices!Notice]
         /\ notices'[n].who = errand[e].who /\ notices'[n].kind = errand[e].kind
         /\ notices'[n].day = midnights
         /\ \A m \in Slips \ {n} : notices'[m] = notices[m]
         /\ n \notin Notices!Written /\ Notices!Written' = Notices!Written \union {n}
         /\ Notices!Told \subseteq Notices!Told'
         /\ errand[e].kind = "announcement" => errand[e].who \in Notices!Told'
<1> DEFINE c == [who |-> errand[e].who, kind |-> errand[e].kind, day |-> midnights,
                 read |-> FALSE,
                 mail |-> IF "marketing" \in errand[e].keys THEN "due" ELSE "none"]
<1>0. /\ notices \in [Slips -> Notices!Notice] /\ errand[e] \in Notices!Errand
      /\ errand[e].pc = "insert" /\ midnights \in 0..MaxDays /\ Notices!ErrandOK(e)
  BY NoticeFacts DEF Notices!TypeOK, Notices!InsertNotice, Notices!At
<1>1. errand[e].who \in Readers /\ errand[e].who # None
  BY <1>0 DEF Notices!ErrandOK
<1>2. /\ c \in Notices!Notice /\ c.who = errand[e].who /\ c.kind = errand[e].kind
      /\ c.day = midnights
  BY <1>0 DEF Notices!Notice, Notices!Errand
<1>3. notices' = [notices EXCEPT ![n] = c] /\ n \notin Notices!Written
  BY DEF Notices!InsertNotice
<1> HIDE DEF c
<1>4. /\ notices' \in [Slips -> Notices!Notice] /\ notices'[n] = c
      /\ \A m \in Slips \ {n} : notices'[m] = notices[m]
  BY <1>0, <1>2, <1>3
<1>5. Notices!Written' = Notices!Written \union {n}
  BY <1>1, <1>2, <1>4 DEF Notices!Written
<1>6. Notices!Told \subseteq Notices!Told'
  <2> SUFFICES ASSUME NEW r \in Notices!Told PROVE r \in Notices!Told'
    OBVIOUS
  <2>1. PICK m \in Notices!Written : notices[m].kind = "announcement" /\ notices[m].who = r
    BY DEF Notices!Told
  <2>2. m \in Slips /\ m # n
    BY <1>3 DEF Notices!Written
  <2>3. m \in Notices!Written' /\ notices'[m] = notices[m]
    BY <1>4, <1>5, <2>2
  <2> QED BY <2>1, <2>3 DEF Notices!Told
<1>7. errand[e].kind = "announcement" => errand[e].who \in Notices!Told'
  BY <1>2, <1>4, <1>5 DEF Notices!Told
<1> QED BY <1>2, <1>3, <1>4, <1>5, <1>6, <1>7

LEMMA NoticeInsert ==
  ASSUME Notices!NotificationsInv, NEW e \in Calls, NEW n \in Slips, Notices!InsertNotice(e, n)
  PROVE  Notices!NotificationsInv'
<1>0. /\ Notices!TypeOK /\ Notices!PatchesKept /\ Notices!NobodyIsPestered
      /\ Notices!AnnouncementsArrive /\ Notices!Alone /\ Notices!ErrandOK(e)
      /\ errand[e] \in Notices!Errand /\ midnights \in 0..MaxDays
      /\ glitches \in 0..MaxGlitches
      /\ audience \in [who : SUBSET Readers, over : BOOLEAN]
      /\ \A m \in Notices!Written : notices[m].day <= midnights
  BY NoticeFacts DEF Notices!TypeOK
<1>1. /\ errand[e].pc = "insert" /\ errand' = [errand EXCEPT ![e].pc = "next"]
      /\ against' = IF errand[e].kind \in wants[errand[e].who] THEN against
                    ELSE against \union {n}
      /\ UNCHANGED <<wants, asked, audience, jostled, errands, midnights, glitches>>
  BY DEF Notices!InsertNotice, Notices!At, Notices!NextRecipient
<1>2. /\ notices' \in [Slips -> Notices!Notice]
      /\ notices'[n].who = errand[e].who /\ notices'[n].kind = errand[e].kind
      /\ notices'[n].day = midnights
      /\ \A m \in Slips \ {n} : notices'[m] = notices[m]
      /\ n \notin Notices!Written /\ Notices!Written' = Notices!Written \union {n}
      /\ Notices!Told \subseteq Notices!Told'
      /\ errand[e].kind = "announcement" => errand[e].who \in Notices!Told'
  BY NoticeWritten
<1>3. /\ errand' \in [Calls -> Notices!Errand] /\ errand'[e].pc = "next"
      /\ errand'[e].kind = errand[e].kind /\ errand'[e].rest = errand[e].rest
      /\ \A o \in Calls \ {e} : errand'[o] = errand[o]
  BY <1>0, <1>1, NoticeGoes, NoticeIdle
<1>4. /\ errand[e].who \in Readers /\ (errand[e].kind = "streak" => errand[e].rest = {})
      /\ ~jostled => errand[e].kind \in wants[errand[e].who]
      /\ ~jostled /\ errand[e].kind = "streak" => Notices!RemindedToday(errand[e].who) = {}
  BY <1>0, <1>1 DEF Notices!ErrandOK
<1>5. Notices!TypeOK'
  <2>1. against' \in SUBSET Slips
    BY <1>0, <1>1 DEF Notices!TypeOK
  <2> QED BY <1>0, <1>1, <1>2, <1>3, <2>1 DEF Notices!TypeOK
<1>6. Notices!PatchesKept'
  <2> SUFFICES ASSUME ~jostled, glitches = 0, NEW q \in Readers
               PROVE  \/ wants'[q] = asked'[q]
                      \/ \E o \in Calls : errand'[o].pc = "upsert" /\ errand'[o].who = q
    BY <1>1 DEF Notices!PatchesKept, Notices!At
  <2>1. \/ wants[q] = asked[q]
        \/ \E o \in Calls : errand[o].pc = "upsert" /\ errand[o].who = q
    BY <1>0 DEF Notices!PatchesKept, Notices!At
  <2> QED BY <1>1, <1>3, <2>1
<1>7. Notices!NobodyIsPestered'
  <2> SUFFICES ASSUME ~jostled
               PROVE  /\ against' = {}
                      /\ \A m, o \in Notices!Written' :
                           notices'[m].kind = "streak" /\ m # o =>
                             <<notices'[m].who, notices'[m].kind, notices'[m].day>>
                               # <<notices'[o].who, notices'[o].kind, notices'[o].day>>
    BY <1>1 DEF Notices!NobodyIsPestered
  <2>1. against' = {}
    BY <1>0, <1>1, <1>4 DEF Notices!NobodyIsPestered
  <2> SUFFICES ASSUME NEW m \in Notices!Written', NEW o \in Notices!Written',
                      notices'[m].kind = "streak", m # o,
                      notices'[m].who = notices'[o].who, notices'[m].kind = notices'[o].kind,
                      notices'[m].day = notices'[o].day
               PROVE  FALSE
    BY <2>1
  <2>2. m \in Slips /\ o \in Slips /\ Notices!Written \subseteq Slips
    BY DEF Notices!Written
  <2>3. CASE m # n /\ o # n
    <3>1. m \in Notices!Written /\ o \in Notices!Written
      BY <1>2, <2>3
    <3>2. notices'[m] = notices[m] /\ notices'[o] = notices[o]
      BY <1>2, <2>2, <2>3
    <3> QED BY <1>0, <3>1, <3>2 DEF Notices!NobodyIsPestered
  <2>4. CASE m = n \/ o = n
    <3>1. PICK p \in {m, o} : p # n
      BY <2>4
    <3>2. p \in Notices!Written /\ notices'[p] = notices[p]
      BY <1>2, <2>2, <3>1
    <3>3. /\ notices'[p].who = errand[e].who /\ notices'[p].kind = errand[e].kind
          /\ notices'[p].day = midnights /\ errand[e].kind = "streak"
      BY <1>2, <2>4, <3>1
    <3>4. p \in Notices!RemindedToday(errand[e].who)
      BY <3>2, <3>3 DEF Notices!RemindedToday
    <3> QED BY <1>4, <3>3, <3>4
  <2> QED BY <2>3, <2>4
<1>8. \A m \in Notices!Written' : notices'[m].day <= midnights'
  <2> SUFFICES ASSUME NEW m \in Notices!Written' PROVE notices'[m].day <= midnights
    BY <1>1
  <2>1. CASE m = n
    BY <1>0, <1>2, <2>1
  <2>2. CASE m # n
    BY <1>0, <1>2, <2>2 DEF Notices!Written
  <2> QED BY <2>1, <2>2
<1>9. Notices!AnnouncementsArrive'
  <2> SUFFICES ASSUME audience.over, ~jostled
               PROVE  Notices!Cardinality(audience.who \ Notices!Told') <= glitches
    BY <1>1 DEF Notices!AnnouncementsArrive
  <2>1. Notices!Cardinality(audience.who \ Notices!Told) <= glitches
    BY <1>0 DEF Notices!AnnouncementsArrive
  <2>2. /\ audience.who \ Notices!Told \in SUBSET Readers
        /\ audience.who \ Notices!Told' \in SUBSET (audience.who \ Notices!Told)
        /\ audience.who \ Notices!Told' \in SUBSET Readers
    BY <1>0, <1>2
  <2>3. /\ Notices!Cardinality(audience.who \ Notices!Told')
             <= Notices!Cardinality(audience.who \ Notices!Told)
        /\ Notices!Cardinality(audience.who \ Notices!Told') \in Nat
        /\ Notices!Cardinality(audience.who \ Notices!Told) \in Nat
    BY <2>2, ReaderCount
  <2> QED BY <1>0, <2>1, <2>3
<1>10. ~jostled /\ errand[e].kind = "announcement" =>
         /\ ~audience.over /\ \A q \in audience.who : "announcement" \in wants[q]
         /\ Notices!Cardinality((audience.who \ Notices!Told') \ Notices!Pending(e)') <= glitches
  <2> SUFFICES ASSUME ~jostled, errand[e].kind = "announcement"
               PROVE  /\ ~audience.over /\ \A q \in audience.who : "announcement" \in wants[q]
                      /\ Notices!Cardinality((audience.who \ Notices!Told')
                                               \ Notices!Pending(e)') <= glitches
    OBVIOUS
  <2> DEFINE owed == (audience.who \ Notices!Told) \ Notices!Pending(e)
  <2> DEFINE after == (audience.who \ Notices!Told') \ Notices!Pending(e)'
  <2>1. Notices!FansOut(e)
    BY <1>1 DEF Notices!FansOut, Notices!At
  <2>2. /\ ~audience.over /\ \A q \in audience.who : "announcement" \in wants[q]
        /\ Notices!Cardinality(owed) <= glitches
    BY <1>0, <2>1 DEF Notices!ErrandOK
  <2>3. Notices!Pending(e) \subseteq Notices!Pending(e)' \union Notices!Told'
    BY <1>1, <1>2, <1>3 DEF Notices!Pending
  <2>4. after \in SUBSET owed /\ owed \in SUBSET Readers /\ after \in SUBSET Readers
    BY <1>0, <1>2, <2>3
  <2> HIDE DEF owed, after
  <2>5. /\ Notices!Cardinality(after) <= Notices!Cardinality(owed)
        /\ Notices!Cardinality(after) \in Nat /\ Notices!Cardinality(owed) \in Nat
    BY <2>4, ReaderCount
  <2>6. Notices!Cardinality(after) <= glitches
    BY <1>0, <2>2, <2>5
  <2> QED BY <2>2, <2>6 DEF after
<1>11. Notices!ErrandOK(e)'
  BY <1>1, <1>3, <1>4, <1>10 DEF Notices!ErrandOK, Notices!FansOut, Notices!At
<1> QED BY <1>1, <1>3, <1>5, <1>6, <1>7, <1>8, <1>9, <1>11, NoticeCall

(* Notices may be mailed, marked read or grow old.                         *)
LEMMA NoticeKept ==
  ASSUME Notices!NotificationsInv, Notices!TypeOK',
         UNCHANGED <<wants, errand, asked, against, audience, jostled, errands>>,
         \A n \in Slips : /\ notices'[n].who = notices[n].who
                          /\ notices'[n].kind = notices[n].kind
                          /\ notices'[n].day = notices[n].day,
         midnights <= midnights', glitches <= glitches'
  PROVE  Notices!NotificationsInv'
<1>0. /\ Notices!TypeOK /\ Notices!PatchesKept /\ Notices!NobodyIsPestered
      /\ Notices!AnnouncementsArrive /\ Notices!Alone
      /\ \A e \in Calls : Notices!ErrandOK(e)
      /\ audience \in [who : SUBSET Readers, over : BOOLEAN]
      /\ midnights \in Nat /\ glitches \in Nat /\ midnights' \in Nat /\ glitches' \in Nat
      /\ \A n \in Slips : notices[n].day \in Nat
      /\ \A m \in Notices!Written : notices[m].day <= midnights
  <2>1. \A n \in Slips : notices[n] \in Notices!Notice
    BY NoticeFacts
  <2>2. \A n \in Slips : notices[n].day \in Nat
    BY <2>1 DEF Notices!Notice
  <2>3. midnights' \in Nat /\ glitches' \in Nat
    BY DEF Notices!TypeOK
  <2> QED BY <2>2, <2>3, NoticeFacts
<1>1. Notices!Written' = Notices!Written /\ Notices!Told' = Notices!Told
      /\ Notices!Written \subseteq Slips
  BY DEF Notices!Written, Notices!Told
<1>2. Notices!PatchesKept'
  BY <1>0 DEF Notices!PatchesKept, Notices!At
<1>3. Notices!NobodyIsPestered'
  BY <1>0, <1>1 DEF Notices!NobodyIsPestered
<1>4. \A m \in Notices!Written' : notices'[m].day <= midnights'
  BY <1>0, <1>1
<1>5. \A S \in SUBSET Readers : Notices!Cardinality(S) <= glitches
                                  => Notices!Cardinality(S) <= glitches'
  BY <1>0, ReaderCount
<1>6. Notices!AnnouncementsArrive'
  <2>1. audience.who \ Notices!Told \in SUBSET Readers
    BY <1>0
  <2> QED BY <1>0, <1>1, <1>5, <2>1 DEF Notices!AnnouncementsArrive
<1>7. Notices!Alone'
  BY <1>0 DEF Notices!Alone, Notices!At
<1>8. ASSUME NEW r PROVE Notices!RemindedToday(r) = {} => Notices!RemindedToday(r)' = {}
  <2> SUFFICES ASSUME Notices!RemindedToday(r) = {}, NEW n \in Notices!Written,
                      notices'[n].who = r, notices'[n].kind = "streak",
                      notices'[n].day = midnights'
               PROVE  FALSE
    BY <1>1 DEF Notices!RemindedToday
  <2>1. /\ n \in Slips /\ notices[n].who = r /\ notices[n].kind = "streak"
        /\ notices[n].day = midnights' /\ notices[n].day <= midnights
    BY <1>0, <1>1
  <2>2. notices[n].day = midnights
    BY <1>0, <2>1
  <2> QED BY <2>1, <2>2 DEF Notices!RemindedToday
<1>9. ASSUME NEW e \in Calls PROVE Notices!ErrandOK(e)'
  <2>1. /\ Notices!ErrandOK(e) /\ Notices!Pending(e)' = Notices!Pending(e)
        /\ Notices!FansOut(e)' = Notices!FansOut(e) /\ errand'[e] = errand[e]
    BY <1>0 DEF Notices!Pending, Notices!FansOut, Notices!At
  <2>2. (audience.who \ Notices!Told) \ Notices!Pending(e) \in SUBSET Readers
    BY <1>0
  <2>3. ~jostled /\ Notices!FansOut(e) =>
             /\ ~audience'.over /\ \A r \in audience'.who : "announcement" \in wants'[r]
             /\ Notices!Cardinality((audience'.who \ Notices!Told') \ Notices!Pending(e)')
                  <= glitches'
    BY <1>1, <1>5, <2>1, <2>2 DEF Notices!ErrandOK
  <2>4. ~jostled =>
          /\ errand[e].pc = "upsert" /\ glitches' = 0 => errand[e].keys = asked[errand[e].who]
          /\ errand[e].pc = "insert" => errand[e].kind \in wants[errand[e].who]
          /\ errand[e].pc \in {"prefs", "insert"} /\ errand[e].kind = "streak"
               => Notices!RemindedToday(errand[e].who) = {}
    <3>1. glitches' = 0 => glitches = 0
      BY <1>0
    <3> QED BY <2>1, <3>1 DEF Notices!ErrandOK
  <2>5. errand[e].pc \in {"prefs", "insert"} /\ errand[e].kind = "streak" /\ ~jostled
          => Notices!RemindedToday(errand[e].who)' = {}
    BY <1>8, <2>4
  <2> QED BY <2>1, <2>3, <2>4, <2>5 DEF Notices!ErrandOK, Notices!RemindedToday
<1> QED BY <1>2, <1>3, <1>4, <1>6, <1>7, <1>9 DEF Notices!NotificationsInv

LEMMA NoticeMailed ==
  ASSUME Notices!NotificationsInv, NEW n \in Slips, Notices!SendNotificationEmail(n)
  PROVE  Notices!NotificationsInv'
<1>0. /\ Notices!TypeOK /\ glitches \in 0..MaxGlitches /\ midnights \in Nat
      /\ notices \in [Slips -> Notices!Notice]
  BY NoticeFacts DEF Notices!TypeOK
<1>1. PICK s \in {"sent", "lost"} : notices' = [notices EXCEPT ![n].mail = s]
  BY DEF Notices!SendNotificationEmail
<1>2. /\ UNCHANGED <<wants, errand, asked, against, audience, jostled, errands, midnights>>
      /\ glitches' \in 0..MaxGlitches /\ glitches <= glitches'
  BY <1>0 DEF Notices!SendNotificationEmail
<1> DEFINE k(c) == [c EXCEPT !.mail = s]
<1>3. ASSUME NEW c \in Notices!Notice
      PROVE  k(c) \in Notices!Notice /\ k(c).who = c.who /\ k(c).kind = c.kind /\ k(c).day = c.day
  BY DEF Notices!Notice
<1>4. notices' = [notices EXCEPT ![n] = k(notices[n])]
  BY <1>0, <1>1
<1> HIDE DEF k
<1>5. /\ notices' \in [Slips -> Notices!Notice]
      /\ \A m \in Slips : /\ notices'[m].who = notices[m].who
                          /\ notices'[m].kind = notices[m].kind
                          /\ notices'[m].day = notices[m].day
  <2> SUFFICES ASSUME NEW m \in Slips
               PROVE  /\ notices'[m] \in Notices!Notice /\ notices'[m].who = notices[m].who
                      /\ notices'[m].kind = notices[m].kind /\ notices'[m].day = notices[m].day
    BY <1>0, <1>4
  <2>1. notices[m] \in Notices!Notice
    BY <1>0
  <2>2. notices'[m] = IF m = n THEN k(notices[m]) ELSE notices[m]
    BY <1>0, <1>4
  <2> QED BY <1>3, <2>1, <2>2
<1>6. Notices!TypeOK'
  BY <1>0, <1>2, <1>5 DEF Notices!TypeOK
<1> QED BY <1>0, <1>2, <1>5, <1>6, NoticeKept

LEMMA NoticeRead ==
  ASSUME Notices!NotificationsInv, NEW r \in Readers, NEW ids, Notices!MarkRead(r, ids)
  PROVE  Notices!NotificationsInv'
<1>0. /\ Notices!TypeOK /\ glitches \in Nat /\ midnights \in Nat
      /\ notices \in [Slips -> Notices!Notice]
  BY NoticeFacts DEF Notices!TypeOK
<1> DEFINE k(c) == [c EXCEPT !.read = TRUE]
<1>1. PICK own : notices' = [n \in Slips |-> IF n \in own THEN k(notices[n]) ELSE notices[n]]
  BY DEF Notices!MarkRead
<1>2. ASSUME NEW c \in Notices!Notice
      PROVE  k(c) \in Notices!Notice /\ k(c).who = c.who /\ k(c).kind = c.kind /\ k(c).day = c.day
  BY DEF Notices!Notice
<1> HIDE DEF k
<1>3. /\ notices' \in [Slips -> Notices!Notice]
      /\ \A m \in Slips : /\ notices'[m].who = notices[m].who
                          /\ notices'[m].kind = notices[m].kind
                          /\ notices'[m].day = notices[m].day
  <2> SUFFICES ASSUME NEW m \in Slips
               PROVE  /\ notices'[m] \in Notices!Notice /\ notices'[m].who = notices[m].who
                      /\ notices'[m].kind = notices[m].kind /\ notices'[m].day = notices[m].day
    BY <1>1
  <2>1. notices[m] \in Notices!Notice
    BY <1>0
  <2>2. notices'[m] = IF m \in own THEN k(notices[m]) ELSE notices[m]
    BY <1>1
  <2> QED BY <1>2, <2>1, <2>2
<1>4. UNCHANGED <<wants, errand, asked, against, audience, jostled, errands, midnights, glitches>>
  BY DEF Notices!MarkRead, Notices!history
<1>5. Notices!TypeOK'
  BY <1>0, <1>3, <1>4 DEF Notices!TypeOK
<1>6. midnights <= midnights' /\ glitches <= glitches'
  BY <1>0, <1>4
<1> QED BY <1>3, <1>4, <1>5, <1>6, NoticeKept

LEMMA NoticeMidnight ==
  ASSUME Notices!NotificationsInv, Notices!Midnight
  PROVE  Notices!NotificationsInv'
<1>0. Notices!TypeOK /\ glitches \in Nat /\ midnights \in 0..MaxDays
  BY NoticeFacts
<1>1. /\ UNCHANGED <<wants, notices, errand, asked, against, audience, jostled, errands, glitches>>
      /\ midnights < MaxDays /\ midnights' = midnights + 1
  BY DEF Notices!Midnight
<1>2. midnights' \in 0..MaxDays /\ midnights <= midnights' /\ glitches <= glitches'
  BY <1>0, <1>1
<1>3. Notices!TypeOK'
  BY <1>0, <1>1, <1>2 DEF Notices!TypeOK
<1> QED BY <1>1, <1>2, <1>3, NoticeKept

LEMMA NoticeFrame ==
  ASSUME Notices!NotificationsInv, UNCHANGED noticeVars
  PROVE  Notices!NotificationsInv'
<1>0. Notices!TypeOK /\ glitches \in Nat /\ midnights \in Nat
  BY NoticeFacts
<1>1. UNCHANGED <<wants, notices, errand, asked, against, audience, jostled, errands, midnights,
                  glitches>>
  BY DEF noticeVars
<1>2. Notices!TypeOK' /\ midnights <= midnights' /\ glitches <= glitches'
  BY <1>0, <1>1 DEF Notices!TypeOK
<1> QED BY <1>1, <1>2, NoticeKept

LEMMA NoticeStep ==
  ASSUME Notices!NotificationsInv, Notices!Next
  PROVE  Notices!NotificationsInv'
<1>1. ASSUME NEW e \in Calls, NEW r \in Readers, NEW k \in Notices!Keys,
             \/ Notices!UpdatePreferences(e, r, {k}, {})
             \/ Notices!UpdatePreferences(e, r, {}, {k})
      PROVE  Notices!NotificationsInv'
  BY <1>1, NoticeUpdate
<1>2. ASSUME NEW e \in Calls, NEW r \in Readers, Notices!Unsubscribe(e, r)
      PROVE  Notices!NotificationsInv'
  BY <1>2, NoticeUpdate DEF Notices!Unsubscribe
<1>3. ASSUME Notices!NotificationRequest PROVE Notices!NotificationsInv'
  BY <1>1, <1>2, <1>3, NoticeRemind, NoticeAnnounce, NoticeRead DEF Notices!NotificationRequest
<1>4. ASSUME NEW e \in Calls, Notices!ErrandStep(e) PROVE Notices!NotificationsInv'
  BY <1>4, NoticeUpsert, NoticeTake, NoticeReadPreferences, NoticeInsert, NoticeInsertFails,
     NoticeCount DEF Notices!ErrandStep
<1> QED BY <1>3, <1>4, NoticeMidnight, NoticeCrash, NoticeMailed DEF Notices!Next

(* As long as calls of a reader do not overlap, preferences lose no patch  *)
(* (updatePreferences), nobody gets a notice of a kind switched off or two *)
(* streak reminders a day (createNotification, maybeSendStreakReminder),   *)
(* and an announcement that ran to its end reached all who want it but one *)
(* per failed insert (notifyAnnouncement): for any readers, any calls.     *)
THEOREM NobodyPestered == Spec => []NotificationsInv
<1>1. Init => Notices!NotificationsInv
  BY NoticeInit DEF Init
<1>2. Notices!NotificationsInv /\ [Next]_vars => Notices!NotificationsInv'
  BY NoticeStep, NoticeFrame DEF Next, Only, vars
<1>3. Spec => []Notices!NotificationsInv
  BY <1>1, <1>2, PTL DEF Spec
<1> QED BY <1>3, PTL DEF NotificationsInv

-----------------------------------------------------------------------------
(* Activity: the streak.  Smaller-than is well founded on the naturals, so *)
(* a set of them has a least element; it stands in for an induction: a run *)
(* that is counted wrong somewhere is counted wrong at a first day.        *)

LEMMA LessThanWellFounded == IsWellFoundedOn({p \in Nat \X Nat : p[1] < p[2]}, Nat)
BY NatLessThanWellFounded DEF OpToRel

LEMMA LeastNumber ==
  ASSUME NEW T \in SUBSET Nat, T # {}
  PROVE  \E n \in T : \A m \in T : n <= m
<1> DEFINE R == {p \in Nat \X Nat : p[1] < p[2]}
<1>1. IsWellFoundedOn(R, Nat)
  BY LessThanWellFounded
<1>2. ASSUME NEW m \in Nat, NEW n \in Nat, m < n PROVE <<m, n>> \in R
  BY <1>2
<1> HIDE DEF R
<1>3. PICK n \in T : \A m \in T : ~(<<m, n>> \in R)
  BY <1>1, WFMin
<1>4. ASSUME NEW m \in T PROVE n <= m
  <2>1. m \in Nat /\ n \in Nat
    OBVIOUS
  <2>2. ~(m < n)
    BY <1>2, <1>3, <2>1
  <2> QED BY <2>1, <2>2
<1> QED BY <1>4

(* How far back the days of S go from d without a gap.                     *)
RunBack(S, d) == CHOOSE n \in Nat : d - n \notin S /\ \A k \in Nat : k < n => d - k \in S

LEMMA RunBackIs ==
  ASSUME NEW S \in SUBSET Nat, NEW d \in Nat \union {-1}
  PROVE  /\ RunBack(S, d) \in Nat /\ RunBack(S, d) <= d + 1
         /\ d - RunBack(S, d) \notin S
         /\ \A k \in Nat : k < RunBack(S, d) => d - k \in S
<1> DEFINE T == {n \in Nat : d - n \notin S}
<1>1. d + 1 \in T
  OBVIOUS
<1>2. PICK n \in T : \A m \in T : n <= m
  BY <1>1, LeastNumber
<1>3. n \in Nat /\ d - n \notin S /\ \A k \in Nat : k < n => d - k \in S
  BY <1>2
<1>4. /\ RunBack(S, d) \in Nat /\ d - RunBack(S, d) \notin S
      /\ \A k \in Nat : k < RunBack(S, d) => d - k \in S
  BY <1>3 DEF RunBack
<1>5. RunBack(S, d) <= d + 1
  <2> SUFFICES ASSUME d + 1 < RunBack(S, d) PROVE FALSE
    BY <1>4
  <2>1. d + 1 \in Nat /\ d - (d + 1) \in S
    BY <1>4
  <2> QED BY <2>1
<1> QED BY <1>4, <1>5

LEMMA RunBackSteps ==
  ASSUME NEW S \in SUBSET Nat, NEW d \in Nat \union {-1}
  PROVE  RunBack(S, d) = IF d \in S THEN 1 + RunBack(S, d - 1) ELSE 0
<1>1. /\ RunBack(S, d) \in Nat /\ d - RunBack(S, d) \notin S
      /\ \A k \in Nat : k < RunBack(S, d) => d - k \in S
  BY RunBackIs
<1>2. CASE d \notin S
  <2>1. ~(0 < RunBack(S, d))
    BY <1>1, <1>2
  <2> QED BY <1>1, <1>2, <2>1
<1>3. CASE d \in S
  <2>1. d - 1 \in Nat \union {-1}
    BY <1>3
  <2>2. /\ RunBack(S, d - 1) \in Nat /\ (d - 1) - RunBack(S, d - 1) \notin S
        /\ \A k \in Nat : k < RunBack(S, d - 1) => (d - 1) - k \in S
    BY <2>1, RunBackIs
  <2> DEFINE r == RunBack(S, d)
             q == RunBack(S, d - 1)
  <2> HIDE DEF r, q
  <2>3. r \in Nat /\ d - r \notin S /\ \A k \in Nat : k < r => d - k \in S
    BY <1>1 DEF r
  <2>4. q \in Nat /\ (d - 1) - q \notin S /\ \A k \in Nat : k < q => (d - 1) - k \in S
    BY <2>2 DEF q
  <2>5. ~(q + 1 < r)
    <3> SUFFICES ASSUME q + 1 < r PROVE FALSE
      OBVIOUS
    <3>1. d - (q + 1) \in S
      BY <2>3, <2>4
    <3>2. d - (q + 1) = (d - 1) - q
      BY <2>4
    <3> QED BY <2>4, <3>1, <3>2
  <2>6. r # 0
    BY <1>3, <2>3
  <2>7. ~(r < q + 1)
    <3> SUFFICES ASSUME r < q + 1 PROVE FALSE
      OBVIOUS
    <3>1. r - 1 \in Nat /\ r - 1 < q
      BY <2>3, <2>4, <2>6
    <3>2. (d - 1) - (r - 1) \in S
      BY <2>4, <3>1
    <3>3. (d - 1) - (r - 1) = d - r
      BY <2>3
    <3> QED BY <2>3, <3>2, <3>3
  <2>8. r = 1 + q
    BY <2>3, <2>4, <2>5, <2>7
  <2> QED BY <1>3, <2>8 DEF r, q
<1> QED BY <1>2, <1>3

(* The walk of computeActiveStreakDays, day by day, counts that run.       *)
Walk(S, last) ==
  CHOOSE g : g = [d \in (0 - 1)..last |-> IF d \in S THEN 1 + g[d - 1] ELSE 0]

LEMMA WalkCounts ==
  ASSUME NEW last \in Nat, NEW S \in SUBSET Nat
  PROVE  \A d \in (0 - 1)..last : Walk(S, last)[d] = RunBack(S, d)
<1> DEFINE walk == Walk(S, last)
<1> DEFINE F == [d \in (0 - 1)..last |-> RunBack(S, d)]
<1>1. F = [d \in (0 - 1)..last |-> IF d \in S THEN 1 + F[d - 1] ELSE 0]
  <2> SUFFICES ASSUME NEW d \in (0 - 1)..last
               PROVE  RunBack(S, d) = IF d \in S THEN 1 + F[d - 1] ELSE 0
    OBVIOUS
  <2>1. d \in Nat \union {-1} /\ (d \in S => d - 1 \in (0 - 1)..last)
    OBVIOUS
  <2> QED BY <2>1, RunBackSteps
<1>2. walk = [d \in (0 - 1)..last |-> IF d \in S THEN 1 + walk[d - 1] ELSE 0]
  BY <1>1 DEF Walk
<1> HIDE DEF walk
<1>3. \A d \in (0 - 1)..last : d \in Nat \union {-1}
  OBVIOUS
<1>4. \A d \in (0 - 1)..last : walk[d] = IF d \in S THEN 1 + walk[d - 1] ELSE 0
  BY <1>2
<1> HIDE DEF F
<1> DEFINE Wrong == {n \in Nat : n - 1 \in (0 - 1)..last /\ walk[n - 1] # RunBack(S, n - 1)}
<1>5. Wrong = {}
  <2> SUFFICES ASSUME Wrong # {} PROVE FALSE
    OBVIOUS
  <2>1. PICK n \in Wrong : \A m \in Wrong : n <= m
    BY LeastNumber
  <2>2. /\ n \in Nat /\ n - 1 \in (0 - 1)..last /\ walk[n - 1] # RunBack(S, n - 1)
    OBVIOUS
  <2>3. walk[n - 1] = IF n - 1 \in S THEN 1 + walk[(n - 1) - 1] ELSE 0
    BY <1>4, <2>2
  <2>4. RunBack(S, n - 1) = IF n - 1 \in S THEN 1 + RunBack(S, (n - 1) - 1) ELSE 0
    BY <1>3, <2>2, RunBackSteps
  <2>5. n - 1 \in S /\ walk[(n - 1) - 1] # RunBack(S, (n - 1) - 1)
    BY <2>2, <2>3, <2>4
  <2>6. n - 1 \in Nat /\ (n - 1) - 1 \in (0 - 1)..last
    BY <2>2, <2>5
  <2>7. n - 1 \in Wrong
    BY <2>5, <2>6
  <2> HIDE DEF Wrong
  <2>8. n <= n - 1
    BY <2>1, <2>7
  <2> QED BY <2>2, <2>8
<1>6. ASSUME NEW d \in (0 - 1)..last PROVE walk[d] = RunBack(S, d)
  <2>1. d + 1 \in Nat /\ (d + 1) - 1 = d
    OBVIOUS
  <2> QED BY <1>5, <2>1
<1>7. \A d \in (0 - 1)..last : walk[d] = RunBack(S, d)
  BY <1>6
<1> QED BY <1>7 DEF walk

(* Days and today as they may be.                                          *)
LEMMA SeenFacts ==
  ASSUME Learner!TypeOK
  PROVE  /\ today \in 0..LastDay /\ Learner!Seen(days) \in SUBSET (0..LastDay)
         /\ Learner!Anchor(days) = IF today \in Learner!Seen(days) THEN today ELSE today - 1
         /\ Learner!Anchor(days) \in (0 - 1)..LastDay
<1>1. today \in 0..LastDay /\ days \in SUBSET (0..LastDay)
  BY DEF Learner!TypeOK
<1>2. Learner!Seen(days) \in SUBSET (0..LastDay)
  BY <1>1 DEF Learner!Seen
<1>3. Learner!Anchor(days) = IF today \in Learner!Seen(days) THEN today ELSE today - 1
  BY DEF Learner!Anchor
<1> QED BY <1>1, <1>2, <1>3

LEMMA StreakCounts ==
  ASSUME Learner!TypeOK
  PROVE  Learner!StreakOf(days) = RunBack(Learner!Seen(days), Learner!Anchor(days))
<1> DEFINE walk[d \in (0 - 1)..LastDay] ==
             IF d \in Learner!Seen(days) THEN 1 + walk[d - 1] ELSE 0
<1>1. Learner!StreakOf(days) = walk[Learner!Anchor(days)]
  BY DEF Learner!StreakOf
<1>2. walk = Walk(Learner!Seen(days), LastDay)
  BY DEF Walk
<1> HIDE DEF walk
<1>3. Learner!Seen(days) \in SUBSET Nat /\ Learner!Anchor(days) \in (0 - 1)..LastDay
  BY SeenFacts
<1>4. \A d \in (0 - 1)..LastDay : walk[d] = RunBack(Learner!Seen(days), d)
  BY <1>2, <1>3, WalkCounts
<1> QED BY <1>1, <1>3, <1>4

(* No run of active days up to today or yesterday is longer.               *)
LEMMA RunIsLongest ==
  ASSUME NEW S \in SUBSET (0..LastDay), NEW t \in 0..LastDay, NEW a,
         a = IF t \in S THEN t ELSE t - 1,
         NEW n \in Nat, NEW last \in {t, t - 1}, (last - n + 1)..last \subseteq S
  PROVE  n <= RunBack(S, a)
<1> DEFINE r == RunBack(S, a)
<1>1. a \in Nat \union {-1} /\ S \in SUBSET Nat
  OBVIOUS
<1>2. RunBack(S, a) \in Nat /\ a - RunBack(S, a) \notin S
  BY <1>1, RunBackIs
<1>3. r \in Nat /\ a - r \notin S
  BY <1>2
<1> HIDE DEF r
<1> SUFFICES ASSUME r < n PROVE FALSE
  BY <1>3 DEF r
<1>4. last \in S
  BY <1>3
<1>5. CASE last = a
  <2>1. a - r \in (last - n + 1)..last
    BY <1>1, <1>3, <1>5
  <2> QED BY <1>3, <2>1
<1>6. CASE last # a
  <2>1. last = t - 1 /\ a = t /\ t \in S
    BY <1>4, <1>6
  <2>2. r # 0
    BY <1>3, <2>1
  <2>3. a - r \in (last - n + 1)..last
    BY <1>3, <2>1, <2>2
  <2> QED BY <1>3, <2>3
<1> QED BY <1>5, <1>6

LEMMA StreakDue == Learner!TypeOK => Learner!StreakIsDue
<1> SUFFICES ASSUME Learner!TypeOK PROVE Learner!StreakIsDue
  OBVIOUS
<1> DEFINE S == Learner!Seen(days)
           a == Learner!Anchor(days)
           r == RunBack(S, a)
           Runs == {n \in 0..(LastDay + 1) :
                      \E last \in {today, today - 1} : (last - n + 1)..last \subseteq S}
<1>1. /\ today \in 0..LastDay /\ S \in SUBSET (0..LastDay)
      /\ a = IF today \in S THEN today ELSE today - 1
  BY SeenFacts
<1> HIDE DEF S, a
<1>2. a \in Nat \union {-1} /\ S \in SUBSET Nat /\ a \in {today, today - 1} /\ a <= LastDay
  BY <1>1
<1>3. r \in Nat /\ r <= a + 1 /\ \A k \in Nat : k < r => a - k \in S
  BY <1>2, RunBackIs
<1> HIDE DEF r
<1>4. r \in Runs
  <2>1. ASSUME NEW x \in (a - r + 1)..a PROVE x \in S
    <3>1. a - x \in Nat /\ a - x < r /\ a - (a - x) = x
      BY <1>2, <1>3
    <3> QED BY <1>3, <3>1
  <2> QED BY <1>2, <1>3, <2>1
<1>5. ASSUME NEW n \in Runs PROVE n \in Nat /\ n <= r
  <2>1. PICK last \in {today, today - 1} : (last - n + 1)..last \subseteq S
    OBVIOUS
  <2>2. n <= RunBack(S, a)
    BY <1>1, <2>1, RunIsLongest
  <2> QED BY <2>2 DEF r
<1> HIDE DEF Runs
<1>6. Learner!Max(Runs) = r
  <2>1. \A y \in Runs : r >= y
    BY <1>3, <1>5
  <2>2. \A x \in Runs : (\A y \in Runs : x >= y) => x = r
    BY <1>3, <1>4, <1>5
  <2>3. Learner!Max(Runs) \in Runs /\ \A y \in Runs : Learner!Max(Runs) >= y
    BY <1>4, <2>1 DEF Learner!Max
  <2> QED BY <2>2, <2>3
<1>7. Learner!StreakOf(days) = r
  BY StreakCounts DEF r, S, a
<1> QED BY <1>6, <1>7 DEF Learner!StreakIsDue, Runs, S

-----------------------------------------------------------------------------
(* Activity: the streams                                                   *)

(* What the streams rest on; the rest of the invariant follows.            *)
StreamsOK ==
  /\ Learner!TypeOK /\ named <= Learner!Cardinality(Learner!Opened)
  /\ \A t \in Tabs : Learner!TabOK(t)

LEMMA SameLearnerCount == \A S : Learner!Cardinality(S) = Cardinality(S)
BY DEF Cardinality, Learner!Cardinality

LEMMA TabCount ==
  ASSUME NEW S \in SUBSET Tabs
  PROVE  /\ Learner!Cardinality(S) \in Nat /\ Learner!Cardinality(Tabs) \in Nat
         /\ Learner!Cardinality(S) <= Learner!Cardinality(Tabs)
         /\ \A t \in Tabs \ S : Learner!Cardinality(S \union {t}) = Learner!Cardinality(S) + 1
<1>1. IsFiniteSet(S) /\ IsFiniteSet(Tabs)
  BY FS_Subset
<1>2. Cardinality(S) \in Nat /\ Cardinality(Tabs) \in Nat
  BY <1>1, FS_CardinalityType
<1>3. Cardinality(S) <= Cardinality(Tabs)
  BY <1>1, FS_Subset
<1>4. \A t \in Tabs \ S : Cardinality(S \union {t}) = Cardinality(S) + 1
  BY <1>1, FS_AddElement
<1> QED BY <1>2, <1>3, <1>4, SameLearnerCount

LEMMA GreatestNumber ==
  ASSUME NEW S \in SUBSET Nat, S # {}, NEW K \in Nat, \A m \in S : m <= K
  PROVE  \E x \in S : \A y \in S : y <= x
<1> DEFINE T == {n \in Nat : K - n \in S}
<1>1. \A m \in S : K - m \in T
  <2> SUFFICES ASSUME NEW m \in S PROVE K - m \in T
    OBVIOUS
  <2>1. K - m \in Nat /\ K - (K - m) = m
    OBVIOUS
  <2> QED BY <2>1
<1>2. T # {} /\ T \in SUBSET Nat
  BY <1>1
<1> HIDE DEF T
<1>3. PICK n \in T : \A m \in T : n <= m
  BY <1>2, LeastNumber
<1>4. n \in Nat /\ K - n \in S
  BY <1>3 DEF T
<1>5. ASSUME NEW y \in S PROVE y <= K - n
  <2>1. n <= K - y /\ y \in Nat
    BY <1>1, <1>3
  <2> QED BY <1>4, <2>1
<1> QED BY <1>4, <1>5

LEMMA StreamFacts ==
  ASSUME StreamsOK
  PROVE  /\ Learner!TypeOK /\ Learner!Opened \in SUBSET Tabs
         /\ Learner!Cardinality(Tabs) \in Nat /\ Learner!Cardinality(Learner!Opened) \in Nat
         /\ Learner!Cardinality(Learner!Opened) <= Learner!Cardinality(Tabs)
         /\ named \in Nat /\ named <= Learner!Cardinality(Learner!Opened)
         /\ sets \in [1..Learner!Cardinality(Tabs) -> SUBSET Tabs]
         /\ DOMAIN sets = 1..Learner!Cardinality(Tabs)
         /\ tab \in [Tabs -> Learner!Conn] /\ twice \in BOOLEAN
         /\ \A t \in Tabs : /\ Learner!TabOK(t) /\ tab[t] \in Learner!Conn
                            /\ tab[t].set \in Nat
                            /\ tab[t].set <= Learner!Cardinality(Learner!Opened)
                            /\ tab[t].state # "closed" => tab[t].set \in DOMAIN sets
<1>1. /\ Learner!TypeOK /\ Learner!Opened \in SUBSET Tabs
      /\ named <= Learner!Cardinality(Learner!Opened)
      /\ \A t \in Tabs : Learner!TabOK(t)
  BY DEF StreamsOK, Learner!Opened
<1>2. /\ Learner!Cardinality(Tabs) \in Nat /\ Learner!Cardinality(Learner!Opened) \in Nat
      /\ Learner!Cardinality(Learner!Opened) <= Learner!Cardinality(Tabs)
  BY <1>1, TabCount
<1>3. /\ sets \in [1..Learner!Cardinality(Tabs) -> SUBSET Tabs]
      /\ named \in 0..Learner!Cardinality(Tabs) /\ twice \in BOOLEAN
      /\ tab \in [Tabs -> Learner!Conn]
  BY <1>1 DEF Learner!TypeOK
<1>4. DOMAIN sets = 1..Learner!Cardinality(Tabs) /\ named \in Nat
  BY <1>2, <1>3
<1>5. ASSUME NEW t \in Tabs
      PROVE  /\ tab[t] \in Learner!Conn
             /\ tab[t].set \in Nat
             /\ tab[t].set <= Learner!Cardinality(Learner!Opened)
             /\ tab[t].state # "closed" => tab[t].set \in DOMAIN sets
  <2>1. tab[t] \in Learner!Conn
    BY <1>3
  <2>2. tab[t].set \in 0..Learner!Cardinality(Tabs)
    BY <2>1 DEF Learner!Conn
  <2>3. /\ tab[t].set <= Learner!Cardinality(Learner!Opened)
        /\ tab[t].state # "closed" => tab[t].set # 0
    BY <1>1 DEF Learner!TabOK
  <2> QED BY <1>2, <1>4, <2>1, <2>2, <2>3
<1> QED BY <1>1, <1>2, <1>3, <1>4, <1>5

LEMMA StreamsSuffice == StreamsOK => Learner!ActivityInv
<1> SUFFICES ASSUME StreamsOK PROVE Learner!ActivityInv
  OBVIOUS
<1>1. Learner!OpenTabsHear
  <2> SUFFICES ASSUME ~twice, NEW t \in Tabs, tab[t].state = "open"
               PROVE  named # 0 /\ t \in sets[named]
    BY DEF Learner!OpenTabsHear
  <2>1. Learner!TabOK(t) /\ tab[t].set \in DOMAIN sets
    BY StreamFacts
  <2> QED BY <2>1 DEF Learner!TabOK
<1>2. Learner!NoneLeft
  BY StreamFacts DEF Learner!NoneLeft, Learner!TabOK
<1>3. Learner!TypeOK /\ Learner!StreakIsDue
  BY StreakDue DEF StreamsOK
<1> QED BY <1>1, <1>2, <1>3 DEF Learner!ActivityInv, StreamsOK

LEMMA StreamsInit == Learner!Init => StreamsOK
<1> SUFFICES ASSUME Learner!Init PROVE StreamsOK
  OBVIOUS
<1>1. /\ today = 0 /\ days = {} /\ inserts = {} /\ beat = [b \in Beats |-> "idle"]
      /\ sets = [s \in 1..Learner!Cardinality(Tabs) |-> {}] /\ named = 0
      /\ tab = [t \in Tabs |-> [state |-> "closed", set |-> 0]] /\ twice = FALSE
  BY DEF Learner!Init
<1>2. Learner!Cardinality(Tabs) \in Nat
  BY TabCount
<1>3. [state |-> "closed", set |-> 0] \in Learner!Conn
  BY <1>2 DEF Learner!Conn
<1>4. Learner!TypeOK
  <2>1. /\ today \in 0..LastDay /\ days \in SUBSET (0..LastDay)
        /\ inserts \in SUBSET (0..LastDay) /\ beat \in [Beats -> {"idle", "count"}]
    BY <1>1
  <2>2. sets \in [1..Learner!Cardinality(Tabs) -> SUBSET Tabs] /\ twice \in BOOLEAN
    BY <1>1, Zenon
  <2>3. tab \in [Tabs -> Learner!Conn]
    BY <1>1, <1>3
  <2>4. named \in 0..Learner!Cardinality(Tabs)
    BY <1>1, <1>2
  <2> QED BY <2>1, <2>2, <2>3, <2>4 DEF Learner!TypeOK
<1>5. Learner!Opened = {} /\ Learner!Opened \in SUBSET Tabs
  BY <1>1 DEF Learner!Opened
<1>6. Learner!Cardinality(Learner!Opened) \in Nat
  BY <1>5, TabCount
<1>7. ASSUME NEW t \in Tabs PROVE Learner!TabOK(t)
  <2>1. tab[t].state = "closed" /\ tab[t].set = 0 /\ \A s \in DOMAIN sets : t \notin sets[s]
    BY <1>1
  <2> QED BY <1>6, <2>1 DEF Learner!TabOK
<1> QED BY <1>1, <1>4, <1>6, <1>7 DEF StreamsOK

(* Days go by and heartbeats come and go: the streams stay as they are.    *)
LEMMA BeatsOnly ==
  ASSUME StreamsOK, UNCHANGED <<sets, named, tab, twice>>,
         today' \in 0..LastDay, days' \in SUBSET (0..LastDay),
         inserts' \in SUBSET (0..LastDay), beat' \in [Beats -> {"idle", "count"}]
  PROVE  StreamsOK'
<1>1. Learner!TypeOK'
  BY DEF StreamsOK, Learner!TypeOK
<1>2. /\ named <= Learner!Cardinality(Learner!Opened) /\ Learner!Opened' = Learner!Opened
      /\ \A t \in Tabs : Learner!TabOK(t)
  BY DEF StreamsOK, Learner!Opened
<1>3. ASSUME NEW t \in Tabs PROVE Learner!TabOK(t)'
  BY <1>2 DEF Learner!TabOK
<1> QED BY <1>1, <1>2, <1>3 DEF StreamsOK

LEMMA BeatSteps ==
  ASSUME StreamsOK,
         \/ UNCHANGED activityVars \/ Learner!NextDay
         \/ \E b \in Beats : Learner!Heartbeat(b) \/ Learner!AnswerStreak(b)
         \/ \E d \in 0..LastDay : Learner!InsertEvent(d) \/ Learner!LoseEvent(d)
  PROVE  StreamsOK'
<1>0. /\ today \in 0..LastDay /\ days \in SUBSET (0..LastDay)
      /\ inserts \in SUBSET (0..LastDay) /\ beat \in [Beats -> {"idle", "count"}]
  BY DEF StreamsOK, Learner!TypeOK
<1>1. CASE UNCHANGED activityVars
  BY <1>0, <1>1, BeatsOnly DEF activityVars
<1>2. CASE Learner!NextDay
  <2>1. today' \in 0..LastDay /\ UNCHANGED <<days, beat, inserts, sets, named, tab, twice>>
    BY <1>0, <1>2 DEF Learner!NextDay, Learner!streams
  <2> QED BY <1>0, <2>1, BeatsOnly
<1>3. ASSUME NEW b \in Beats, Learner!Heartbeat(b) PROVE StreamsOK'
  BY <1>0, <1>3, BeatsOnly DEF Learner!Heartbeat, Learner!streams
<1>4. ASSUME NEW b \in Beats, Learner!AnswerStreak(b) PROVE StreamsOK'
  BY <1>0, <1>4, BeatsOnly DEF Learner!AnswerStreak, Learner!streams
<1>5. ASSUME NEW d \in 0..LastDay, Learner!InsertEvent(d) \/ Learner!LoseEvent(d)
      PROVE  StreamsOK'
  BY <1>0, <1>5, BeatsOnly DEF Learner!InsertEvent, Learner!LoseEvent, Learner!streams
<1> QED BY <1>1, <1>2, <1>3, <1>4, <1>5

(* A listener set that a tab can be put into.                              *)
LEMMA StreamNames ==
  ASSUME StreamsOK, NEW t \in Tabs, Learner!Open(t)
  PROVE  \E s \in 1..Learner!Cardinality(Tabs) :
           /\ named # 0 => s = named
           /\ s <= Learner!Cardinality(Learner!Opened) + 1
           /\ sets' = [sets EXCEPT ![s] = @ \union {t}] /\ named' = s
           /\ tab' = [tab EXCEPT ![t] = [state |-> "open", set |-> s]]
<1> DEFINE M == {tab[u].set : u \in Tabs}
           s == IF named # 0 THEN named ELSE 1 + Learner!Max(M)
           most == Learner!Cardinality(Learner!Opened)
           all == Learner!Cardinality(Tabs)
<1>1. /\ tab[t].state = "closed" /\ named' = s
      /\ sets' = [sets EXCEPT ![s] = @ \union {t}]
      /\ tab' = [tab EXCEPT ![t] = [state |-> "open", set |-> s]]
  BY DEF Learner!Open
<1>2. /\ all \in Nat /\ most \in Nat /\ named \in Nat /\ named <= most
      /\ \A u \in Tabs : tab[u].set \in Nat /\ tab[u].set <= most
      /\ Learner!Opened \in SUBSET Tabs /\ most <= all
  BY StreamFacts
<1>3. most + 1 <= all
  <2>1. t \in Tabs \ Learner!Opened
    BY <1>1 DEF Learner!Opened
  <2>2. Learner!Cardinality(Learner!Opened \union {t}) = most + 1
    BY <1>2, <2>1, TabCount
  <2>3. Learner!Cardinality(Learner!Opened \union {t}) <= all
    BY <1>2, TabCount
  <2> QED BY <2>2, <2>3
<1>4. M \in SUBSET Nat /\ M # {} /\ \A m \in M : m <= most
  BY <1>2
<1> HIDE DEF M, most, all
<1>5. Learner!Max(M) \in Nat /\ Learner!Max(M) <= most
  <2>1. \E x \in M : \A y \in M : x >= y
    BY <1>2, <1>4, GreatestNumber
  <2>2. Learner!Max(M) \in M
    BY <2>1 DEF Learner!Max
  <2> QED BY <1>4, <2>2
<1>6. s \in 1..all /\ (named # 0 => s = named) /\ s <= most + 1
  BY <1>2, <1>3, <1>5
<1> QED BY <1>1, <1>6 DEF all, most

LEMMA StreamOpens ==
  ASSUME StreamsOK, NEW t \in Tabs, Learner!Open(t)
  PROVE  StreamsOK'
<1> DEFINE most == Learner!Cardinality(Learner!Opened)
           all == Learner!Cardinality(Tabs)
<1>1. PICK s \in 1..all :
        /\ named # 0 => s = named
        /\ s <= most + 1
        /\ sets' = [sets EXCEPT ![s] = @ \union {t}] /\ named' = s
        /\ tab' = [tab EXCEPT ![t] = [state |-> "open", set |-> s]]
  BY StreamNames
<1>2. /\ tab[t].state = "closed"
      /\ UNCHANGED <<twice, today, days, beat, inserts>>
  BY DEF Learner!Open, Learner!beats
<1>3. /\ all \in Nat /\ most \in Nat /\ Learner!Opened \in SUBSET Tabs
      /\ sets \in [1..all -> SUBSET Tabs] /\ DOMAIN sets = 1..all
      /\ tab \in [Tabs -> Learner!Conn] /\ twice \in BOOLEAN
      /\ \A u \in Tabs : Learner!TabOK(u)
  BY StreamFacts
<1>4. /\ tab'[t].state = "open" /\ tab'[t].set = s
      /\ \A u \in Tabs \ {t} : tab'[u] = tab[u]
  BY <1>1, <1>3
<1>5. Learner!TypeOK'
  <2>1. [state |-> "open", set |-> s] \in Learner!Conn
    BY <1>1, <1>3 DEF Learner!Conn
  <2>2. tab' \in [Tabs -> Learner!Conn]
    BY <1>1, <1>3, <2>1
  <2>3. sets' \in [1..all -> SUBSET Tabs] /\ named' \in 0..all
    BY <1>1, <1>3
  <2> QED BY <1>2, <1>3, <2>2, <2>3 DEF StreamsOK, Learner!TypeOK
<1>6. Learner!Cardinality(Learner!Opened') = most + 1
  <2>1. t \in Tabs \ Learner!Opened /\ Learner!Opened' = Learner!Opened \union {t}
    BY <1>2, <1>4 DEF Learner!Opened
  <2> QED BY <1>3, <2>1, TabCount
<1>7. /\ \A u \in Tabs, r \in 1..all : u # t => (u \in sets'[r] <=> u \in sets[r])
      /\ \A r \in 1..all : t \in sets'[r] <=> t \in sets[r] \/ r = s
      /\ DOMAIN sets' = 1..all
  BY <1>1, <1>3
<1> HIDE DEF most, all
<1>8. Learner!TabOK(t)'
  <2>1. \A r \in 1..all : t \notin sets[r]
    BY <1>2, <1>3 DEF Learner!TabOK
  <2>2. s # 0 /\ s <= Learner!Cardinality(Learner!Opened')
    BY <1>1, <1>6
  <2> QED BY <1>1, <1>4, <1>7, <2>1, <2>2 DEF Learner!TabOK
<1>9. ASSUME NEW u \in Tabs \ {t} PROVE Learner!TabOK(u)'
  <2>1. Learner!TabOK(u) /\ tab'[u] = tab[u] /\ tab[u].set \in Nat /\ tab[u].set <= most
    BY <1>3, <1>4, StreamFacts DEF most
  <2>2. tab[u].set <= Learner!Cardinality(Learner!Opened')
    BY <1>3, <1>6, <2>1
  <2>3. ~twice /\ tab[u].state = "open" => s = tab[u].set
    BY <1>1, <2>1 DEF Learner!TabOK
  <2> QED BY <1>1, <1>2, <1>3, <1>7, <2>1, <2>2, <2>3 DEF Learner!TabOK
<1>10. named' <= Learner!Cardinality(Learner!Opened)'
  BY <1>1, <1>6
<1> QED BY <1>5, <1>8, <1>9, <1>10 DEF StreamsOK

(* A tab leaves its set: another tab in it keeps it named.                 *)
LEMMA StreamLeaves ==
  ASSUME StreamsOK, NEW t \in Tabs, NEW st \in {"ended", "done"},
         tab[t].state \in {"open", "ended"}, Learner!Unregister(t),
         tab' = [tab EXCEPT ![t].state = st], twice' \in BOOLEAN, twice => twice',
         tab[t].state = "open" \/ named \in {0, tab[t].set} \/ twice',
         UNCHANGED <<today, days, beat, inserts>>
  PROVE  StreamsOK'
<1> DEFINE all == Learner!Cardinality(Tabs)
           own == tab[t].set
<1>1. /\ sets' = [sets EXCEPT ![own] = @ \ {t}]
      /\ named' = IF sets[own] \ {t} = {} THEN 0 ELSE named
  BY DEF Learner!Unregister
<1>2. /\ all \in Nat /\ Learner!Opened \in SUBSET Tabs
      /\ Learner!Cardinality(Learner!Opened) \in Nat
      /\ Learner!Cardinality(Learner!Opened) <= all
      /\ sets \in [1..all -> SUBSET Tabs] /\ DOMAIN sets = 1..all
      /\ tab \in [Tabs -> Learner!Conn] /\ own \in 1..all
      /\ named \in Nat /\ named <= Learner!Cardinality(Learner!Opened)
      /\ \A u \in Tabs : Learner!TabOK(u)
  BY StreamFacts
<1>3. /\ tab'[t].state = st /\ tab'[t].set = own /\ tab' \in [Tabs -> Learner!Conn]
      /\ \A u \in Tabs \ {t} : tab'[u] = tab[u]
  <2> DEFINE n(c) == [c EXCEPT !.state = st]
  <2>1. ASSUME NEW c \in Learner!Conn
        PROVE  n(c) \in Learner!Conn /\ n(c).state = st /\ n(c).set = c.set
    BY DEF Learner!Conn
  <2>2. tab' = [tab EXCEPT ![t] = n(tab[t])]
    BY <1>2
  <2> HIDE DEF n
  <2>3. tab[t] \in Learner!Conn /\ tab'[t] = n(tab[t])
    BY <1>2, <2>2
  <2> QED BY <1>2, <2>1, <2>2, <2>3
<1>4. Learner!Opened' = Learner!Opened
  BY <1>3 DEF Learner!Opened
<1>5. Learner!TypeOK'
  <2>1. named \in 0..all
    <3> DEFINE open == Learner!Cardinality(Learner!Opened)
    <3>1. all \in Nat /\ open \in Nat /\ open <= all /\ named \in Nat /\ named <= open
      BY <1>2, Zenon
    <3> HIDE DEF all, open
    <3> QED BY <3>1
  <2>2. sets' \in [1..all -> SUBSET Tabs]
    <3> HIDE DEF all, own
    <3>1. sets \in [1..all -> SUBSET Tabs] /\ own \in 1..all
      BY <1>2, Zenon
    <3>2. sets[own] \ {t} \in SUBSET Tabs
      BY <3>1
    <3> QED BY <1>1, <3>1, <3>2
  <2>3. named' \in 0..all
    <3> HIDE DEF all
    <3>1. named' = 0 \/ named' = named
      BY <1>1, Zenon
    <3>2. all \in Nat
      BY <1>2, Zenon
    <3> QED BY <2>1, <3>1, <3>2
  <2> QED BY <1>3, <2>2, <2>3 DEF StreamsOK, Learner!TypeOK
<1>6. /\ \A u \in Tabs \ {t}, r \in 1..all : u \in sets'[r] <=> u \in sets[r]
      /\ \A r \in 1..all : t \in sets'[r] <=> t \in sets[r] /\ r # own
      /\ DOMAIN sets' = 1..all
  BY <1>1, <1>2
<1> HIDE DEF all
<1>7. Learner!TabOK(t)'
  <2>1. \A r \in 1..all : t \notin sets'[r]
    BY <1>2, <1>6 DEF Learner!TabOK
  <2>2. own # 0 /\ own <= Learner!Cardinality(Learner!Opened)
    BY <1>2 DEF Learner!TabOK
  <2> QED BY <1>3, <1>4, <1>6, <2>1, <2>2 DEF Learner!TabOK
<1>8. ASSUME NEW u \in Tabs \ {t} PROVE Learner!TabOK(u)'
  <2>1. Learner!TabOK(u) /\ Learner!TabOK(t) /\ tab'[u] = tab[u]
    BY <1>2, <1>3
  <2>2. ASSUME ~twice', tab[u].state = "open" PROVE named' = tab[u].set
    <3>1. named = tab[u].set /\ named # 0
      BY <2>1, <2>2 DEF Learner!TabOK
    <3>2. named = own
      BY <2>1, <2>2, <3>1 DEF Learner!TabOK
    <3>3. u \in sets[own]
      BY <1>2, <2>1, <2>2, <3>1, <3>2 DEF Learner!TabOK
    <3> QED BY <1>1, <3>1, <3>3
  <2> QED BY <1>2, <1>4, <1>6, <2>1, <2>2 DEF Learner!TabOK
<1>9. named' <= Learner!Cardinality(Learner!Opened)'
  BY <1>1, <1>2, <1>4
<1> QED BY <1>5, <1>7, <1>8, <1>9 DEF StreamsOK

LEMMA StreamStep ==
  ASSUME StreamsOK, Learner!Next \/ UNCHANGED activityVars
  PROVE  StreamsOK'
<1>1. ASSUME NEW t \in Tabs, Learner!Fail(t) PROVE StreamsOK'
  <2>1. /\ tab[t].state = "open" /\ Learner!Unregister(t)
        /\ tab' = [tab EXCEPT ![t].state = "ended"]
        /\ UNCHANGED <<twice, today, days, beat, inserts>>
    BY <1>1 DEF Learner!Fail, Learner!beats
  <2>2. twice \in BOOLEAN
    BY StreamFacts
  <2>3. twice' \in BOOLEAN /\ (twice => twice')
    BY <2>1, <2>2
  <2> QED BY <2>1, <2>3, StreamLeaves
<1>2. ASSUME NEW t \in Tabs, Learner!Close(t) PROVE StreamsOK'
  <2>1. /\ tab[t].state \in {"open", "ended"} /\ Learner!Unregister(t)
        /\ tab' = [tab EXCEPT ![t].state = "done"]
        /\ twice' = (twice \/ (tab[t].state = "ended" /\ named \notin {0, tab[t].set}))
        /\ UNCHANGED <<today, days, beat, inserts>>
    BY <1>2 DEF Learner!Close, Learner!beats
  <2>2. twice \in BOOLEAN
    BY StreamFacts
  <2>3. /\ twice' \in BOOLEAN /\ (twice => twice')
        /\ tab[t].state = "open" \/ named \in {0, tab[t].set} \/ twice'
    BY <2>1, <2>2, Zenon
  <2> QED BY <2>1, <2>3, StreamLeaves
<1> QED BY <1>1, <1>2, BeatSteps, StreamOpens DEF Learner!Next, Learner!ActivityRequest

(* The streak shown is the longest run of active days up to today or       *)
(* yesterday within the look-back (computeActiveStreakDays); an open tab   *)
(* hears of every event, unless a second clean-up of another connection    *)
(* dropped its set, and a closed one leaves no listener behind             *)
(* (onProgressEvent): for any number of days, tabs and heartbeats.         *)
THEOREM StreakAndStreams == Spec => []ActivityInv
<1>1. Init => StreamsOK
  BY StreamsInit DEF Init
<1>2. StreamsOK /\ [Next]_vars => StreamsOK'
  BY StreamStep DEF Next, Only, vars
<1>3. Spec => []StreamsOK
  BY <1>1, <1>2, PTL DEF Spec
<1>4. StreamsOK => ActivityInv
  BY StreamsSuffice DEF ActivityInv
<1> QED BY <1>3, <1>4, PTL
=============================================================================
