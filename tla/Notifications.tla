--------------------------- MODULE Notifications ---------------------------
(***************************************************************************)
(* Notifications (apps/api/src/modules/notifications): the preferences,    *)
(* one notice (createNotification), the fan-out of an announcement, the    *)
(* streak reminder sent on login, the mail that follows a notice, and what *)
(* the bell marks read.  A notice's kind is the key of the preference that *)
(* switches it off; "marketing" switches the mails off.                    *)
(***************************************************************************)
EXTENDS Naturals, FiniteSets

CONSTANTS
  Readers,    \* the people notified
  Notices,    \* rows of notifications
  Errands,    \* calls that may be in flight at once
  NoReader,
  MaxErrands, \* bound: calls made
  MaxDays,    \* bound: midnights
  MaxGlitches \* bound: statements that fail, processes that die

VARIABLES
  wants,     \* notification_preferences: the keys switched on
  notices,   \* notifications, and what became of the mail of each
  errand,    \* the calls in flight
  asked,     \* history: the keys a reader last asked to have on
  against,   \* history: notices written although their kind was off
  audience,  \* history: the enrolled who want the announcement; did it end?
  jostled,   \* history: have two calls ever been in flight at once?
  errands,   \* calls so far
  today,     \* midnights so far
  glitches   \* faults so far

history == <<asked, against, audience, jostled, errands, today, glitches>>
vars == <<wants, notices, errand, history>>

Kinds == {"announcement", "streak"}
Keys == Kinds \union {"marketing"}
Notice == [who : Readers \union {NoReader}, kind : Kinds, day : 0..MaxDays, read : BOOLEAN,
           mail : {"none", "due", "sent", "lost"}]
NoNotice == [who |-> NoReader, kind |-> "streak", day |-> 0, read |-> FALSE, mail |-> "none"]
Step == {"idle", "upsert", "recent", "already", "next", "prefs", "insert"}
Errand == [pc : Step, kind : Kinds, who : Readers \union {NoReader}, rest : SUBSET Readers,
           keys : SUBSET Keys]
Idle == [pc |-> "idle", kind |-> "streak", who |-> NoReader, rest |-> {}, keys |-> {}]

(* Preferences, notices and calls have their types. *)
TypeOK ==
  /\ wants \in [Readers -> SUBSET Keys] /\ asked \in [Readers -> SUBSET Keys]
  /\ notices \in [Notices -> Notice] /\ against \in SUBSET Notices
  /\ errand \in [Errands -> Errand]
  /\ audience \in [who : SUBSET Readers, over : BOOLEAN]
  /\ jostled \in BOOLEAN
  /\ errands \in 0..MaxErrands /\ today \in 0..MaxDays /\ glitches \in 0..MaxGlitches

(* No preferences row counts as everything switched on. *)
Init ==
  /\ wants = [r \in Readers |-> Keys] /\ asked = wants
  /\ notices = [n \in Notices |-> NoNotice] /\ against = {}
  /\ errand = [e \in Errands |-> Idle]
  /\ audience = [who |-> {}, over |-> FALSE]
  /\ jostled = FALSE
  /\ errands = 0 /\ today = 0 /\ glitches = 0

-----------------------------------------------------------------------------
(* Helpers *)

At(e, step) == errand[e].pc = step
Goto(e, step) == errand' = [errand EXCEPT ![e].pc = step]
Return(e) == errand' = [errand EXCEPT ![e] = Idle]
Begin(e, c) ==
  /\ At(e, "idle") /\ errands < MaxErrands
  /\ errands' = errands + 1
  /\ errand' = [errand EXCEPT ![e] = c]
  /\ jostled' = (jostled \/ \E o \in Errands \ {e} : ~At(o, "idle"))
  /\ UNCHANGED <<notices, against, today, glitches>>
Written == {n \in Notices : notices[n].who # NoReader}

(* The call is done with one recipient: on to the next. *)
NextRecipient(e) ==
  /\ errand' = [errand EXCEPT ![e].pc = "next"]

-----------------------------------------------------------------------------
(* updatePreferences: read, merge with the patch, write every column.      *)

UpdatePreferences(e, r, on, off) ==
  /\ Begin(e, [Idle EXCEPT !.pc = "upsert", !.who = r, !.keys = (wants[r] \union on) \ off])
  /\ asked' = [asked EXCEPT ![r] = (@ \union on) \ off]
  /\ UNCHANGED <<wants, audience>>

UpsertPreferences(e) ==
  /\ At(e, "upsert")
  /\ wants' = [wants EXCEPT ![errand[e].who] = errand[e].keys]
  /\ Return(e)
  /\ UNCHANGED <<notices, history>>

(* The link of a mail switches everything off. *)
Unsubscribe(e, r) == UpdatePreferences(e, r, {}, Keys)

-----------------------------------------------------------------------------
(* notifyAnnouncement (and notifyCourseContentAdded, notifyDiscussionReply):*)
(* whoever is enrolled when the list is read, one after the other.  (Bound:*)
(* one announcement with somebody to reach.)                               *)
Announce(e, enrolled) ==
  /\ audience.who = {}
  /\ Begin(e, [Idle EXCEPT !.pc = "next", !.kind = "announcement", !.rest = enrolled])
  /\ audience' = [who |-> {r \in enrolled : "announcement" \in wants[r]}, over |-> FALSE]
  /\ UNCHANGED <<wants, asked>>

TakeRecipient(e) ==
  LET c == errand[e] IN
  /\ At(e, "next")
  /\ \/ /\ \E r \in c.rest :
             errand' = [errand EXCEPT ![e].pc = "prefs", ![e].who = r, ![e].rest = @ \ {r}]
        /\ UNCHANGED audience
     \/ /\ c.rest = {}
        /\ audience' = IF c.kind = "announcement" THEN [audience EXCEPT !.over = TRUE]
                       ELSE audience
        /\ Return(e)
  /\ UNCHANGED <<wants, notices, asked, against, jostled, errands, today, glitches>>

-----------------------------------------------------------------------------
(* createNotification *)

(* Nothing is written for a kind that is switched off. *)
ReadPreferences(e) ==
  LET c == errand[e] IN
  /\ At(e, "prefs")
  /\ IF c.kind \in wants[c.who]
       THEN errand' = [errand EXCEPT ![e].pc = "insert", ![e].keys = wants[c.who]]
       ELSE NextRecipient(e)
  /\ UNCHANGED <<wants, notices, history>>

(* The row, and the mail behind it if the preferences read allow mails.    *)
InsertNotice(e, n) ==
  LET c == errand[e] IN
  /\ At(e, "insert") /\ n \notin Written
  /\ notices' = [notices EXCEPT ![n] = [who |-> c.who, kind |-> c.kind, day |-> today,
                   read |-> FALSE, mail |-> IF "marketing" \in c.keys THEN "due" ELSE "none"]]
  /\ against' = IF c.kind \in wants[c.who] THEN against ELSE against \union {n}
  /\ NextRecipient(e)
  /\ UNCHANGED <<wants, asked, audience, jostled, errands, today, glitches>>

(* A failing insert is logged; the fan-out goes on. *)
InsertFails(e) ==
  /\ At(e, "insert") /\ glitches < MaxGlitches
  /\ glitches' = glitches + 1
  /\ NextRecipient(e)
  /\ UNCHANGED <<wants, notices, asked, against, audience, jostled, errands, today>>

(* sendNotificationEmail: behind the call; a mail that fails is not sent   *)
(* again.                                                                  *)
SendNotificationEmail(n) ==
  /\ notices[n].mail = "due"
  /\ \/ notices' = [notices EXCEPT ![n].mail = "sent"] /\ UNCHANGED glitches
     \/ /\ glitches < MaxGlitches /\ glitches' = glitches + 1
        /\ notices' = [notices EXCEPT ![n].mail = "lost"]
  /\ UNCHANGED <<wants, errand, asked, against, audience, jostled, errands, today>>

-----------------------------------------------------------------------------
(* maybeSendStreakReminder, on login. *)

(* Not for those who switched it off. *)
MaybeSendStreakReminder(e, r) ==
  /\ "streak" \in wants[r]
  /\ Begin(e, [Idle EXCEPT !.pc = "recent", !.who = r])
  /\ UNCHANGED <<wants, asked, audience>>

(* Three lessons viewed within the week, or no reminder. *)
CountRecentViews(e) ==
  /\ At(e, "recent")
  /\ Goto(e, "already") \/ Return(e)
  /\ UNCHANGED <<wants, notices, history>>

RemindedToday(r) == {n \in Written : notices[n].who = r /\ notices[n].kind = "streak"
                                       /\ notices[n].day = today}

Mutant_CountAlready_Unread(e) ==
  LET seen == {n \in RemindedToday(errand[e].who) : ~notices[n].read} IN
  /\ At(e, "already")
  /\ IF seen = {} THEN Goto(e, "prefs") ELSE Return(e)
  /\ UNCHANGED <<wants, notices, history>>

CountAlready(e) ==
  /\ At(e, "already")
  /\ IF RemindedToday(errand[e].who) = {} THEN Goto(e, "prefs") ELSE Return(e)
  /\ UNCHANGED <<wants, notices, history>>

-----------------------------------------------------------------------------
(* markRead: the ids given, or all of them; only the reader's own.         *)
MarkRead(r, ids) ==
  LET own == {n \in ids : notices[n].who = r} IN
  /\ \E n \in own : ~notices[n].read
  /\ notices' = [n \in Notices |-> IF n \in own THEN [notices[n] EXCEPT !.read = TRUE]
                                   ELSE notices[n]]
  /\ UNCHANGED <<wants, errand, history>>

Midnight ==
  /\ today < MaxDays
  /\ today' = today + 1
  /\ UNCHANGED <<wants, notices, errand, asked, against, audience, jostled, errands, glitches>>

(* A preferences read or another statement fails, or the process dies: the *)
(* call ends where it is, a fan-out without the rest of its recipients.    *)
Crash(e) ==
  /\ ~At(e, "idle") /\ glitches < MaxGlitches
  /\ glitches' = glitches + 1
  /\ Return(e)
  /\ UNCHANGED <<wants, notices, asked, against, audience, jostled, errands, today>>

NotificationRequest ==
  \/ \E e \in Errands, r \in Readers :
       \/ \E k \in Keys : UpdatePreferences(e, r, {k}, {}) \/ UpdatePreferences(e, r, {}, {k})
       \/ Unsubscribe(e, r)
       \/ MaybeSendStreakReminder(e, r)
  \/ \E e \in Errands, enrolled \in SUBSET Readers : Announce(e, enrolled)
  \/ \E r \in Readers, n \in Notices : MarkRead(r, {n}) \/ MarkRead(r, Notices)

ErrandStep(e) ==
  \/ UpsertPreferences(e) \/ TakeRecipient(e) \/ ReadPreferences(e)
  \/ (\E n \in Notices : InsertNotice(e, n)) \/ InsertFails(e)
  \/ CountRecentViews(e) \/ CountAlready(e)

Next ==
  \/ NotificationRequest \/ Midnight
  \/ \E e \in Errands : ErrandStep(e) \/ Crash(e)
  \/ \E n \in Notices : SendNotificationEmail(n)

Spec == Init /\ [][Next]_vars

-----------------------------------------------------------------------------
(* Properties *)

(* As long as calls do not overlap and none dies, the preferences are what *)
(* the reader last asked for, patch by patch; none of the keys a patch     *)
(* left out is lost.                                                       *)
PatchesKept ==
  ~jostled /\ glitches = 0 =>
    \A r \in Readers : \/ wants[r] = asked[r]
                       \/ \E e \in Errands : At(e, "upsert") /\ errand[e].who = r

(* As long as calls do not overlap, nothing is written against the         *)
(* preferences as they stand, and a reader gets one streak reminder a day. *)
NobodyIsPestered ==
  ~jostled =>
    /\ against = {}
    /\ \A m, n \in Written :
         notices[m].kind = "streak" /\ m # n =>
           <<notices[m].who, notices[m].kind, notices[m].day>>
             # <<notices[n].who, notices[n].kind, notices[n].day>>

(* As long as calls do not overlap, an announcement that ran to its end    *)
(* reached everybody enrolled who wants it, but for one recipient per      *)
(* failed insert.                                                          *)
Told == {notices[n].who : n \in {m \in Written : notices[m].kind = "announcement"}}
AnnouncementsArrive ==
  audience.over /\ ~jostled => Cardinality(audience.who \ Told) <= glitches

(* What a call relies on: as long as it is the only one, it upserts what   *)
(* was asked for, inserts what is wanted, reminds whom it has not reminded *)
(* today; and whoever wants an announcement is told, still to come, or     *)
(* lost to a failed insert.                                                *)
Alone == ~jostled => \A d, e \in Errands : ~At(d, "idle") /\ ~At(e, "idle") => d = e
Pending(e) ==
  errand[e].rest \union (IF errand[e].pc \in {"prefs", "insert"} THEN {errand[e].who} ELSE {})
FansOut(e) == ~At(e, "idle") /\ errand[e].kind = "announcement"
ErrandOK(e) ==
  LET c == errand[e] IN
  /\ c.pc \notin {"idle", "next"} => c.who \in Readers
  /\ c.kind = "streak" => c.rest = {}
  /\ c.pc \in {"upsert", "recent", "already"} => c.kind = "streak"
  /\ ~jostled =>
       /\ c.pc = "upsert" /\ glitches = 0 => c.keys = asked[c.who]
       /\ c.pc = "insert" => c.kind \in wants[c.who]
       /\ c.pc \in {"prefs", "insert"} /\ c.kind = "streak" => RemindedToday(c.who) = {}
       /\ FansOut(e) =>
            /\ ~audience.over /\ \A r \in audience.who : "announcement" \in wants[r]
            /\ Cardinality((audience.who \ Told) \ Pending(e)) <= glitches

(* Types, preferences kept, nobody pestered, announcements delivered: with *)
(* what they rest on, the inductive invariant.                             *)
NotificationsInv ==
  /\ TypeOK /\ PatchesKept /\ NobodyIsPestered /\ AnnouncementsArrive
  /\ \A n \in Written : notices[n].day <= today
  /\ Alone /\ \A e \in Errands : ErrandOK(e)
=============================================================================
