------------------------------ MODULE Activity ------------------------------
(***************************************************************************)
(* A learner's activity: heartbeats and the streak of days counted from    *)
(* them (apps/api/src/modules/analytics/service.ts, lib/events.ts), and    *)
(* the streams of progress events of the learner's open tabs               *)
(* (lib/progress-events.ts, registerProgressEventsRoute).  A stream's      *)
(* listener is kept in a set that the registry names for the learner; the  *)
(* clean-up of a stream works on the set it was put into, and may run      *)
(* twice: on a failed ping or an error, and on the close that follows.     *)
(***************************************************************************)
EXTENDS Integers, FiniteSets, FiniteSetsExt

CONSTANTS
  Tabs,        \* connections of one learner to the stream
  Beats,       \* heartbeats that may be in flight at once
  LastDay,     \* bound: days are 0..LastDay
  Lookback     \* days the streak looks back (400 in the code)

VARIABLES
  today,      \* the day it is
  days,       \* days with a row in analytics_events
  beat,       \* the heartbeats in flight: inserting, and what they answer
  inserts,    \* days of the events on their way to the table
  sets,       \* the listener sets made so far: tabs in them
  named,      \* the set that the registry names for the learner, 0 if none
  tab,        \* the connections: their state and the set they were put into
  twice       \* history: has a clean-up run again after a new set was named?

beats   == <<today, days, beat, inserts>>
streams == <<sets, named, tab, twice>>
vars == <<beats, streams>>

Conn == [state : {"closed", "open", "ended", "done"}, set : 0..Cardinality(Tabs)]

(* Days, heartbeats, sets and connections have their types. *)
TypeOK ==
  /\ today \in 0..LastDay /\ days \in SUBSET (0..LastDay)
  /\ beat \in [Beats -> {"idle", "count"}] /\ inserts \in SUBSET (0..LastDay)
  /\ sets \in [1..Cardinality(Tabs) -> SUBSET Tabs]
  /\ named \in 0..Cardinality(Tabs)
  /\ tab \in [Tabs -> Conn]
  /\ twice \in BOOLEAN

Init ==
  /\ today = 0 /\ days = {} /\ inserts = {}
  /\ beat = [b \in Beats |-> "idle"]
  /\ sets = [s \in 1..Cardinality(Tabs) |-> {}]
  /\ named = 0
  /\ tab = [t \in Tabs |-> [state |-> "closed", set |-> 0]]
  /\ twice = FALSE

-----------------------------------------------------------------------------
(* computeActiveStreakDays: the run of active days that ends today, or     *)
(* yesterday when today is idle, walked back day by day.                   *)

Seen(rows) == {d \in rows : d >= today - Lookback}
Anchor(rows) == IF today \in Seen(rows) THEN today ELSE today - 1

StreakOf(rows) ==
  LET walk[d \in (0 - 1)..LastDay] == IF d \in Seen(rows) THEN 1 + walk[d - 1] ELSE 0
  IN  walk[Anchor(rows)]

-----------------------------------------------------------------------------
(* recordActivityHeartbeat sends its event off without awaiting it, then   *)
(* counts the streak from the rows there are.                              *)

Heartbeat(b) ==
  /\ beat[b] = "idle"
  /\ beat' = [beat EXCEPT ![b] = "count"]
  /\ inserts' = inserts \union {today}
  /\ UNCHANGED <<today, days, streams>>

(* The insert of an event lands, or fails and is only logged. *)
InsertEvent(d) ==
  /\ d \in inserts
  /\ inserts' = inserts \ {d}
  /\ days' = days \union {d}
  /\ UNCHANGED <<today, beat, streams>>

LoseEvent(d) ==
  /\ d \in inserts
  /\ inserts' = inserts \ {d}
  /\ UNCHANGED <<today, days, beat, streams>>

AnswerStreak(b) ==
  /\ beat[b] = "count"
  /\ beat' = [beat EXCEPT ![b] = "idle"]
  /\ UNCHANGED <<today, days, inserts, streams>>

NextDay ==
  /\ today < LastDay
  /\ today' = today + 1
  /\ UNCHANGED <<days, beat, inserts, streams>>

-----------------------------------------------------------------------------
(* onProgressEvent: the learner's set is used, or a new one is named.      *)

Mutant_Unregister_Always(t) ==
  /\ sets' = [sets EXCEPT ![tab[t].set] = @ \ {t}]
  /\ named' = 0

(* What onProgressEvent returns: leave the set; an empty set is no longer  *)
(* named (the registry's entry goes, whichever set it names by now).       *)
Unregister(t) ==
  /\ sets' = [sets EXCEPT ![tab[t].set] = @ \ {t}]
  /\ named' = IF sets[tab[t].set] \ {t} = {} THEN 0 ELSE named

Open(t) ==
  LET s == IF named # 0 THEN named ELSE 1 + Max({tab[u].set : u \in Tabs}) IN
  /\ tab[t].state = "closed"
  /\ sets' = [sets EXCEPT ![s] = @ \union {t}]
  /\ named' = s
  /\ tab' = [tab EXCEPT ![t] = [state |-> "open", set |-> s]]
  /\ UNCHANGED <<twice, beats>>

(* A ping or a write fails: the clean-up ends the response, whose close is *)
(* still to come.                                                          *)
Fail(t) ==
  /\ tab[t].state = "open"
  /\ Unregister(t)
  /\ tab' = [tab EXCEPT ![t].state = "ended"]
  /\ UNCHANGED <<twice, beats>>

(* The connection closes, and the clean-up runs (again). *)
Close(t) ==
  /\ tab[t].state \in {"open", "ended"}
  /\ Unregister(t)
  /\ tab' = [tab EXCEPT ![t].state = "done"]
  /\ twice' = (twice \/ (tab[t].state = "ended" /\ named \notin {0, tab[t].set}))
  /\ UNCHANGED beats

ActivityRequest == (\E b \in Beats : Heartbeat(b)) \/ \E t \in Tabs : Open(t)
Next ==
  \/ ActivityRequest \/ NextDay
  \/ \E b \in Beats : AnswerStreak(b)
  \/ \E d \in 0..LastDay : InsertEvent(d) \/ LoseEvent(d)
  \/ \E t \in Tabs : Fail(t) \/ Close(t)

Spec == Init /\ [][Next]_vars

-----------------------------------------------------------------------------
(* Properties *)

(* The streak is the longest run of active days, no further back than the  *)
(* look-back, that reaches today or yesterday.                             *)
StreakIsDue ==
  StreakOf(days) =
    Max({n \in 0..(LastDay + 1) :
           \E last \in {today, today - 1} : (last - n + 1)..last \subseteq Seen(days)})

(* A tab that is connected hears of every event: its listener is in the    *)
(* set that the registry names, unless a second clean-up dropped a set it  *)
(* had nothing to do with.                                                 *)
OpenTabsHear == ~twice => \A t \in Tabs : tab[t].state = "open" => named # 0 /\ t \in sets[named]

(* No listener is left behind by a connection that closed. *)
NoneLeft ==
  \A t \in Tabs : tab[t].state \in {"ended", "done"} => \A s \in DOMAIN sets : t \notin sets[s]

(* Why: a tab is in the one set it was put into, and only while it is      *)
(* open; there are no more sets than tabs that were opened; and that set   *)
(* is the one named.                                                       *)
Opened == {t \in Tabs : tab[t].state # "closed"}
TabOK(t) ==
  /\ tab[t].state = "closed" <=> tab[t].set = 0
  /\ tab[t].set <= Cardinality(Opened)
  /\ \A s \in DOMAIN sets : t \in sets[s] <=> tab[t].state = "open" /\ tab[t].set = s
  /\ ~twice /\ tab[t].state = "open" => named = tab[t].set

(* All of it, as one inductive invariant. *)
ActivityInv ==
  /\ TypeOK /\ StreakIsDue /\ OpenTabsHear /\ NoneLeft
  /\ named <= Cardinality(Opened) /\ \A t \in Tabs : TabOK(t)
=============================================================================
