------------------------------ MODULE Settings ------------------------------
(***************************************************************************)
(* The platform configuration (apps/api/src/lib/config.ts): one row of     *)
(* system_config, a copy in Redis and one in the memory of each server     *)
(* process, each good for 60 seconds, and the snapshots an administrator   *)
(* can roll back to.  Every step of a read or an edit is awaited.          *)
(*                                                                         *)
(* A configuration gives each section the number of the edit that last set *)
(* it, 0 for the default.                                                  *)
(***************************************************************************)
EXTENDS Naturals, FiniteSets, Sequences

CONSTANTS
  Sections,    \* sections of the configuration
  Nodes,       \* server processes
  Lookups,     \* calls that may be in flight at once
  NoNode,      \* no process
  Ttl,         \* the 60 seconds, in ticks
  MaxEdits,    \* bound: updates and rollbacks
  MaxOutages   \* bound: crashes, failures of Redis

VARIABLES
  redisOn,     \* does the deployment have a Redis?
  configRow,   \* system_config
  redisCopy,   \* the copy in Redis
  memory,      \* the copies of the processes
  revisions,   \* config_revisions by time
  lookup,      \* the calls in flight
  started,     \* edits so far
  sinceEdit,   \* ticks since the row was last written
  wanted,      \* history: what the edits made so far amount to
  writers,     \* history: the processes that edited
  clash,       \* history: have two calls ever been in flight at once?
  outages      \* crashes and failures so far

caches == <<redisCopy, memory>>
history == <<started, sinceEdit, wanted, writers, clash, outages>>
vars == <<redisOn, configRow, caches, revisions, lookup, history>>

Config == [Sections -> 0..MaxEdits]
DefaultConfig == [s \in Sections |-> 0]
Copy == [value : Config, age : 0..Ttl]   \* of no use at age Ttl
Step == {"idle", "revision", "memory", "redis", "db", "share", "fill",
         "got", "snapshot", "persist", "publish", "keep"}
Lookup == [pc : Step, node : Nodes \union {NoNode}, verb : {"read", "update", "rollback"},
           edit : 0..MaxEdits, section : Sections, value : Config, next : Config]
Idle == [pc |-> "idle", node |-> NoNode, verb |-> "read", edit |-> 0,
         section |-> CHOOSE s \in Sections : TRUE, value |-> DefaultConfig, next |-> DefaultConfig]

(* The row, its copies and calls have their types. *)
TypeOK ==
  /\ redisOn \in BOOLEAN
  /\ configRow \in Config
  /\ redisCopy \in Copy /\ memory \in [Nodes -> Copy]
  /\ revisions \in Seq(Config)
  /\ lookup \in [Lookups -> Lookup]
  /\ started \in 0..MaxEdits
  /\ sinceEdit \in 0..Ttl
  /\ wanted \in Config
  /\ writers \in SUBSET Nodes
  /\ clash \in BOOLEAN
  /\ outages \in 0..MaxOutages

Gone == [value |-> DefaultConfig, age |-> Ttl]

Init ==
  /\ redisOn \in BOOLEAN
  /\ configRow = DefaultConfig
  /\ redisCopy = Gone /\ memory = [n \in Nodes |-> Gone]
  /\ revisions = <<>>
  /\ lookup = [l \in Lookups |-> Idle]
  /\ started = 0
  /\ sinceEdit = Ttl
  /\ wanted = DefaultConfig
  /\ writers = {}
  /\ clash = FALSE
  /\ outages = 0

-----------------------------------------------------------------------------
(* Helpers *)

At(l, step) == lookup[l].pc = step
Goto(l, step) == lookup' = [lookup EXCEPT ![l].pc = step]
Return(l) == lookup' = [lookup EXCEPT ![l] = Idle]
Begin(l, c) ==
  /\ At(l, "idle")
  /\ lookup' = [lookup EXCEPT ![l] = c]
  /\ clash' = (clash \/ \E k \in Lookups \ {l} : ~At(k, "idle"))

IsFresh(copy) == copy.age < Ttl
Fresh(value) == [value |-> value, age |-> 0]
Older(copy) == IF IsFresh(copy) THEN [copy EXCEPT !.age = @ + 1] ELSE copy

Outage == outages < MaxOutages /\ outages' = outages + 1
Unstarted == UNCHANGED <<started, sinceEdit, wanted, writers>>

-----------------------------------------------------------------------------
(* getConfig: memory, then Redis, then the row. *)

(* A request looks a setting up: payments, features, maintenance.          *)
GetConfig(l, n) ==
  /\ Begin(l, [Idle EXCEPT !.pc = "memory", !.node = n])
  /\ Unstarted
  /\ UNCHANGED <<redisOn, configRow, caches, revisions, outages>>

Got(l, value) == lookup' = [lookup EXCEPT ![l].pc = "got", ![l].value = value]
Fill(l, value) == lookup' = [lookup EXCEPT ![l].pc = "fill", ![l].value = value]

TryMemory(l) ==
  LET copy == memory[lookup[l].node] IN
  /\ At(l, "memory")
  /\ IF IsFresh(copy) THEN Got(l, copy.value) ELSE Goto(l, IF redisOn THEN "redis" ELSE "db")
  /\ UNCHANGED <<redisOn, configRow, caches, revisions, history>>

TryRedis(l) ==
  /\ At(l, "redis")
  /\ IF IsFresh(redisCopy) THEN Fill(l, redisCopy.value) ELSE Goto(l, "db")
  /\ UNCHANGED <<redisOn, configRow, caches, revisions, history>>

LoadFromDb(l) ==
  /\ At(l, "db")
  /\ lookup' = [lookup EXCEPT ![l].pc = IF redisOn THEN "share" ELSE "fill",
                              ![l].value = configRow]
  /\ UNCHANGED <<redisOn, configRow, caches, revisions, history>>

WriteBack(l) ==
  /\ At(l, "share")
  /\ redisCopy' = Fresh(lookup[l].value)
  /\ Goto(l, "fill")
  /\ UNCHANGED <<redisOn, configRow, memory, revisions, history>>

FillMemory(l) ==
  /\ At(l, "fill")
  /\ memory' = [memory EXCEPT ![lookup[l].node] = Fresh(lookup[l].value)]
  /\ Goto(l, "got")
  /\ UNCHANGED <<redisOn, configRow, redisCopy, revisions, history>>

AnswerRead(l) ==
  /\ At(l, "got") /\ lookup[l].verb = "read"
  /\ Return(l)
  /\ UNCHANGED <<redisOn, configRow, caches, revisions, history>>

-----------------------------------------------------------------------------
(* Edits start from getConfig, wherever it found the configuration.        *)

StartEdit(l, n, verb, section, first) ==
  /\ started < MaxEdits
  /\ Begin(l, [Idle EXCEPT !.pc = first, !.node = n, !.verb = verb, !.edit = started + 1,
                           !.section = section])
  /\ started' = started + 1
  /\ UNCHANGED <<redisOn, configRow, caches, revisions, sinceEdit, wanted, writers, outages>>

UpdateConfig(l, n, section) == StartEdit(l, n, "update", section, "memory")
RollbackConfigRevision(l, n, section) ==
  /\ revisions # <<>>
  /\ StartEdit(l, n, "rollback", section, "revision")

(* The revision to go back to. *)
PickRevision(l) ==
  /\ At(l, "revision")
  /\ \E r \in DOMAIN revisions :
       lookup' = [lookup EXCEPT ![l].pc = "memory", ![l].next = revisions[r]]
  /\ UNCHANGED <<redisOn, configRow, caches, revisions, history>>

(* deepMerge: the patch over the current configuration. *)
Merge(l) ==
  LET c == lookup[l] IN
  /\ At(l, "got") /\ c.verb # "read"
  /\ lookup' = [lookup EXCEPT ![l].pc = "snapshot",
                  ![l].next = IF c.verb = "rollback" THEN c.next
                              ELSE [c.value EXCEPT ![c.section] = c.edit]]
  /\ UNCHANGED <<redisOn, configRow, caches, revisions, history>>

InsertRevision(l) ==
  /\ At(l, "snapshot")
  /\ revisions' = Append(revisions, lookup[l].value)
  /\ Goto(l, "persist")
  /\ UNCHANGED <<redisOn, configRow, caches, history>>

Persist(l) ==
  LET c == lookup[l] IN
  /\ At(l, "persist")
  /\ configRow' = c.next
  /\ sinceEdit' = 0
  /\ wanted' = IF c.verb = "rollback" THEN c.next ELSE [wanted EXCEPT ![c.section] = c.edit]
  /\ writers' = writers \union {c.node}
  /\ Goto(l, IF redisOn THEN "publish" ELSE "keep")
  /\ UNCHANGED <<redisOn, caches, revisions, started, clash, outages>>

Mutant_Publish_Skip(l) ==
  /\ At(l, "publish")
  /\ Goto(l, "keep")
  /\ UNCHANGED <<redisOn, configRow, caches, revisions, history>>

Publish(l) ==
  /\ At(l, "publish")
  /\ redisCopy' = Fresh(lookup[l].next)
  /\ Goto(l, "keep")
  /\ UNCHANGED <<redisOn, configRow, memory, revisions, history>>

KeepInMemory(l) ==
  /\ At(l, "keep")
  /\ memory' = [memory EXCEPT ![lookup[l].node] = Fresh(lookup[l].next)]
  /\ Return(l)
  /\ UNCHANGED <<redisOn, configRow, redisCopy, revisions, history>>

-----------------------------------------------------------------------------
(* Redis fails: the row is read instead, and nothing is written to Redis.  *)
RedisFails(l) ==
  /\ lookup[l].pc \in {"redis", "share", "publish"}
  /\ Outage
  /\ Goto(l, CASE lookup[l].pc = "redis" -> "db"
               [] lookup[l].pc = "share" -> "fill"
               [] lookup[l].pc = "publish" -> "keep")
  /\ UNCHANGED <<redisOn, configRow, caches, revisions, started, sinceEdit, wanted, writers, clash>>

(* A process restarts: its calls and its memory are gone. *)
Restart(n) ==
  /\ Outage
  /\ memory' = [memory EXCEPT ![n] = Gone]
  /\ lookup' = [l \in Lookups |-> IF lookup[l].node = n THEN Idle ELSE lookup[l]]
  /\ UNCHANGED <<redisOn, configRow, redisCopy, revisions, started, sinceEdit, wanted, writers,
                 clash>>

(* Calls are short: time passes between them. *)
Tick ==
  /\ \A l \in Lookups : At(l, "idle")
  /\ sinceEdit' = IF sinceEdit < Ttl THEN sinceEdit + 1 ELSE sinceEdit
  /\ redisCopy' = Older(redisCopy)
  /\ memory' = [n \in Nodes |-> Older(memory[n])]
  /\ UNCHANGED <<redisOn, configRow, revisions, lookup, started, wanted, writers, clash, outages>>

-----------------------------------------------------------------------------
ConfigRequest ==
  \E l \in Lookups, n \in Nodes :
    \/ GetConfig(l, n)
    \/ \E s \in Sections : UpdateConfig(l, n, s) \/ RollbackConfigRevision(l, n, s)

LookupStep(l) ==
  \/ TryMemory(l) \/ TryRedis(l) \/ LoadFromDb(l) \/ WriteBack(l) \/ FillMemory(l)
  \/ AnswerRead(l)
  \/ PickRevision(l) \/ Merge(l) \/ InsertRevision(l)
  \/ Persist(l) \/ Publish(l) \/ KeepInMemory(l)

Next ==
  \/ ConfigRequest
  \/ \E l \in Lookups : LookupStep(l) \/ RedisFails(l)
  \/ \E n \in Nodes : Restart(n)
  \/ Tick

Spec == Init /\ [][Next]_vars

-----------------------------------------------------------------------------
(* Properties *)

(* Safety, as long as calls do not overlap and Redis is there: a copy in   *)
(* use is the configuration, or was less than 60 seconds ago; what an      *)
(* administrator changes is everywhere within 60 seconds.                  *)
Current(copy) == IsFresh(copy) => copy.value = configRow \/ sinceEdit < Ttl
Propagates ==
  ~clash /\ outages = 0 => Current(redisCopy) /\ \A n \in Nodes : Current(memory[n])

(* Safety, as long as calls do not overlap and one process does the edits  *)
(* (another merges a patch into the copy it has, and takes back what it    *)
(* has not heard of): no edit undoes another.                              *)
EditsKept ==
  ~clash /\ outages = 0 /\ Cardinality(writers) <= 1 => configRow = wanted

(* Why: as long as calls neither overlap nor die, whatever is not the      *)
(* configuration is older than the edit that made it so; the copy in Redis *)
(* is the configuration, and so is the one of a process that alone has     *)
(* edited, but for an edit on its way to them.                             *)
Orderly == ~clash /\ outages = 0
Alone == ~clash => \A k, l \in Lookups : ~At(k, "idle") /\ ~At(l, "idle") => k = l
Behind(copy) == copy.value = configRow \/ copy.age >= sinceEdit
RedisKnows ==
  IsFresh(redisCopy) =>
    redisOn /\ (redisCopy.value = configRow \/ \E l \in Lookups : At(l, "publish"))
WriterKnows(n) ==
  writers \subseteq {n} /\ IsFresh(memory[n]) =>
    \/ memory[n].value = configRow
    \/ \E l \in Lookups : lookup[l].pc \in {"publish", "keep"} /\ lookup[l].node = n

(* What a call relies on: what it read is the configuration (for an edit,  *)
(* if no other process has edited), what it wrote is.                      *)
LookupOK(l) ==
  LET c == lookup[l] IN
  /\ c.pc # "idle" => c.node \in Nodes
  /\ c.pc \in {"redis", "share", "publish"} => redisOn
  /\ c.pc \in {"revision", "snapshot", "persist", "publish", "keep"} => c.verb # "read"
  /\ c.pc \in {"snapshot", "persist"} /\ c.verb = "update" =>
       c.next = [c.value EXCEPT ![c.section] = c.edit]
  /\ Orderly =>
       /\ c.pc \in {"share", "fill"} => c.value = configRow
       /\ c.pc \in {"got", "snapshot", "persist"} /\ writers \subseteq {c.node} =>
            c.value = configRow
       /\ c.pc \in {"publish", "keep"} => c.next = configRow

(* The inductive invariant. *)
SettingsInv ==
  /\ TypeOK /\ Propagates /\ EditsKept
  /\ Alone /\ \A l \in Lookups : LookupOK(l)
  /\ Orderly =>
       /\ Behind(redisCopy) /\ RedisKnows
       /\ \A n \in Nodes : Behind(memory[n]) /\ WriterKnows(n)
=============================================================================
