----------------------------- MODULE PublicApi -----------------------------
(***************************************************************************)
(* The public catalogue API (apps/api/src/modules/oauth, public-api and    *)
(* lib/rate-limit): the administrator's OAuth clients, the token grant,    *)
(* and the two hooks before each request, authentication and rate limit.   *)
(* The hour's count of a client is kept in Redis, or in the memory of the  *)
(* process while Redis fails.                                              *)
(***************************************************************************)
EXTENDS Naturals, FiniteSets

CONSTANTS
  Clients,     \* rows of oauth_clients
  Bearers,     \* tokens granted
  Lines,       \* calls that may be in flight at once
  NoClient, NoBearer,
  Limit,       \* PUBLIC_API_RATE_LIMIT_PER_HOUR
  MaxHits,     \* bound: requests made
  MaxSecrets,  \* bound: secrets of a client
  MaxHours,    \* bound: hours that pass
  MaxDrops     \* bound: outages of Redis, restarts of the process

VARIABLES
  clients,   \* oauth_clients
  bearers,   \* the tokens granted, by the client and the words of their scope
  line,      \* the calls in flight
  redisUp,   \* does Redis answer?
  counters,  \* the hour's count of each client, in Redis and in memory
  allowed,   \* history: requests of the hour within the limit, by the limiter
  served,    \* history: requests of the hour answered
  ghosts,    \* history: requests answered, tokens granted after a revocation
  contended, \* history: have two calls ever been in flight at once?
  hits,      \* requests so far
  hours,     \* hours so far
  drops      \* outages and restarts so far

history == <<allowed, served, ghosts, contended, hits, hours, drops>>
vars == <<clients, bearers, line, redisUp, counters, history>>

ClientScopes == {"catalogue:read", "reports:read"}   \* stored with commas between them
Words == ClientScopes \union {"catalogue:read,reports:read"}
Client == [status : {"none", "active", "revoked"}, secret : 0..MaxSecrets,
           scopes : SUBSET ClientScopes]
Bearer == [status : {"none", "live", "expired"}, client : Clients \union {NoClient},
           scope : SUBSET Words]
Step == {"idle", "touch", "sign", "status", "limit", "answer"}
Line == [pc : Step, client : Clients \union {NoClient}, bearer : Bearers \union {NoBearer},
         scope : SUBSET Words]
Idle == [pc |-> "idle", client |-> NoClient, bearer |-> NoBearer, scope |-> {}]
Zero == [c \in Clients |-> 0]

(* Clients, tokens, counts and calls have their types. *)
TypeOK ==
  /\ clients \in [Clients -> Client] /\ bearers \in [Bearers -> Bearer]
  /\ line \in [Lines -> Line] /\ redisUp \in BOOLEAN
  /\ counters \in [redis : [Clients -> Nat], memory : [Clients -> Nat]]
  /\ allowed \in [Clients -> Nat] /\ served \in [Clients -> Nat]
  /\ ghosts \in SUBSET Clients /\ contended \in BOOLEAN
  /\ hits \in 0..MaxHits /\ hours \in 0..MaxHours /\ drops \in 0..MaxDrops

Init ==
  /\ clients = [c \in Clients |-> [status |-> "none", secret |-> 0, scopes |-> {}]]
  /\ bearers = [b \in Bearers |-> [status |-> "none", client |-> NoClient, scope |-> {}]]
  /\ line = [l \in Lines |-> Idle] /\ redisUp = TRUE
  /\ counters = [redis |-> Zero, memory |-> Zero]
  /\ allowed = Zero /\ served = Zero /\ ghosts = {} /\ contended = FALSE
  /\ hits = 0 /\ hours = 0 /\ drops = 0

-----------------------------------------------------------------------------
(* Helpers *)

At(l, step) == line[l].pc = step
Goto(l, step) == line' = [line EXCEPT ![l].pc = step]
Return(l) == line' = [line EXCEPT ![l] = Idle]
Begin(l, c) ==
  /\ At(l, "idle") /\ hits < MaxHits
  /\ hits' = hits + 1
  /\ line' = [line EXCEPT ![l] = c]
  /\ contended' = (contended \/ \E m \in Lines \ {l} : ~At(m, "idle"))
  /\ UNCHANGED <<clients, bearers, redisUp, counters, allowed, served, ghosts, hours, drops>>

(* The administrator acts while calls are in flight: they overlap, too.    *)
Meanwhile == contended' = (contended \/ \E l \in Lines : ~At(l, "idle"))

-----------------------------------------------------------------------------
(* The administrator's clients *)

CreateApiClient(c, scopes) ==
  /\ clients[c].status = "none"
  /\ clients' = [clients EXCEPT ![c] = [status |-> "active", secret |-> 1, scopes |-> scopes]]
  /\ UNCHANGED <<bearers, line, redisUp, counters, history>>

RotateApiClientSecret(c) ==
  /\ clients[c].status # "none" /\ clients[c].secret < MaxSecrets
  /\ clients' = [clients EXCEPT ![c].secret = @ + 1]
  /\ Meanwhile
  /\ UNCHANGED <<bearers, line, redisUp, counters, allowed, served, ghosts, hits, hours, drops>>

RevokeApiClient(c) ==
  /\ clients[c].status = "active"
  /\ clients' = [clients EXCEPT ![c].status = "revoked"]
  /\ Meanwhile
  /\ UNCHANGED <<bearers, line, redisUp, counters, allowed, served, ghosts, hits, hours, drops>>

-----------------------------------------------------------------------------
(* handleClientCredentialsGrant *)

(* A token's scope is split at spaces where it is used; the client's own   *)
(* scopes, the default, are joined by commas.                              *)
WordsOf(scopes) == IF scopes = ClientScopes THEN {"catalogue:read,reports:read"} ELSE scopes

(* The client must be active, the secret its current one, the scopes asked *)
(* for among its own.                                                      *)
GrantToken(l, c, secret, asked) ==
  /\ clients[c].status = "active" /\ secret = clients[c].secret
  /\ asked \subseteq clients[c].scopes
  /\ Begin(l, [Idle EXCEPT !.pc = "touch", !.client = c,
                 !.scope = IF asked = {} THEN WordsOf(clients[c].scopes) ELSE asked])

TouchClient(l) ==
  /\ At(l, "touch")
  /\ Goto(l, "sign")
  /\ UNCHANGED <<clients, bearers, redisUp, counters, history>>

IssueClientToken(l, b) ==
  LET c == line[l] IN
  /\ At(l, "sign") /\ bearers[b].status = "none"
  /\ bearers' = [bearers EXCEPT ![b] = [status |-> "live", client |-> c.client,
                                        scope |-> c.scope]]
  /\ ghosts' = IF clients[c.client].status = "active" THEN ghosts ELSE ghosts \union {c.client}
  /\ Return(l)
  /\ UNCHANGED <<clients, redisUp, counters, allowed, served, contended, hits, hours, drops>>

-----------------------------------------------------------------------------
(* A request: authPublicApiHook, rateLimitPublicApiHook, the catalogue     *)

(* The token must be live, its scope hold catalogue:read as a word.        *)
AuthPublicApiHook(l, b) ==
  /\ bearers[b].status = "live" /\ "catalogue:read" \in bearers[b].scope
  /\ Begin(l, [Idle EXCEPT !.pc = "status", !.bearer = b, !.client = bearers[b].client])

Mutant_ReadStatus_Skip(l) ==
  /\ At(l, "status")
  /\ Goto(l, "limit")
  /\ UNCHANGED <<clients, bearers, redisUp, counters, history>>

(* A revoked client's tokens are refused, whatever they still say.         *)
ReadStatus(l) ==
  /\ At(l, "status")
  /\ IF clients[line[l].client].status = "active" THEN Goto(l, "limit") ELSE Return(l)
  /\ UNCHANGED <<clients, bearers, redisUp, counters, history>>

(* checkClientRateLimit counts the request, in Redis or in memory.  What   *)
(* it decides is thrown away: the exception of a breach ends in the hook's *)
(* own catch.                                                              *)
RateLimitHook(l) ==
  LET c == line[l].client
      store == IF redisUp THEN "redis" ELSE "memory"
      count == counters[store][c] + 1
  IN
  /\ At(l, "limit")
  /\ counters' = [counters EXCEPT ![store][c] = count]
  /\ allowed' = IF count <= Limit THEN [allowed EXCEPT ![c] = @ + 1] ELSE allowed
  /\ Goto(l, "answer")
  /\ UNCHANGED <<clients, bearers, redisUp, served, ghosts, contended, hits, hours, drops>>

AnswerRequest(l) ==
  LET c == line[l].client IN
  /\ At(l, "answer")
  /\ served' = [served EXCEPT ![c] = @ + 1]
  /\ ghosts' = IF clients[c].status = "active" THEN ghosts ELSE ghosts \union {c}
  /\ Return(l)
  /\ UNCHANGED <<clients, bearers, redisUp, counters, allowed, contended, hits, hours, drops>>

-----------------------------------------------------------------------------
(* Time and faults *)

(* A new hour has a new bucket.  (Bound: no request is between its count   *)
(* and its answer then, so that both are of one hour.)                     *)
NextHour ==
  /\ hours < MaxHours /\ \A l \in Lines : ~At(l, "answer")
  /\ hours' = hours + 1
  /\ counters' = [redis |-> Zero, memory |-> Zero]
  /\ allowed' = Zero /\ served' = Zero
  /\ UNCHANGED <<clients, bearers, line, redisUp, ghosts, contended, hits, drops>>

(* Tokens live for an hour. *)
ExpireToken(b) ==
  /\ bearers[b].status = "live"
  /\ bearers' = [bearers EXCEPT ![b].status = "expired"]
  /\ UNCHANGED <<clients, line, redisUp, counters, history>>

RedisFails ==
  /\ redisUp /\ drops < MaxDrops
  /\ redisUp' = FALSE /\ drops' = drops + 1
  /\ UNCHANGED <<clients, bearers, line, counters, allowed, served, ghosts, contended, hits, hours>>

RedisReturns ==
  /\ ~redisUp
  /\ redisUp' = TRUE
  /\ UNCHANGED <<clients, bearers, line, counters, history>>

(* A restart forgets the counts kept in memory. *)
Restart ==
  /\ drops < MaxDrops
  /\ drops' = drops + 1
  /\ line' = [l \in Lines |-> Idle]
  /\ counters' = [counters EXCEPT !.memory = Zero]
  /\ UNCHANGED <<clients, bearers, redisUp, allowed, served, ghosts, contended, hits, hours>>

ClientRequest ==
  \/ \E c \in Clients, scopes \in SUBSET ClientScopes \ {{}} : CreateApiClient(c, scopes)
  \/ \E c \in Clients : RotateApiClientSecret(c) \/ RevokeApiClient(c)
  \/ \E l \in Lines, c \in Clients, secret \in 1..MaxSecrets, asked \in SUBSET ClientScopes :
       GrantToken(l, c, secret, asked)
  \/ \E l \in Lines, b \in Bearers : AuthPublicApiHook(l, b)

LineStep(l) ==
  \/ TouchClient(l) \/ (\E b \in Bearers : IssueClientToken(l, b))
  \/ ReadStatus(l) \/ RateLimitHook(l) \/ AnswerRequest(l)

Next ==
  \/ ClientRequest \/ \E l \in Lines : LineStep(l)
  \/ NextHour \/ (\E b \in Bearers : ExpireToken(b)) \/ RedisFails \/ RedisReturns \/ Restart

Spec == Init /\ [][Next]_vars

-----------------------------------------------------------------------------
(* Properties *)

(* However Redis comes and goes, the limiter finds at most one limit of a  *)
(* client's requests within it in an hour, and one more for each outage or *)
(* restart.                                                                *)
QuotaHolds ==
  \A c \in Clients : allowed[c] <= Limit * (1 + drops)

(* As long as the calls do not overlap (with each other or the             *)
(* administrator), a revoked client gets no token and no answer.           *)
RevokedIsRefused == ~contended => ghosts = {}

(* Why the quota holds: what was let through is in the two counts, up to   *)
(* the limit of each, or in a count of memory that a restart took away;    *)
(* and there is no count in memory without an outage before it.            *)
Least(m, n) == IF m < n THEN m ELSE n
InOutage(c) == ~redisUp \/ counters.memory[c] # 0
Forgotten(c) == IF InOutage(c) THEN drops - 1 ELSE drops
Counted(c) ==
  /\ InOutage(c) => drops # 0
  /\ allowed[c] <= Least(counters.redis[c], Limit) + Least(counters.memory[c], Limit)
                     + Limit * Forgotten(c)

(* What calls rely on: a client; and when one is the only call, that the   *)
(* client it found active is active.                                       *)
Alone == ~contended => \A l, m \in Lines : ~At(l, "idle") /\ ~At(m, "idle") => l = m
LineOK(l) ==
  /\ ~At(l, "idle") => line[l].client \in Clients
  /\ ~contended /\ line[l].pc \in {"touch", "sign", "limit", "answer"} =>
       clients[line[l].client].status = "active"

(* Types, quota, revocation: with what they rest on, the inductive         *)
(* invariant.                                                              *)
PublicApiInv ==
  /\ TypeOK /\ QuotaHolds /\ RevokedIsRefused
  /\ \A b \in Bearers : bearers[b].status # "none" => bearers[b].client \in Clients
  /\ \A c \in Clients : Counted(c)
  /\ Alone /\ \A l \in Lines : LineOK(l)

(* A client is answered at most Limit requests in an hour, and 429 after   *)
(* that.                                                                   *)
LimitEnforced == drops = 0 => \A c \in Clients : served[c] <= Limit
=============================================================================
