--------------------------- MODULE ServicesProofs ---------------------------
(***************************************************************************)
(* What the platform guarantees around its courses: the public API, the    *)
(* configuration, the seed script, and checkout with one call at a time,   *)
(* for any number of calls in flight, clients, processes, orders, runs,    *)
(* crashes and outages.                                                    *)
(***************************************************************************)
EXTENDS Services, Integers, SequenceTheorems, FiniteSetTheorems, TLAPS

USE ServicesAssumption

-----------------------------------------------------------------------------
(* The public API: how calls move *)

LEMMA ApiFacts ==
  ASSUME Api!PublicApiInv
  PROVE  /\ Api!TypeOK /\ Api!QuotaHolds /\ Api!RevokedIsRefused /\ Api!Alone
         /\ \A l \in Calls : Api!LineOK(l) /\ line[l] \in Api!Line
         /\ \A c \in Clients : /\ Api!Counted(c) /\ clients[c] \in Api!Client
                               /\ allowed[c] \in Nat /\ served[c] \in Nat
                               /\ counters.redis[c] \in Nat /\ counters.memory[c] \in Nat
         /\ \A b \in Bearers : bearers[b] \in Api!Bearer
         /\ drops \in 0..MaxDrops /\ hits \in 0..MaxHits /\ hours \in 0..MaxHours
         /\ \A b \in Bearers : bearers[b].status # "none" => bearers[b].client \in Clients
BY DEF Api!PublicApiInv, Api!TypeOK

LEMMA ApiIdle ==
  /\ Api!Idle \in Api!Line /\ Api!Idle.pc = "idle"
  /\ Api!Step = {"idle", "touch", "sign", "status", "limit", "answer"}
BY DEF Api!Idle, Api!Line, Api!Step

LEMMA ApiReturns ==
  ASSUME Api!TypeOK, NEW l \in Calls, Api!Return(l)
  PROVE  /\ line' \in [Calls -> Api!Line] /\ line'[l].pc = "idle"
         /\ \A m \in Calls \ {l} : line'[m] = line[m]
<1>1. line \in [Calls -> Api!Line] /\ line' = [line EXCEPT ![l] = Api!Idle]
  BY DEF Api!TypeOK, Api!Return
<1> QED BY <1>1, ApiIdle

LEMMA ApiGoes ==
  ASSUME Api!TypeOK, NEW l \in Calls, NEW s \in Api!Step, Api!Goto(l, s)
  PROVE  /\ line' \in [Calls -> Api!Line] /\ line'[l].pc = s
         /\ line'[l].client = line[l].client
         /\ \A m \in Calls \ {l} : line'[m] = line[m]
<1> DEFINE n(r) == [r EXCEPT !.pc = s]
<1>1. ASSUME NEW r \in Api!Line
      PROVE  n(r) \in Api!Line /\ n(r).pc = s /\ n(r).client = r.client
  BY DEF Api!Line
<1>2. line \in [Calls -> Api!Line] /\ line' = [line EXCEPT ![l] = n(line[l])]
  BY DEF Api!TypeOK, Api!Goto
<1> HIDE DEF n
<1>3. line[l] \in Api!Line /\ line'[l] = n(line[l])
  BY <1>2
<1> QED BY <1>1, <1>2, <1>3

LEMMA ApiBegins ==
  ASSUME Api!TypeOK, NEW l \in Calls, NEW c \in Api!Line, Api!Begin(l, c)
  PROVE  /\ line' \in [Calls -> Api!Line] /\ line'[l] = c
         /\ line[l].pc = "idle"
         /\ \A m \in Calls \ {l} : line'[m] = line[m]
         /\ contended' = (contended \/ \E m \in Calls \ {l} : line[m].pc # "idle")
         /\ hits' \in 0..MaxHits
<1>1. /\ line \in [Calls -> Api!Line] /\ line' = [line EXCEPT ![l] = c]
      /\ hits \in 0..MaxHits /\ hits < MaxHits /\ hits' = hits + 1
  BY DEF Api!TypeOK, Api!Begin
<1> QED BY <1>1 DEF Api!Begin, Api!At

(* A call l moves on, others and clients stay, nobody is let through.      *)
LEMMA ApiCall ==
  ASSUME Api!PublicApiInv, NEW l \in Calls,
         UNCHANGED <<clients, redisUp, counters, allowed, hours, drops>>,
         line' \in [Calls -> Api!Line], \A m \in Calls \ {l} : line'[m] = line[m],
         contended' \in BOOLEAN, contended => contended',
         hits' \in 0..MaxHits, served' \in [Clients -> Nat],
         bearers' \in [Bearers -> Api!Bearer],
         \A b \in Bearers : bearers'[b].status # "none" => bearers'[b].client \in Clients,
         ghosts' \in SUBSET Clients, contended' \/ ghosts' = ghosts,
         line[l].pc = "idle" /\ line'[l].pc # "idle" =>
           contended' \/ \A m \in Calls \ {l} : line[m].pc = "idle",
         Api!LineOK(l)'
  PROVE  Api!PublicApiInv'
<1>1. /\ Api!TypeOK /\ Api!QuotaHolds /\ Api!RevokedIsRefused /\ Api!Alone
      /\ \A m \in Calls : Api!LineOK(m)
      /\ \A c \in Clients : Api!Counted(c)
  BY ApiFacts
<1>2. Api!TypeOK'
  BY <1>1 DEF Api!TypeOK
<1>3. Api!QuotaHolds'
  BY <1>1 DEF Api!QuotaHolds
<1>4. Api!RevokedIsRefused'
  BY <1>1 DEF Api!RevokedIsRefused
<1>5. \A c \in Clients : Api!Counted(c)'
  BY <1>1 DEF Api!Counted, Api!InOutage, Api!Forgotten, Api!Least
<1>6. Api!Alone'
  BY <1>1 DEF Api!Alone, Api!At
<1>7. \A m \in Calls : Api!LineOK(m)'
  <2> SUFFICES ASSUME NEW m \in Calls \ {l} PROVE Api!LineOK(m)'
    OBVIOUS
  <2> QED BY <1>1 DEF Api!LineOK, Api!At
<1> QED BY <1>2, <1>3, <1>4, <1>5, <1>6, <1>7 DEF Api!PublicApiInv

-----------------------------------------------------------------------------
(* The public API: the steps *)

LEMMA Times ==
  ASSUME NEW d \in Nat
  PROVE  /\ Limit * d \in Nat /\ Limit * (d + 1) = Limit * d + Limit
         /\ Limit * (1 + d) = Limit * d + Limit
         /\ d # 0 => Limit * (d - 1) \in Nat /\ Limit * (d - 1) = Limit * d - Limit
<1>1. Limit * d \in Nat /\ Limit * (d + 1) = Limit * d + Limit /\ 1 + d = d + 1
  OBVIOUS
<1>2. d # 0 => d - 1 \in Nat /\ (d - 1) + 1 = d
  OBVIOUS
<1>3. ASSUME NEW e \in Nat PROVE Limit * e \in Nat /\ Limit * (e + 1) = Limit * e + Limit
  OBVIOUS
<1>4. d # 0 => Limit * (d - 1) \in Nat /\ Limit * d = Limit * (d - 1) + Limit
  BY <1>2, <1>3
<1> QED BY <1>1, <1>4

(* The quota follows from the counts.                                      *)
LEMMA ApiCounts ==
  ASSUME Api!TypeOK',
         \A c \in Clients : Api!Counted(c)'
  PROVE  Api!QuotaHolds'
<1> SUFFICES ASSUME NEW c \in Clients PROVE allowed'[c] <= Limit * (1 + drops')
  BY DEF Api!QuotaHolds
<1>1. /\ drops' \in Nat /\ allowed'[c] \in Nat
      /\ counters'.redis[c] \in Nat /\ counters'.memory[c] \in Nat
  BY DEF Api!TypeOK
<1>2. /\ Api!Least(counters'.redis[c], Limit) <= Limit
      /\ Api!Least(counters'.memory[c], Limit) <= Limit
      /\ Api!Least(counters'.redis[c], Limit) \in Nat
      /\ Api!Least(counters'.memory[c], Limit) \in Nat
      /\ counters'.memory[c] = 0 => Api!Least(counters'.memory[c], Limit) = 0
  BY <1>1 DEF Api!Least
<1>3. CASE Api!InOutage(c)'
  BY <1>1, <1>2, <1>3, Times DEF Api!Counted, Api!Forgotten
<1>4. CASE ~Api!InOutage(c)'
  <2>1. Api!Least(counters'.memory[c], Limit) = 0
    BY <1>1, <1>2, <1>4 DEF Api!InOutage
  <2> QED BY <1>1, <1>2, <1>4, <2>1, Times DEF Api!Counted, Api!Forgotten
<1> QED BY <1>3, <1>4

(* What the limiter may have let through.                                  *)
Room(c) ==
  Api!Least(counters.redis[c], Limit) + Api!Least(counters.memory[c], Limit)
    + Limit * Api!Forgotten(c)

LEMMA CountedRoom ==
  \A c \in Clients : Api!Counted(c) =>
    /\ Api!InOutage(c) => drops # 0
    /\ allowed[c] <= Room(c)
BY DEF Api!Counted, Room

LEMMA RoomCounted ==
  ASSUME NEW c \in Clients, Api!InOutage(c)' => drops' # 0, allowed'[c] <= Room(c)'
  PROVE  Api!Counted(c)'
BY DEF Api!Counted, Room

(* A request that is counted is let through only below the limit.          *)
LEMMA LeastGrows ==
  ASSUME NEW r \in Nat, NEW m \in Nat, NEW k \in Nat, NEW a \in Nat,
         a <= Api!Least(r, Limit) + Api!Least(m, Limit) + k
  PROVE  /\ r + 1 <= Limit => a + 1 <= Api!Least(r + 1, Limit) + Api!Least(m, Limit) + k
         /\ m + 1 <= Limit => a + 1 <= Api!Least(r, Limit) + Api!Least(m + 1, Limit) + k
         /\ a <= Api!Least(r + 1, Limit) + Api!Least(m, Limit) + k
         /\ a <= Api!Least(r, Limit) + Api!Least(m + 1, Limit) + k
BY DEF Api!Least

LEMMA ApiInit == Api!Init => Api!PublicApiInv
<1> SUFFICES ASSUME Api!Init PROVE Api!PublicApiInv
  OBVIOUS
<1>1. /\ \A c \in Clients : /\ Api!Zero[c] = 0 /\ allowed[c] = 0
                            /\ counters.redis[c] = 0 /\ counters.memory[c] = 0
      /\ Api!Zero \in [Clients -> Nat] /\ counters = [redis |-> Api!Zero, memory |-> Api!Zero]
  BY DEF Api!Init, Api!Zero
<1>2. \A l \in Calls : line[l] = Api!Idle
  BY DEF Api!Init
<1>3. Api!TypeOK
  <2>1. clients \in [Clients -> Api!Client] /\ bearers \in [Bearers -> Api!Bearer]
    BY DEF Api!Init, Api!Client, Api!Bearer
  <2>2. line \in [Calls -> Api!Line]
    BY ApiIdle DEF Api!Init
  <2>3. /\ counters \in [redis : [Clients -> Nat], memory : [Clients -> Nat]]
        /\ allowed \in [Clients -> Nat] /\ served \in [Clients -> Nat]
    BY <1>1 DEF Api!Init
  <2>4. hits \in 0..MaxHits /\ hours \in 0..MaxHours /\ drops \in 0..MaxDrops
    BY DEF Api!Init
  <2> QED BY <2>1, <2>2, <2>3, <2>4 DEF Api!Init, Api!TypeOK
<1>4. \A c \in Clients : Api!Counted(c)
  BY <1>1 DEF Api!Init, Api!Counted, Api!InOutage, Api!Forgotten, Api!Least
<1>5. Api!QuotaHolds
  BY <1>1 DEF Api!Init, Api!QuotaHolds
<1>6. Api!RevokedIsRefused /\ Api!Alone /\ \A l \in Calls : Api!LineOK(l)
  BY <1>2, ApiIdle DEF Api!Init, Api!RevokedIsRefused, Api!Alone, Api!At, Api!LineOK
<1> QED BY <1>3, <1>4, <1>5, <1>6 DEF Api!PublicApiInv, Api!Init

(* The administrator adds a client, gives it a new secret or revokes it.   *)
LEMMA AdministerStep ==
  ASSUME Api!PublicApiInv, NEW c \in Clients,
         (\E scopes \in SUBSET Api!ClientScopes : Api!CreateApiClient(c, scopes))
           \/ Api!RotateApiClientSecret(c) \/ Api!RevokeApiClient(c)
  PROVE  Api!PublicApiInv'
<1>0. /\ Api!TypeOK /\ Api!QuotaHolds /\ Api!RevokedIsRefused /\ Api!Alone
      /\ \A l \in Calls : Api!LineOK(l) /\ line[l] \in Api!Line
      /\ \A d \in Clients : Api!Counted(d) /\ clients[d] \in Api!Client
  BY ApiFacts
<1>1. /\ UNCHANGED <<bearers, line, redisUp, counters, allowed, served, ghosts, hits, hours, drops>>
      /\ contended => contended'
      /\ contended' \in BOOLEAN
  BY <1>0 DEF Api!CreateApiClient, Api!RotateApiClientSecret, Api!RevokeApiClient, Api!history,
     Api!Meanwhile, Api!TypeOK
<1>2. /\ clients' \in [Clients -> Api!Client]
      /\ \A d \in Clients \ {c} : clients'[d] = clients[d]
  <2>1. CASE \E scopes \in SUBSET Api!ClientScopes : Api!CreateApiClient(c, scopes)
    BY <1>0, <2>1 DEF Api!CreateApiClient, Api!TypeOK, Api!Client
  <2>2. CASE Api!RotateApiClientSecret(c)
    <3>1. clients[c].secret + 1 \in 0..MaxSecrets
      BY <1>0, <2>2 DEF Api!RotateApiClientSecret, Api!Client
    <3> QED BY <1>0, <2>2, <3>1 DEF Api!RotateApiClientSecret, Api!TypeOK, Api!Client
  <2>3. CASE Api!RevokeApiClient(c)
    BY <1>0, <2>3 DEF Api!RevokeApiClient, Api!TypeOK, Api!Client
  <2> QED BY <2>1, <2>2, <2>3
<1>3. \A l \in Calls :
        ~contended' /\ line[l].pc # "idle" /\ clients[line[l].client].status = "active" =>
          clients'[line[l].client].status = "active"
  <2> SUFFICES ASSUME NEW l \in Calls, ~contended', line[l].pc # "idle",
                      clients[line[l].client].status = "active"
               PROVE  clients'[line[l].client].status = "active"
    OBVIOUS
  <2>1. line[l].client \in Clients
    BY <1>0 DEF Api!LineOK, Api!At
  <2>2. CASE line[l].client # c
    BY <1>2, <2>1, <2>2
  <2>3. CASE line[l].client = c
    <3>1. ~Api!RotateApiClientSecret(c) /\ ~Api!RevokeApiClient(c)
      BY DEF Api!RotateApiClientSecret, Api!RevokeApiClient, Api!Meanwhile, Api!At
    <3>2. clients[c].status = "none"
      BY <3>1 DEF Api!CreateApiClient
    <3> QED BY <2>3, <3>2
  <2> QED BY <2>2, <2>3
<1>4. Api!TypeOK'
  <2>1. /\ bearers' \in [Bearers -> Api!Bearer] /\ line' \in [Calls -> Api!Line]
        /\ counters' \in [redis : [Clients -> Nat], memory : [Clients -> Nat]]
        /\ allowed' \in [Clients -> Nat] /\ served' \in [Clients -> Nat]
    BY <1>0, <1>1 DEF Api!TypeOK
  <2>2. /\ redisUp' \in BOOLEAN /\ ghosts' \in SUBSET Clients
        /\ hits' \in 0..MaxHits /\ hours' \in 0..MaxHours /\ drops' \in 0..MaxDrops
    BY <1>0, <1>1 DEF Api!TypeOK
  <2> QED BY <1>1, <1>2, <2>1, <2>2 DEF Api!TypeOK
<1>5. \A d \in Clients : Api!Counted(d)'
  BY <1>0, <1>1 DEF Api!Counted, Api!InOutage, Api!Forgotten, Api!Least
<1>6. Api!QuotaHolds' /\ Api!RevokedIsRefused' /\ Api!Alone'
  BY <1>0, <1>1 DEF Api!QuotaHolds, Api!RevokedIsRefused, Api!Alone, Api!At
<1>7. \A l \in Calls : Api!LineOK(l)'
  BY <1>0, <1>1, <1>3 DEF Api!LineOK, Api!At
<1>8. \A b \in Bearers : bearers'[b].status # "none" => bearers'[b].client \in Clients
  BY <1>1, ApiFacts
<1> QED BY <1>4, <1>5, <1>6, <1>7, <1>8 DEF Api!PublicApiInv

(* A grant finds the client active, a request its token live.              *)
LEMMA GrantStep ==
  ASSUME Api!PublicApiInv, NEW l \in Calls, NEW c \in Clients, NEW secret \in 1..MaxSecrets,
         NEW scopes \in SUBSET Api!ClientScopes, Api!GrantToken(l, c, secret, scopes)
  PROVE  Api!PublicApiInv'
<1> DEFINE words == IF scopes = {} THEN Api!WordsOf(clients[c].scopes) ELSE scopes
           new == [Api!Idle EXCEPT !.pc = "touch", !.client = c, !.scope = words]
<1>0. Api!TypeOK /\ clients[c] \in Api!Client
  BY ApiFacts
<1>1. words \in SUBSET Api!Words
  BY <1>0 DEF Api!WordsOf, Api!Words, Api!ClientScopes, Api!Client
<1>2. new \in Api!Line /\ new.pc = "touch" /\ new.client = c
  BY <1>1 DEF Api!Idle, Api!Line, Api!Step
<1>3. Api!Begin(l, new) /\ clients[c].status = "active"
  BY DEF Api!GrantToken
<1> HIDE DEF new
<1>4. /\ line' \in [Calls -> Api!Line] /\ line'[l] = new
      /\ \A m \in Calls \ {l} : line'[m] = line[m]
      /\ contended' = (contended \/ \E m \in Calls \ {l} : line[m].pc # "idle")
      /\ hits' \in 0..MaxHits
  BY <1>0, <1>2, <1>3, ApiBegins
<1>5. UNCHANGED <<clients, bearers, redisUp, counters, allowed, served, ghosts, hours, drops>>
  BY <1>3 DEF Api!Begin
<1>6. Api!LineOK(l)'
  BY <1>2, <1>3, <1>4, <1>5 DEF Api!LineOK, Api!At
<1>7. contended' \in BOOLEAN /\ (contended => contended')
  BY <1>0, <1>4 DEF Api!TypeOK
<1> QED BY <1>0, <1>4, <1>5, <1>6, <1>7, ApiCall, ApiFacts DEF Api!TypeOK

LEMMA RequestStep ==
  ASSUME Api!PublicApiInv, NEW l \in Calls, NEW b \in Bearers, Api!AuthPublicApiHook(l, b)
  PROVE  Api!PublicApiInv'
<1> DEFINE new == [Api!Idle EXCEPT !.pc = "status", !.bearer = b, !.client = bearers[b].client]
<1>0. Api!TypeOK /\ bearers[b].client \in Clients
  BY ApiFacts DEF Api!AuthPublicApiHook
<1>2. new \in Api!Line /\ new.pc = "status" /\ new.client = bearers[b].client
  BY <1>0 DEF Api!Idle, Api!Line, Api!Step
<1>3. Api!Begin(l, new)
  BY DEF Api!AuthPublicApiHook
<1> HIDE DEF new
<1>4. /\ line' \in [Calls -> Api!Line] /\ line'[l] = new
      /\ \A m \in Calls \ {l} : line'[m] = line[m]
      /\ contended' = (contended \/ \E m \in Calls \ {l} : line[m].pc # "idle")
      /\ hits' \in 0..MaxHits
  BY <1>0, <1>2, <1>3, ApiBegins
<1>5. UNCHANGED <<clients, bearers, redisUp, counters, allowed, served, ghosts, hours, drops>>
  BY <1>3 DEF Api!Begin
<1>6. Api!LineOK(l)'
  BY <1>0, <1>2, <1>4, <1>5 DEF Api!LineOK, Api!At
<1>7. contended' \in BOOLEAN /\ (contended => contended')
  BY <1>0, <1>4 DEF Api!TypeOK
<1> QED BY <1>0, <1>4, <1>5, <1>6, <1>7, ApiCall, ApiFacts DEF Api!TypeOK

(* A grant signs a token, a request goes on while its client is active.    *)
LEMMA SignStep ==
  ASSUME Api!PublicApiInv, NEW l \in Calls,
         Api!TouchClient(l) \/ \E b \in Bearers : Api!IssueClientToken(l, b)
  PROVE  Api!PublicApiInv'
<1>0. /\ Api!TypeOK /\ Api!LineOK(l) /\ line[l] \in Api!Line
      /\ hits \in 0..MaxHits
  BY ApiFacts DEF Api!TypeOK
<1>1. UNCHANGED <<clients, redisUp, counters, allowed, served, contended, hits, hours, drops>>
  BY DEF Api!TouchClient, Api!IssueClientToken, Api!history
<1>2. line[l].pc \in {"touch", "sign"} /\ line[l].client \in Clients
  BY <1>0 DEF Api!TouchClient, Api!IssueClientToken, Api!LineOK, Api!At
<1>3. contended \in BOOLEAN /\ served \in [Clients -> Nat]
  BY <1>0 DEF Api!TypeOK
<1>4. CASE Api!TouchClient(l)
  <2>1. /\ line' \in [Calls -> Api!Line] /\ line'[l].pc = "sign"
        /\ line'[l].client = line[l].client
        /\ \A m \in Calls \ {l} : line'[m] = line[m]
    BY <1>0, <1>4, ApiGoes, ApiIdle DEF Api!TouchClient
  <2>2. UNCHANGED <<bearers, ghosts>>
    BY <1>4 DEF Api!TouchClient, Api!history
  <2>3. Api!LineOK(l)'
    BY <1>0, <1>1, <1>2, <2>1 DEF Api!LineOK, Api!At
  <2>4. bearers' \in [Bearers -> Api!Bearer] /\ ghosts' \in SUBSET Clients
    BY <1>0, <2>2 DEF Api!TypeOK
  <2>5. \A b \in Bearers : bearers'[b].status # "none" => bearers'[b].client \in Clients
    BY <2>2, ApiFacts
  <2> QED BY <1>0, <1>1, <1>2, <1>3, <2>1, <2>2, <2>3, <2>4, <2>5, ApiCall
<1>5. ASSUME NEW b \in Bearers, Api!IssueClientToken(l, b)
      PROVE  Api!PublicApiInv'
  <2>1. /\ line' \in [Calls -> Api!Line] /\ line'[l].pc = "idle"
        /\ \A m \in Calls \ {l} : line'[m] = line[m]
    BY <1>0, <1>5, ApiReturns DEF Api!IssueClientToken
  <2> DEFINE new == [status |-> "live", client |-> line[l].client, scope |-> line[l].scope]
  <2>2. bearers' = [bearers EXCEPT ![b] = new]
    BY <1>5 DEF Api!IssueClientToken
  <2>3. new \in Api!Bearer /\ new.client \in Clients
    BY <1>0, <1>2 DEF Api!Bearer, Api!Line
  <2> HIDE DEF new
  <2>4. /\ bearers' \in [Bearers -> Api!Bearer]
        /\ \A o \in Bearers : bearers'[o].status # "none" => bearers'[o].client \in Clients
    BY <1>0, <2>2, <2>3, ApiFacts DEF Api!TypeOK
  <2>5. contended \/ clients[line[l].client].status = "active"
    BY <1>0, <1>3, <1>5 DEF Api!IssueClientToken, Api!LineOK, Api!At
  <2>6. ghosts' \in SUBSET Clients /\ (contended \/ ghosts' = ghosts)
    BY <1>0, <1>2, <1>5, <2>5 DEF Api!IssueClientToken, Api!TypeOK
  <2>7. Api!LineOK(l)'
    BY <2>1 DEF Api!LineOK, Api!At
  <2> QED BY <1>0, <1>1, <1>2, <1>3, <2>1, <2>4, <2>6, <2>7, ApiCall
<1> QED BY <1>4, <1>5

LEMMA ReadStatusStep ==
  ASSUME Api!PublicApiInv, NEW l \in Calls, Api!ReadStatus(l)
  PROVE  Api!PublicApiInv'
<1>0. /\ Api!TypeOK /\ Api!LineOK(l) /\ line[l] \in Api!Line
      /\ hits \in 0..MaxHits
  BY ApiFacts DEF Api!TypeOK
<1>1. /\ UNCHANGED <<clients, bearers, redisUp, counters, allowed, served, ghosts, contended, hits>>
      /\ UNCHANGED <<hours, drops>> /\ line[l].pc = "status"
  BY DEF Api!ReadStatus, Api!history, Api!At
<1>2. /\ contended \in BOOLEAN /\ served \in [Clients -> Nat]
      /\ bearers \in [Bearers -> Api!Bearer] /\ ghosts \in SUBSET Clients
  BY <1>0 DEF Api!TypeOK
<1>3. /\ line' \in [Calls -> Api!Line] /\ \A m \in Calls \ {l} : line'[m] = line[m]
      /\ Api!LineOK(l)'
  <2>1. CASE clients[line[l].client].status = "active"
    <3>1. /\ line' \in [Calls -> Api!Line] /\ line'[l].pc = "limit"
          /\ line'[l].client = line[l].client
          /\ \A m \in Calls \ {l} : line'[m] = line[m]
      BY <1>0, <2>1, ApiGoes, ApiIdle DEF Api!ReadStatus
    <3> QED BY <1>0, <1>1, <2>1, <3>1 DEF Api!LineOK, Api!At
  <2>2. CASE clients[line[l].client].status # "active"
    <3>1. /\ line' \in [Calls -> Api!Line] /\ line'[l].pc = "idle"
          /\ \A m \in Calls \ {l} : line'[m] = line[m]
      BY <1>0, <2>2, ApiReturns DEF Api!ReadStatus
    <3> QED BY <3>1 DEF Api!LineOK, Api!At
  <2> QED BY <2>1, <2>2
<1>4. \A b \in Bearers : bearers'[b].status # "none" => bearers'[b].client \in Clients
  BY <1>1, ApiFacts
<1> QED BY <1>0, <1>1, <1>2, <1>3, <1>4, ApiCall

LEMMA AnswerStep ==
  ASSUME Api!PublicApiInv, NEW l \in Calls, Api!AnswerRequest(l)
  PROVE  Api!PublicApiInv'
<1>0. /\ Api!TypeOK /\ Api!LineOK(l) /\ line[l] \in Api!Line
      /\ hits \in 0..MaxHits
  BY ApiFacts DEF Api!TypeOK
<1>1. /\ UNCHANGED <<clients, bearers, redisUp, counters, allowed, contended, hits, hours, drops>>
      /\ line[l].pc = "answer"
  BY DEF Api!AnswerRequest, Api!At
<1>2. /\ contended \in BOOLEAN /\ line[l].client \in Clients
      /\ bearers \in [Bearers -> Api!Bearer] /\ ghosts \in SUBSET Clients
  BY <1>0, <1>1 DEF Api!TypeOK, Api!LineOK, Api!At
<1>3. /\ line' \in [Calls -> Api!Line] /\ line'[l].pc = "idle"
      /\ \A m \in Calls \ {l} : line'[m] = line[m]
  BY <1>0, ApiReturns DEF Api!AnswerRequest
<1>4. Api!LineOK(l)'
  BY <1>3 DEF Api!LineOK, Api!At
<1>5. contended \/ clients[line[l].client].status = "active"
  BY <1>0, <1>1, <1>2 DEF Api!LineOK, Api!At
<1>6. ghosts' \in SUBSET Clients /\ (contended \/ ghosts' = ghosts)
  BY <1>2, <1>5 DEF Api!AnswerRequest
<1>7. served' \in [Clients -> Nat]
  BY <1>0, <1>2 DEF Api!AnswerRequest, Api!TypeOK
<1>8. \A b \in Bearers : bearers'[b].status # "none" => bearers'[b].client \in Clients
  BY <1>1, ApiFacts
<1> QED BY <1>0, <1>1, <1>2, <1>3, <1>4, <1>6, <1>7, <1>8, ApiCall

(* The limiter counts a request in Redis, or in memory while Redis fails.  *)
LEMMA LimitStep ==
  ASSUME Api!PublicApiInv, NEW l \in Calls, NEW c \in Clients, c = line[l].client,
         Api!RateLimitHook(l)
  PROVE  Api!PublicApiInv'
<1> DEFINE store == IF redisUp THEN "redis" ELSE "memory"
           count == counters[store][c] + 1
<1>0. /\ Api!TypeOK /\ Api!RevokedIsRefused /\ Api!Alone
      /\ \A m \in Calls : Api!LineOK(m) /\ line[m] \in Api!Line
      /\ \A d \in Clients : /\ Api!Counted(d) /\ allowed[d] \in Nat
                            /\ counters.redis[d] \in Nat /\ counters.memory[d] \in Nat
  BY ApiFacts
<1>1. /\ UNCHANGED <<clients, bearers, redisUp, served, ghosts, contended, hits, hours, drops>>
      /\ line[l].pc = "limit"
  BY DEF Api!RateLimitHook, Api!At
<1>2. /\ line' \in [Calls -> Api!Line] /\ line'[l].pc = "answer"
      /\ line'[l].client = line[l].client
      /\ \A m \in Calls \ {l} : line'[m] = line[m]
  BY <1>0, ApiGoes, ApiIdle DEF Api!RateLimitHook
<1>3. c \in Clients
  OBVIOUS
<1>4. /\ counters \in [redis : [Clients -> Nat], memory : [Clients -> Nat]]
      /\ allowed \in [Clients -> Nat]
  BY <1>0 DEF Api!TypeOK
<1>5. /\ counters' = [counters EXCEPT ![store][c] = count]
      /\ allowed' = IF count <= Limit THEN [allowed EXCEPT ![c] = @ + 1] ELSE allowed
  BY DEF Api!RateLimitHook
<1>6. /\ redisUp => counters' = [counters EXCEPT !.redis = [@ EXCEPT ![c] = counters.redis[c] + 1]]
      /\ ~redisUp =>
           counters' = [counters EXCEPT !.memory = [@ EXCEPT ![c] = counters.memory[c] + 1]]
  BY <1>4, <1>5
<1>7. /\ counters' \in [redis : [Clients -> Nat], memory : [Clients -> Nat]]
      /\ \A d \in Clients \ {c} : /\ counters'.redis[d] = counters.redis[d]
                                  /\ counters'.memory[d] = counters.memory[d]
      /\ redisUp => /\ count = counters.redis[c] + 1
                    /\ counters'.redis[c] = count /\ counters'.memory[c] = counters.memory[c]
      /\ ~redisUp => /\ count = counters.memory[c] + 1
                     /\ counters'.memory[c] = count /\ counters'.redis[c] = counters.redis[c]
  BY <1>3, <1>4, <1>6
<1>8. /\ allowed' \in [Clients -> Nat] /\ \A d \in Clients \ {c} : allowed'[d] = allowed[d]
      /\ count <= Limit => allowed'[c] = allowed[c] + 1
      /\ ~(count <= Limit) => allowed'[c] = allowed[c]
  BY <1>3, <1>4, <1>5
<1> HIDE DEF count
<1>9. Api!TypeOK'
  BY <1>0, <1>1, <1>2, <1>7, <1>8 DEF Api!TypeOK
<1>15. redisUp' = redisUp /\ drops' = drops
  BY <1>1
<1>10. \A d \in Clients : Api!Counted(d)'
  <2> SUFFICES ASSUME NEW d \in Clients PROVE Api!Counted(d)'
    OBVIOUS
  <2>1. CASE d # c
    <3>1. /\ counters'.redis[d] = counters.redis[d] /\ counters'.memory[d] = counters.memory[d]
          /\ allowed'[d] = allowed[d] /\ Api!Counted(d)
      BY <1>0, <1>7, <1>8, <2>1
    <3>2. (Api!InOutage(d)' <=> Api!InOutage(d)) /\ Api!Forgotten(d)' = Api!Forgotten(d)
      BY <1>1, <3>1 DEF Api!InOutage, Api!Forgotten
    <3>3. Room(d)' = Room(d)
      BY <3>1, <3>2 DEF Room
    <3> QED BY <1>1, <3>1, <3>2, <3>3, CountedRoom, RoomCounted
  <2>2. CASE d = c /\ redisUp
    <3>0. redisUp /\ redisUp' /\ counters'.memory[c] = counters.memory[c] /\ c \in Clients
      BY <1>15, <1>3, <1>7, <2>2
    <3>1. Api!InOutage(c)' <=> Api!InOutage(c)
      BY <3>0 DEF Api!InOutage
    <3>2. Api!Forgotten(c)' = Api!Forgotten(c) /\ Api!Forgotten(c) \in Nat
      BY <1>0, <1>1, <1>3, <3>1 DEF Api!Forgotten, Api!Counted, Api!TypeOK
    <3>3. PICK k \in Nat : k = Limit * Api!Forgotten(c)
      BY <3>2, Times
    <3>4. /\ counters'.redis[c] = count /\ counters'.memory[c] = counters.memory[c]
          /\ count = counters.redis[c] + 1
      BY <1>7, <2>2
    <3>5. Room(c)' = Api!Least(count, Limit) + Api!Least(counters.memory[c], Limit) + k
      BY <3>2, <3>3, <3>4 DEF Room
    <3>6. allowed[c] <= Api!Least(counters.redis[c], Limit) + Api!Least(counters.memory[c], Limit)
                          + k
      BY <1>0, <1>3, <3>3, CountedRoom DEF Room
    <3>7. allowed'[c] <= Room(c)'
      <4>1. counters.redis[c] \in Nat /\ counters.memory[c] \in Nat /\ allowed[c] \in Nat
        BY <1>0, <1>3
      <4> DEFINE n == counters.redis[c] + 1
                 most(x) == Api!Least(x, Limit) + Api!Least(counters.memory[c], Limit) + k
      <4>3. (n <= Limit => allowed[c] + 1 <= most(n)) /\ allowed[c] <= most(n)
        BY <3>6, <4>1, LeastGrows
      <4>4. count = n
        BY <3>4
      <4>2. /\ count <= Limit => allowed[c] + 1 <= most(count)
            /\ allowed[c] <= most(count)
        BY <4>3, <4>4, Zenon
      <4> QED BY <1>8, <3>5, <4>2
    <3>8. Api!InOutage(c)' => drops' # 0
      BY <1>0, <1>1, <1>3, <3>1, CountedRoom
    <3> QED BY <1>3, <2>2, <3>7, <3>8, RoomCounted
  <2>3. CASE d = c /\ ~redisUp
    <3>1. Api!InOutage(c)' /\ Api!InOutage(c)
      BY <1>1, <2>3 DEF Api!InOutage
    <3>2. Api!Forgotten(c)' = Api!Forgotten(c) /\ Api!Forgotten(c) \in Nat
      BY <1>0, <1>1, <1>3, <3>1 DEF Api!Forgotten, Api!Counted, Api!TypeOK
    <3>3. PICK k \in Nat : k = Limit * Api!Forgotten(c)
      BY <3>2, Times
    <3>4. /\ counters'.memory[c] = count /\ counters'.redis[c] = counters.redis[c]
          /\ count = counters.memory[c] + 1
      BY <1>7, <2>3
    <3>5. Room(c)' = Api!Least(counters.redis[c], Limit) + Api!Least(count, Limit) + k
      BY <3>2, <3>3, <3>4 DEF Room
    <3>6. allowed[c] <= Api!Least(counters.redis[c], Limit) + Api!Least(counters.memory[c], Limit)
                          + k
      BY <1>0, <1>3, <3>3, CountedRoom DEF Room
    <3>7. allowed'[c] <= Room(c)'
      <4>1. counters.redis[c] \in Nat /\ counters.memory[c] \in Nat /\ allowed[c] \in Nat
        BY <1>0, <1>3
      <4> DEFINE n == counters.memory[c] + 1
                 most(x) == Api!Least(counters.redis[c], Limit) + Api!Least(x, Limit) + k
      <4>3. (n <= Limit => allowed[c] + 1 <= most(n)) /\ allowed[c] <= most(n)
        BY <3>6, <4>1, LeastGrows
      <4>4. count = n
        BY <3>4
      <4>2. /\ count <= Limit => allowed[c] + 1 <= most(count)
            /\ allowed[c] <= most(count)
        BY <4>3, <4>4, Zenon
      <4> QED BY <1>8, <3>5, <4>2
    <3>8. Api!InOutage(c)' => drops' # 0
      BY <1>0, <1>1, <1>3, <3>1, CountedRoom
    <3> QED BY <1>3, <2>3, <3>7, <3>8, RoomCounted
  <2> QED BY <2>1, <2>2, <2>3
<1>11. Api!QuotaHolds'
  BY <1>9, <1>10, ApiCounts
<1>12. Api!RevokedIsRefused' /\ Api!Alone'
  BY <1>0, <1>1, <1>2 DEF Api!RevokedIsRefused, Api!Alone, Api!At
<1>13. \A m \in Calls : Api!LineOK(m)'
  BY <1>0, <1>1, <1>2 DEF Api!LineOK, Api!At
<1>14. \A b \in Bearers : bearers'[b].status # "none" => bearers'[b].client \in Clients
  BY <1>1, ApiFacts
<1> QED BY <1>9, <1>10, <1>11, <1>12, <1>13, <1>14 DEF Api!PublicApiInv

(* Around the calls, time passes and Redis and the process fail.           *)
LEMMA AroundStep ==
  ASSUME Api!PublicApiInv, UNCHANGED <<clients, ghosts, contended, hits>>,
         Api!TypeOK', \A c \in Clients : Api!Counted(c)',
         \A l \in Calls : line'[l] = line[l] \/ line'[l].pc = "idle",
         \A b \in Bearers : bearers'[b].status # "none" => bearers'[b].client \in Clients
  PROVE  Api!PublicApiInv'
<1>0. Api!RevokedIsRefused /\ Api!Alone /\ \A l \in Calls : Api!LineOK(l)
  BY ApiFacts
<1>1. Api!QuotaHolds'
  BY ApiCounts
<1>2. Api!RevokedIsRefused' /\ Api!Alone'
  BY <1>0 DEF Api!RevokedIsRefused, Api!Alone, Api!At
<1>3. \A l \in Calls : Api!LineOK(l)'
  <2> SUFFICES ASSUME NEW l \in Calls PROVE Api!LineOK(l)'
    OBVIOUS
  <2>1. CASE line'[l] = line[l]
    BY <1>0, <2>1 DEF Api!LineOK, Api!At
  <2>2. CASE line'[l].pc = "idle"
    BY <2>2 DEF Api!LineOK, Api!At
  <2> QED BY <2>1, <2>2
<1> QED BY <1>1, <1>2, <1>3 DEF Api!PublicApiInv

LEMMA NextHourStep ==
  ASSUME Api!PublicApiInv, Api!NextHour
  PROVE  Api!PublicApiInv'
<1>0. /\ Api!TypeOK /\ hours \in 0..MaxHours
      /\ \A c \in Clients : Api!Counted(c)
  BY ApiFacts
<1>1. /\ UNCHANGED <<clients, bearers, line, redisUp, ghosts, contended, hits, drops>>
      /\ hours' \in 0..MaxHours
      /\ counters' = [redis |-> Api!Zero, memory |-> Api!Zero]
      /\ allowed' = Api!Zero /\ served' = Api!Zero
  BY <1>0 DEF Api!NextHour
<1>2. /\ Api!Zero \in [Clients -> Nat]
      /\ \A c \in Clients : /\ allowed'[c] = 0
                            /\ counters'.redis[c] = 0 /\ counters'.memory[c] = 0
  BY <1>1 DEF Api!Zero
<1>3. Api!TypeOK'
  <2>1. /\ counters' \in [redis : [Clients -> Nat], memory : [Clients -> Nat]]
        /\ allowed' \in [Clients -> Nat] /\ served' \in [Clients -> Nat]
    BY <1>1, <1>2
  <2> QED BY <1>0, <1>1, <2>1 DEF Api!TypeOK
<1>4. ASSUME NEW c \in Clients PROVE Api!Counted(c)'
  <2>1. drops' = drops /\ redisUp' = redisUp /\ drops \in Nat
    BY <1>0, <1>1 DEF Api!TypeOK
  <2>2. Api!InOutage(c)' => Api!InOutage(c)
    BY <1>2, <2>1 DEF Api!InOutage
  <2>3. Api!InOutage(c)' => drops' # 0
    BY <1>0, <2>1, <2>2, CountedRoom
  <2>4. Api!Forgotten(c)' \in Nat
    BY <2>1, <2>3 DEF Api!Forgotten
  <2>5. Api!Least(counters'.redis[c], Limit) = 0 /\ Api!Least(counters'.memory[c], Limit) = 0
    BY <1>2 DEF Api!Least
  <2>6. PICK k \in Nat : k = Limit * Api!Forgotten(c)'
    BY <2>4, Times
  <2>7. Room(c)' = 0 + 0 + k
    BY <2>5, <2>6 DEF Room
  <2>8. allowed'[c] <= Room(c)'
    BY <1>2, <2>7
  <2> QED BY <2>3, <2>8, RoomCounted
<1>5. \A b \in Bearers : bearers'[b].status # "none" => bearers'[b].client \in Clients
  BY <1>1, ApiFacts
<1> QED BY <1>1, <1>3, <1>4, <1>5, AroundStep

LEMMA ExpireTokenStep ==
  ASSUME Api!PublicApiInv, NEW b \in Bearers, Api!ExpireToken(b)
  PROVE  Api!PublicApiInv'
<1>0. /\ Api!TypeOK /\ \A c \in Clients : Api!Counted(c)
      /\ \A o \in Bearers : bearers[o] \in Api!Bearer
  BY ApiFacts
<1>1. /\ UNCHANGED <<clients, line, redisUp, counters, allowed, served, ghosts, contended, hits>>
      /\ UNCHANGED <<hours, drops>> /\ bearers[b].status = "live"
      /\ bearers' = [bearers EXCEPT ![b].status = "expired"]
  BY DEF Api!ExpireToken, Api!history
<1>2. /\ bearers' \in [Bearers -> Api!Bearer] /\ bearers'[b].client = bearers[b].client
      /\ \A o \in Bearers \ {b} : bearers'[o] = bearers[o]
  BY <1>0, <1>1 DEF Api!TypeOK, Api!Bearer
<1>3. Api!TypeOK'
  BY <1>0, <1>1, <1>2 DEF Api!TypeOK
<1>4. \A c \in Clients : Api!Counted(c)'
  BY <1>0, <1>1 DEF Api!Counted, Api!InOutage, Api!Forgotten, Api!Least
<1>5. \A o \in Bearers : bearers'[o].status # "none" => bearers'[o].client \in Clients
  BY <1>1, <1>2, ApiFacts
<1> QED BY <1>1, <1>3, <1>4, <1>5, AroundStep

(* Redis fails and returns, and a restart forgets the counts in memory.    *)
LEMMA FaultStep ==
  ASSUME Api!PublicApiInv, Api!RedisFails \/ Api!RedisReturns \/ Api!Restart
  PROVE  Api!PublicApiInv'
<1>0. /\ Api!TypeOK /\ drops \in Nat
      /\ \A c \in Clients : /\ Api!Counted(c) /\ allowed[c] \in Nat
                            /\ counters.redis[c] \in Nat /\ counters.memory[c] \in Nat
  BY ApiFacts DEF Api!TypeOK
<1>1. UNCHANGED <<clients, bearers, allowed, served, ghosts, contended, hits, hours>>
  BY DEF Api!RedisFails, Api!RedisReturns, Api!Restart, Api!history
<1>2. \A b \in Bearers : bearers'[b].status # "none" => bearers'[b].client \in Clients
  BY <1>1, ApiFacts
<1>3. /\ line' \in [Calls -> Api!Line]
      /\ \A l \in Calls : line'[l] = line[l] \/ line'[l].pc = "idle"
  BY <1>0, ApiIdle DEF Api!RedisFails, Api!RedisReturns, Api!Restart, Api!TypeOK
<1>4. /\ counters' \in [redis : [Clients -> Nat], memory : [Clients -> Nat]]
      /\ \A c \in Clients : /\ counters'.redis[c] = counters.redis[c]
                            /\ \/ counters'.memory[c] = counters.memory[c] /\ ~Api!Restart
                               \/ counters'.memory[c] = 0 /\ Api!Restart
  <2>1. counters \in [redis : [Clients -> Nat], memory : [Clients -> Nat]]
    BY <1>0 DEF Api!TypeOK
  <2>2. Api!Zero \in [Clients -> Nat] /\ \A c \in Clients : Api!Zero[c] = 0
    BY DEF Api!Zero
  <2>3. CASE Api!Restart
    BY <2>1, <2>2, <2>3 DEF Api!Restart
  <2>4. CASE ~Api!Restart
    BY <2>1, <2>4 DEF Api!RedisFails, Api!RedisReturns
  <2> QED BY <2>3, <2>4
<1>5. redisUp' \in BOOLEAN /\ drops' \in 0..MaxDrops
  <2>1. redisUp \in BOOLEAN /\ drops \in 0..MaxDrops
    BY <1>0 DEF Api!TypeOK
  <2>2. redisUp' = redisUp \/ redisUp' = TRUE \/ redisUp' = FALSE
    BY DEF Api!RedisFails, Api!RedisReturns, Api!Restart
  <2>3. drops' = drops \/ (drops < MaxDrops /\ drops' = drops + 1)
    BY DEF Api!RedisFails, Api!RedisReturns, Api!Restart, Api!history
  <2>4. redisUp' \in BOOLEAN
    BY <2>1, <2>2, Zenon
  <2>5. drops' \in 0..MaxDrops
    BY <2>1, <2>3
  <2> QED BY <2>4, <2>5
<1>6. Api!TypeOK'
  BY <1>0, <1>1, <1>3, <1>4, <1>5 DEF Api!TypeOK
<1>7. ASSUME NEW c \in Clients PROVE Api!Counted(c)'
  <2> DEFINE r == Api!Least(counters.redis[c], Limit)
             m == Api!Least(counters.memory[c], Limit)
  <2>1. /\ r \in Nat /\ m \in Nat /\ m <= Limit
        /\ counters.memory[c] = 0 => m = 0
        /\ Api!Least(counters'.redis[c], Limit) = r
        /\ ~Api!Restart => Api!Least(counters'.memory[c], Limit) = m
        /\ Api!Restart => Api!Least(counters'.memory[c], Limit) = 0
    BY <1>0, <1>4 DEF Api!Least
  <2>2. PICK k \in Nat : k = Limit * drops
    BY <1>0, Times
  <2>3. /\ Limit * (drops + 1) = k + Limit
        /\ drops # 0 => Limit * (drops - 1) = k - Limit
    BY <1>0, <2>2, Times
  <2>4. /\ Api!InOutage(c) => drops # 0 /\ allowed[c] <= r + m + (k - Limit)
        /\ ~Api!InOutage(c) => allowed[c] <= r + m + k /\ m = 0
    <3>2. CASE Api!InOutage(c)
      BY <1>0, <2>3, <3>2, CountedRoom DEF Room, Api!Forgotten
    <3>3. CASE ~Api!InOutage(c)
      BY <1>0, <2>1, <2>2, <3>3, CountedRoom DEF Room, Api!Forgotten, Api!InOutage
    <3> QED BY <3>2, <3>3
  <2> HIDE DEF r, m
  <2>5. CASE Api!RedisFails
    <3>1. drops' = drops + 1 /\ ~redisUp' /\ ~Api!Restart
      BY <1>0, <2>5 DEF Api!RedisFails, Api!Restart
    <3>2. Api!InOutage(c)' /\ Api!Forgotten(c)' = drops /\ drops' # 0
      BY <1>0, <3>1 DEF Api!InOutage, Api!Forgotten
    <3>3. Room(c)' = r + m + k
      BY <2>1, <2>2, <3>1, <3>2 DEF Room
    <3>4. allowed'[c] <= Room(c)'
      BY <1>0, <1>1, <2>1, <2>2, <2>4, <3>3
    <3> QED BY <3>2, <3>4, RoomCounted
  <2>6. CASE Api!RedisReturns
    <3>1. drops' = drops /\ redisUp' /\ ~redisUp /\ ~Api!Restart
      BY <1>0, <2>6 DEF Api!RedisReturns, Api!Restart, Api!history
    <3>2. /\ Api!InOutage(c) /\ drops' # 0
          /\ Api!Forgotten(c)' \in {drops, drops - 1}
      BY <2>4, <3>1 DEF Api!InOutage, Api!Forgotten
    <3>3. Room(c)' \in {r + m + k, r + m + (k - Limit)}
      BY <2>1, <2>2, <2>3, <3>1, <3>2 DEF Room
    <3>4. allowed'[c] <= Room(c)'
      BY <1>0, <1>1, <2>1, <2>2, <2>4, <3>2, <3>3
    <3> QED BY <3>2, <3>4, RoomCounted
  <2>7. CASE Api!Restart
    <3>1. drops' = drops + 1 /\ redisUp' = redisUp /\ counters'.memory[c] = 0
      BY <1>0, <1>4, <2>7 DEF Api!Restart
    <3>2. /\ Api!InOutage(c)' => ~redisUp /\ Api!InOutage(c)
          /\ Api!Forgotten(c)' = IF Api!InOutage(c)' THEN drops ELSE drops + 1
      BY <1>0, <3>1 DEF Api!InOutage, Api!Forgotten
    <3>3. Room(c)' = r + 0 + (IF Api!InOutage(c)' THEN k ELSE k + Limit)
      BY <2>1, <2>2, <2>3, <2>7, <3>2 DEF Room
    <3>4. allowed'[c] <= Room(c)'
      BY <1>0, <1>1, <2>1, <2>2, <2>4, <3>2, <3>3
    <3>5. drops' # 0
      BY <1>0, <3>1
    <3> QED BY <3>4, <3>5, RoomCounted
  <2> QED BY <2>5, <2>6, <2>7
<1> QED BY <1>1, <1>2, <1>3, <1>6, <1>7, AroundStep

LEMMA ApiStep == Api!PublicApiInv /\ (Api!Next \/ UNCHANGED apiVars) => Api!PublicApiInv'
<1> SUFFICES ASSUME Api!PublicApiInv, Api!Next \/ UNCHANGED apiVars PROVE Api!PublicApiInv'
  OBVIOUS
<1>1. CASE Api!ClientRequest
  BY <1>1, AdministerStep, GrantStep, RequestStep DEF Api!ClientRequest
<1>2. ASSUME NEW l \in Calls, Api!LineStep(l) PROVE Api!PublicApiInv'
  <2>1. CASE Api!RateLimitHook(l)
    <3>1. line[l].client \in Clients
      BY <2>1, ApiFacts DEF Api!RateLimitHook, Api!LineOK, Api!At
    <3> QED BY <2>1, <3>1, LimitStep
  <2>2. CASE ~Api!RateLimitHook(l)
    BY <1>2, <2>2, SignStep, ReadStatusStep, AnswerStep DEF Api!LineStep
  <2> QED BY <2>1, <2>2
<1>3. CASE UNCHANGED apiVars
  <2>1. UNCHANGED <<clients, bearers, line, redisUp, counters, allowed, served, ghosts, contended>>
        /\ UNCHANGED <<hits, hours, drops>>
    BY <1>3 DEF apiVars
  <2>2. Api!TypeOK' /\ \A c \in Clients : Api!Counted(c)'
    BY <2>1, ApiFacts DEF Api!TypeOK, Api!Counted, Api!InOutage, Api!Forgotten, Api!Least
  <2> QED BY <2>1, <2>2, ApiFacts, AroundStep
<1> QED BY <1>1, <1>2, <1>3, NextHourStep, ExpireTokenStep, FaultStep DEF Api!Next

(* However Redis comes and goes and the process restarts, the limiter      *)
(* finds at most one limit of a client's requests within it in an hour,    *)
(* and one more for each failure; and unless calls overlapped, a revoked   *)
(* client gets neither token nor answer.                                   *)
THEOREM QuotasHold == Spec => []PublicApiInv
<1>1. Init => Api!PublicApiInv
  BY ApiInit DEF Init
<1>2. Api!PublicApiInv /\ [Next]_vars => Api!PublicApiInv'
  BY ApiStep DEF Next, Only, vars
<1>3. Spec => []Api!PublicApiInv
  BY <1>1, <1>2, PTL DEF Spec
<1> QED BY <1>3, PTL DEF PublicApiInv

-----------------------------------------------------------------------------
(* The configuration: how calls move *)

LEMMA ConfigFacts ==
  ASSUME Config!SettingsInv
  PROVE  /\ Config!TypeOK /\ Config!Propagates /\ Config!EditsKept /\ Config!Alone
         /\ \A l \in Lookups : Config!LookupOK(l) /\ lookup[l] \in Config!Lookup
         /\ \A n \in Nodes : memory[n] \in Config!Copy
         /\ redisCopy \in Config!Copy /\ configRow \in Config!Config
         /\ edits \in 0..MaxEdits /\ sinceEdit \in 0..Ttl /\ outages \in 0..MaxOutages
         /\ Config!Orderly =>
              /\ Config!Behind(redisCopy) /\ Config!RedisKnows
              /\ \A n \in Nodes : Config!Behind(memory[n]) /\ Config!WriterKnows(n)
BY DEF Config!SettingsInv, Config!TypeOK

LEMMA ConfigIdle ==
  /\ Config!Idle \in Config!Lookup /\ Config!Idle.pc = "idle"
  /\ Config!DefaultConfig \in Config!Config
  /\ Config!Gone \in Config!Copy /\ Config!Gone.value = Config!DefaultConfig
  /\ Config!Gone.age = Ttl
  /\ \A v \in Config!Config : /\ Config!Fresh(v) \in Config!Copy
                              /\ Config!Fresh(v).value = v /\ Config!Fresh(v).age = 0
<1>1. Config!DefaultConfig \in Config!Config
  BY DEF Config!DefaultConfig, Config!Config
<1>2. (CHOOSE s \in Sections : TRUE) \in Sections
  OBVIOUS
<1>3. Config!Idle \in Config!Lookup /\ Config!Idle.pc = "idle"
  BY <1>1, <1>2 DEF Config!Idle, Config!Lookup, Config!Step
<1> QED BY <1>1, <1>3 DEF Config!Gone, Config!Copy, Config!Fresh

LEMMA ConfigReturns ==
  ASSUME Config!TypeOK, NEW l \in Lookups, Config!Return(l)
  PROVE  /\ lookup' \in [Lookups -> Config!Lookup] /\ lookup'[l].pc = "idle"
         /\ \A m \in Lookups \ {l} : lookup'[m] = lookup[m]
<1>1. lookup \in [Lookups -> Config!Lookup] /\ lookup' = [lookup EXCEPT ![l] = Config!Idle]
  BY DEF Config!TypeOK, Config!Return
<1> QED BY <1>1, ConfigIdle

LEMMA ConfigGoes ==
  ASSUME Config!TypeOK, NEW l \in Lookups, NEW s \in Config!Step, Config!Goto(l, s)
  PROVE  /\ lookup' \in [Lookups -> Config!Lookup] /\ lookup'[l].pc = s
         /\ lookup'[l].node = lookup[l].node /\ lookup'[l].verb = lookup[l].verb
         /\ lookup'[l].edit = lookup[l].edit /\ lookup'[l].section = lookup[l].section
         /\ lookup'[l].value = lookup[l].value /\ lookup'[l].next = lookup[l].next
         /\ \A m \in Lookups \ {l} : lookup'[m] = lookup[m]
<1> DEFINE n(r) == [r EXCEPT !.pc = s]
<1>1. ASSUME NEW r \in Config!Lookup
      PROVE  /\ n(r) \in Config!Lookup /\ n(r).pc = s /\ n(r).node = r.node
             /\ n(r).verb = r.verb /\ n(r).edit = r.edit /\ n(r).section = r.section
             /\ n(r).value = r.value /\ n(r).next = r.next
  BY DEF Config!Lookup
<1>2. lookup \in [Lookups -> Config!Lookup] /\ lookup' = [lookup EXCEPT ![l] = n(lookup[l])]
  BY DEF Config!TypeOK, Config!Goto
<1> HIDE DEF n
<1>3. lookup[l] \in Config!Lookup /\ lookup'[l] = n(lookup[l])
  BY <1>2
<1> QED BY <1>1, <1>2, <1>3

(* A call that has found a configuration.                                  *)
LEMMA ConfigFinds ==
  ASSUME Config!TypeOK, NEW l \in Lookups, NEW s \in Config!Step, NEW v \in Config!Config,
         lookup' = [lookup EXCEPT ![l].pc = s, ![l].value = v]
  PROVE  /\ lookup' \in [Lookups -> Config!Lookup] /\ lookup'[l].pc = s
         /\ lookup'[l].node = lookup[l].node /\ lookup'[l].value = v
         /\ \A m \in Lookups \ {l} : lookup'[m] = lookup[m]
<1> DEFINE n(r) == [r EXCEPT !.pc = s, !.value = v]
<1>1. ASSUME NEW r \in Config!Lookup
      PROVE  /\ n(r) \in Config!Lookup /\ n(r).pc = s /\ n(r).node = r.node /\ n(r).value = v
  BY DEF Config!Lookup
<1>2. lookup \in [Lookups -> Config!Lookup] /\ lookup' = [lookup EXCEPT ![l] = n(lookup[l])]
  BY DEF Config!TypeOK
<1> HIDE DEF n
<1>3. lookup[l] \in Config!Lookup /\ lookup'[l] = n(lookup[l])
  BY <1>2
<1> QED BY <1>1, <1>2, <1>3

LEMMA ConfigBegins ==
  ASSUME Config!TypeOK, NEW l \in Lookups, NEW c \in Config!Lookup, Config!Begin(l, c)
  PROVE  /\ lookup' \in [Lookups -> Config!Lookup] /\ lookup'[l] = c
         /\ lookup[l].pc = "idle"
         /\ \A m \in Lookups \ {l} : lookup'[m] = lookup[m]
         /\ clash' = (clash \/ \E m \in Lookups \ {l} : lookup[m].pc # "idle")
<1>1. /\ lookup \in [Lookups -> Config!Lookup] /\ lookup' = [lookup EXCEPT ![l] = c]
  BY DEF Config!TypeOK, Config!Begin
<1> QED BY <1>1 DEF Config!Begin, Config!At

(* What propagates follows from the ages of the copies.                    *)
LEMMA AgesPropagate ==
  ASSUME Config!TypeOK',
         Config!Orderly' => /\ Config!Behind(redisCopy)'
                            /\ \A n \in Nodes : Config!Behind(memory[n])'
  PROVE  Config!Propagates'
<1>1. ASSUME NEW c \in Config!Copy, c.value = configRow' \/ c.age >= sinceEdit', c.age < Ttl
      PROVE  c.value = configRow' \/ sinceEdit' < Ttl
  <2>1. c.age \in 0..Ttl /\ sinceEdit' \in 0..Ttl
    BY DEF Config!Copy, Config!TypeOK
  <2> QED BY <1>1, <2>1
<1>2. redisCopy' \in Config!Copy /\ \A n \in Nodes : memory'[n] \in Config!Copy
  BY DEF Config!TypeOK
<1> QED BY <1>1, <1>2 DEF Config!Propagates, Config!Orderly, Config!Current, Config!Behind,
           Config!IsFresh

(* A call l takes a step: the others are idle unless calls overlapped.     *)
LEMMA ConfigWrites ==
  ASSUME Config!SettingsInv, NEW l \in Lookups, lookup[l].pc # "idle",
         UNCHANGED <<redisOn, clash, outages>>, Config!TypeOK',
         \A m \in Lookups \ {l} : lookup'[m] = lookup[m],
         Config!LookupOK(l)', Config!EditsKept',
         Config!Orderly /\ (\A m \in Lookups \ {l} : lookup[m].pc = "idle") =>
           /\ Config!Behind(redisCopy)' /\ Config!RedisKnows'
           /\ \A n \in Nodes : Config!Behind(memory[n])' /\ Config!WriterKnows(n)'
  PROVE  Config!SettingsInv'
<1>0. Config!Alone /\ \A m \in Lookups : Config!LookupOK(m)
  BY ConfigFacts
<1>1. Config!Orderly' <=> Config!Orderly
  BY DEF Config!Orderly
<1>2. Config!Orderly => \A m \in Lookups \ {l} : lookup[m].pc = "idle"
  BY <1>0 DEF Config!Orderly, Config!Alone, Config!At
<1>3. Config!Orderly' =>
        /\ Config!Behind(redisCopy)' /\ Config!RedisKnows'
        /\ \A n \in Nodes : Config!Behind(memory[n])' /\ Config!WriterKnows(n)'
  BY <1>1, <1>2
<1>4. Config!Propagates'
  BY <1>3, AgesPropagate
<1>5. Config!Alone'
  BY <1>0 DEF Config!Alone, Config!At
<1>6. \A m \in Lookups : Config!LookupOK(m)'
  <2> SUFFICES ASSUME NEW m \in Lookups \ {l} PROVE Config!LookupOK(m)'
    OBVIOUS
  <2>1. lookup'[m] = lookup[m] /\ redisOn' = redisOn /\ Config!LookupOK(m)
    BY <1>0
  <2>2. Config!Orderly' => lookup'[m].pc = "idle"
    BY <1>1, <1>2, <2>1
  <2> QED BY <2>1, <2>2 DEF Config!LookupOK
<1> QED BY <1>3, <1>4, <1>5, <1>6 DEF Config!SettingsInv

(* A call l that writes nothing but its own state.                         *)
LEMMA ConfigCall ==
  ASSUME Config!SettingsInv, NEW l \in Lookups, lookup[l].pc \notin {"publish", "keep"},
         UNCHANGED <<redisOn, configRow, redisCopy, memory, sinceEdit, wanted, writers, outages>>,
         lookup' \in [Lookups -> Config!Lookup],
         \A m \in Lookups \ {l} : lookup'[m] = lookup[m],
         clash' \in BOOLEAN, clash => clash',
         revisions' \in Seq(Config!Config), edits' \in 0..MaxEdits,
         lookup[l].pc = "idle" /\ lookup'[l].pc # "idle" =>
           clash' \/ \A m \in Lookups \ {l} : lookup[m].pc = "idle",
         Config!LookupOK(l)'
  PROVE  Config!SettingsInv'
<1>0. /\ Config!TypeOK /\ Config!Propagates /\ Config!EditsKept /\ Config!Alone
      /\ \A m \in Lookups : Config!LookupOK(m)
      /\ Config!Orderly =>
           /\ Config!Behind(redisCopy) /\ Config!RedisKnows
           /\ \A n \in Nodes : Config!Behind(memory[n]) /\ Config!WriterKnows(n)
  BY ConfigFacts
<1>1. Config!TypeOK'
  BY <1>0 DEF Config!TypeOK
<1>2. Config!Orderly' => Config!Orderly
  BY DEF Config!Orderly
<1>3. Config!EditsKept'
  BY <1>0 DEF Config!EditsKept
<1>4. Config!Alone'
  BY <1>0 DEF Config!Alone, Config!At
<1>5. \A m \in Lookups : Config!LookupOK(m)'
  <2> SUFFICES ASSUME NEW m \in Lookups \ {l} PROVE Config!LookupOK(m)'
    OBVIOUS
  <2>1. /\ lookup'[m] = lookup[m] /\ redisOn' = redisOn /\ writers' = writers
        /\ configRow' = configRow /\ Config!LookupOK(m)
    BY <1>0
  <2> QED BY <1>2, <2>1 DEF Config!LookupOK
<1>6. Config!Orderly' =>
        /\ Config!Behind(redisCopy)' /\ Config!RedisKnows'
        /\ \A n \in Nodes : Config!Behind(memory[n])' /\ Config!WriterKnows(n)'
  <2> SUFFICES ASSUME Config!Orderly'
               PROVE  /\ Config!Behind(redisCopy)' /\ Config!RedisKnows'
                      /\ \A n \in Nodes : Config!Behind(memory[n])' /\ Config!WriterKnows(n)'
    OBVIOUS
  <2>1. \A m \in Lookups : lookup[m].pc \in {"publish", "keep"} => lookup'[m] = lookup[m]
    OBVIOUS
  <2>2. Config!Behind(redisCopy)' /\ \A n \in Nodes : Config!Behind(memory[n])'
    BY <1>0, <1>2 DEF Config!Behind
  <2>3. Config!RedisKnows'
    BY <1>0, <1>2, <2>1 DEF Config!RedisKnows, Config!IsFresh, Config!At
  <2>4. \A n \in Nodes : Config!WriterKnows(n)'
    BY <1>0, <1>2, <2>1 DEF Config!WriterKnows, Config!IsFresh
  <2> QED BY <2>2, <2>3, <2>4
<1>7. Config!Propagates'
  BY <1>1, <1>6, AgesPropagate
<1> QED BY <1>1, <1>3, <1>4, <1>5, <1>6, <1>7 DEF Config!SettingsInv

-----------------------------------------------------------------------------
(* The configuration: the steps *)

LEMMA ConfigInit == Config!Init => Config!SettingsInv
<1> SUFFICES ASSUME Config!Init PROVE Config!SettingsInv
  OBVIOUS
<1>1. /\ lookup = [l \in Lookups |-> Config!Idle]
      /\ memory = [n \in Nodes |-> Config!Gone] /\ redisCopy = Config!Gone
      /\ configRow = Config!DefaultConfig /\ wanted = Config!DefaultConfig
      /\ redisOn \in BOOLEAN /\ clash = FALSE /\ edits = 0 /\ outages = 0
      /\ revisions = <<>> /\ writers = {} /\ sinceEdit = Ttl
  BY DEF Config!Init
<1>2. Config!TypeOK
  <2>1. /\ lookup \in [Lookups -> Config!Lookup] /\ memory \in [Nodes -> Config!Copy]
        /\ redisCopy \in Config!Copy /\ configRow \in Config!Config /\ wanted \in Config!Config
    BY <1>1, ConfigIdle
  <2>2. revisions \in Seq(Config!Config)
    BY <1>1, EmptySeq
  <2>3. edits \in 0..MaxEdits /\ outages \in 0..MaxOutages /\ sinceEdit \in 0..Ttl
    BY <1>1
  <2> QED BY <1>1, <2>1, <2>2, <2>3 DEF Config!TypeOK
<1>3. \A l \in Lookups : lookup[l].pc = "idle"
  BY <1>1, ConfigIdle
<1>4. Config!Alone /\ \A l \in Lookups : Config!LookupOK(l)
  BY <1>3 DEF Config!Alone, Config!At, Config!LookupOK
<1>5. /\ Config!Behind(redisCopy) /\ Config!RedisKnows
      /\ \A n \in Nodes : Config!Behind(memory[n]) /\ Config!WriterKnows(n)
  <2>1. ~Config!IsFresh(redisCopy) /\ \A n \in Nodes : ~Config!IsFresh(memory[n])
    BY <1>1, ConfigIdle DEF Config!IsFresh
  <2>2. Config!Behind(redisCopy) /\ \A n \in Nodes : Config!Behind(memory[n])
    BY <1>1, ConfigIdle DEF Config!Behind
  <2> QED BY <2>1, <2>2 DEF Config!RedisKnows, Config!WriterKnows
<1>6. Config!Propagates
  BY <1>1, ConfigIdle DEF Config!Propagates, Config!Current
<1>7. Config!EditsKept
  BY <1>1 DEF Config!EditsKept
<1> QED BY <1>2, <1>4, <1>5, <1>6, <1>7 DEF Config!SettingsInv

(* A lookup or an edit begins.                                             *)
LEMMA RequestConfigStep ==
  ASSUME Config!SettingsInv, NEW l \in Lookups, NEW n \in Nodes, NEW s \in Sections,
         \/ Config!GetConfig(l, n) \/ Config!UpdateConfig(l, n, s)
         \/ Config!RollbackConfigRevision(l, n, s)
  PROVE  Config!SettingsInv'
<1>0. Config!TypeOK /\ edits \in 0..MaxEdits
  BY ConfigFacts
<1>1. PICK c \in Config!Lookup :
        /\ Config!Begin(l, c) /\ c.node = n
        /\ c.pc = "memory" \/ (c.pc = "revision" /\ c.verb # "read")
        /\ edits' \in 0..MaxEdits
  <2>1. CASE Config!GetConfig(l, n)
    <3> DEFINE c == [Config!Idle EXCEPT !.pc = "memory", !.node = n]
    <3>1. c \in Config!Lookup /\ c.pc = "memory" /\ c.node = n
      BY ConfigIdle DEF Config!Lookup, Config!Step
    <3>2. Config!Begin(l, c) /\ edits' = edits
      BY <2>1 DEF Config!GetConfig, Config!Unstarted
    <3> QED BY <1>0, <3>1, <3>2
  <2>2. ASSUME NEW verb \in {"update", "rollback"}, NEW first \in {"memory", "revision"},
               Config!StartEdit(l, n, verb, s, first)
        PROVE  \E c \in Config!Lookup :
                 /\ Config!Begin(l, c) /\ c.node = n
                 /\ c.pc = "memory" \/ (c.pc = "revision" /\ c.verb # "read")
                 /\ edits' \in 0..MaxEdits
    <3> DEFINE c == [Config!Idle EXCEPT !.pc = first, !.node = n, !.verb = verb,
                                        !.edit = edits + 1, !.section = s]
    <3>1. edits + 1 \in 0..MaxEdits /\ edits' = edits + 1
      BY <1>0, <2>2 DEF Config!StartEdit
    <3>2. c \in Config!Lookup /\ c.pc = first /\ c.node = n /\ c.verb # "read"
      BY <3>1, ConfigIdle DEF Config!Lookup, Config!Step
    <3>3. Config!Begin(l, c)
      BY <2>2 DEF Config!StartEdit
    <3> QED BY <3>1, <3>2, <3>3
  <2> QED BY <2>1, <2>2 DEF Config!UpdateConfig, Config!RollbackConfigRevision
<1>2. UNCHANGED <<redisOn, configRow, redisCopy, memory, revisions, sinceEdit, wanted, writers,
                  outages>>
  BY DEF Config!GetConfig, Config!UpdateConfig, Config!RollbackConfigRevision, Config!StartEdit,
     Config!Unstarted, Config!caches
<1>3. /\ lookup' \in [Lookups -> Config!Lookup] /\ lookup'[l] = c /\ lookup[l].pc = "idle"
      /\ \A m \in Lookups \ {l} : lookup'[m] = lookup[m]
      /\ clash' = (clash \/ \E m \in Lookups \ {l} : lookup[m].pc # "idle")
  BY <1>0, <1>1, ConfigBegins
<1>4. Config!LookupOK(l)'
  BY <1>1, <1>3 DEF Config!LookupOK
<1>5. clash' \in BOOLEAN /\ (clash => clash') /\ revisions' \in Seq(Config!Config)
  BY <1>0, <1>2, <1>3 DEF Config!TypeOK
<1> QED BY <1>1, <1>2, <1>3, <1>4, <1>5, ConfigCall

(* getConfig reads memory, Redis and the row, in that order.               *)
LEMMA ReadConfigStep ==
  ASSUME Config!SettingsInv, NEW l \in Lookups,
         Config!TryMemory(l) \/ Config!TryRedis(l) \/ Config!LoadFromDb(l)
  PROVE  Config!SettingsInv'
<1>0. /\ Config!TypeOK /\ Config!Alone /\ Config!LookupOK(l) /\ lookup[l] \in Config!Lookup
      /\ \A n \in Nodes : memory[n] \in Config!Copy
      /\ redisCopy \in Config!Copy /\ configRow \in Config!Config
      /\ Config!Orderly =>
           Config!RedisKnows /\ \A n \in Nodes : Config!WriterKnows(n)
  BY ConfigFacts
<1>1. /\ UNCHANGED <<redisOn, configRow, redisCopy, memory, revisions, edits, sinceEdit, wanted>>
      /\ UNCHANGED <<writers, clash, outages>>
      /\ lookup[l].pc \in {"memory", "redis", "db"}
  BY DEF Config!TryMemory, Config!TryRedis, Config!LoadFromDb, Config!caches, Config!history,
     Config!At
<1>2. Config!Orderly => \A m \in Lookups \ {l} : lookup[m].pc = "idle"
  BY <1>0, <1>1 DEF Config!Orderly, Config!Alone, Config!At
<1>3. /\ Config!Orderly' = Config!Orderly /\ lookup[l].node \in Nodes
      /\ revisions' \in Seq(Config!Config) /\ edits' \in 0..MaxEdits
      /\ clash' \in BOOLEAN
  BY <1>0, <1>1 DEF Config!Orderly, Config!LookupOK, Config!TypeOK
<1>4. /\ lookup' \in [Lookups -> Config!Lookup]
      /\ \A m \in Lookups \ {l} : lookup'[m] = lookup[m]
      /\ Config!LookupOK(l)'
  <2>1. CASE Config!TryMemory(l)
    <3> DEFINE copy == memory[lookup[l].node]
    <3>1. copy \in Config!Copy /\ copy.value \in Config!Config
      BY <1>0, <1>3 DEF Config!Copy
    <3>2. CASE Config!IsFresh(copy)
      <4>1. /\ lookup' \in [Lookups -> Config!Lookup] /\ lookup'[l].pc = "got"
            /\ lookup'[l].node = lookup[l].node /\ lookup'[l].value = copy.value
            /\ \A m \in Lookups \ {l} : lookup'[m] = lookup[m]
        BY <1>0, <2>1, <3>1, <3>2, ConfigFinds DEF Config!TryMemory, Config!Got, Config!Step
      <4>2. Config!Orderly /\ writers \subseteq {lookup[l].node} => copy.value = configRow
        BY <1>0, <1>1, <1>2, <1>3, <3>2 DEF Config!WriterKnows
      <4>3. Config!LookupOK(l)'
        BY <1>1, <1>3, <4>1, <4>2 DEF Config!LookupOK
      <4> QED BY <4>1, <4>3
    <3>3. CASE ~Config!IsFresh(copy)
      <4>1. PICK s \in {"redis", "db"} : Config!Goto(l, s) /\ (s = "redis" => redisOn)
        BY <2>1, <3>3 DEF Config!TryMemory
      <4>2. s \in Config!Step
        BY DEF Config!Step
      <4>3. /\ lookup' \in [Lookups -> Config!Lookup] /\ lookup'[l].pc = s
            /\ lookup'[l].node = lookup[l].node
            /\ \A m \in Lookups \ {l} : lookup'[m] = lookup[m]
        BY <1>0, <4>1, <4>2, ConfigGoes
      <4>4. redisOn' = redisOn
        BY <1>1
      <4>5. Config!LookupOK(l)'
        BY <1>3, <4>1, <4>3, <4>4 DEF Config!LookupOK
      <4> QED BY <4>3, <4>5
    <3> QED BY <3>2, <3>3
  <2>2. CASE Config!TryRedis(l)
    <3>1. CASE Config!IsFresh(redisCopy)
      <4>1. redisCopy.value \in Config!Config /\ "fill" \in Config!Step
        BY <1>0 DEF Config!Copy, Config!Step
      <4>2. /\ lookup' \in [Lookups -> Config!Lookup] /\ lookup'[l].pc = "fill"
            /\ lookup'[l].node = lookup[l].node /\ lookup'[l].value = redisCopy.value
            /\ \A m \in Lookups \ {l} : lookup'[m] = lookup[m]
        BY <1>0, <2>2, <3>1, <4>1, ConfigFinds DEF Config!TryRedis, Config!Fill
      <4>3. Config!Orderly => redisCopy.value = configRow
        BY <1>0, <1>1, <1>2, <3>1 DEF Config!RedisKnows, Config!At
      <4>4. Config!LookupOK(l)'
        BY <1>1, <1>3, <4>2, <4>3 DEF Config!LookupOK
      <4> QED BY <4>2, <4>4
    <3>2. CASE ~Config!IsFresh(redisCopy)
      <4>1. Config!Goto(l, "db") /\ "db" \in Config!Step
        BY <2>2, <3>2 DEF Config!TryRedis, Config!Step
      <4>2. /\ lookup' \in [Lookups -> Config!Lookup] /\ lookup'[l].pc = "db"
            /\ lookup'[l].node = lookup[l].node
            /\ \A m \in Lookups \ {l} : lookup'[m] = lookup[m]
        BY <1>0, <4>1, ConfigGoes
      <4>3. Config!LookupOK(l)'
        BY <1>3, <4>2 DEF Config!LookupOK
      <4> QED BY <4>2, <4>3
    <3> QED BY <3>1, <3>2
  <2>3. CASE Config!LoadFromDb(l)
    <3>1. PICK s \in {"share", "fill"} :
            /\ lookup' = [lookup EXCEPT ![l].pc = s, ![l].value = configRow]
            /\ s = "share" => redisOn
      BY <2>3 DEF Config!LoadFromDb
    <3>2. s \in Config!Step
      BY DEF Config!Step
    <3>3. /\ lookup' \in [Lookups -> Config!Lookup] /\ lookup'[l].pc = s
          /\ lookup'[l].node = lookup[l].node /\ lookup'[l].value = configRow
          /\ \A m \in Lookups \ {l} : lookup'[m] = lookup[m]
      BY <1>0, <3>1, <3>2, ConfigFinds
    <3>4. redisOn' = redisOn /\ configRow' = configRow
      BY <1>1
    <3>5. Config!LookupOK(l)'
      BY <1>3, <3>1, <3>3, <3>4 DEF Config!LookupOK
    <3> QED BY <3>3, <3>5
  <2> QED BY <2>1, <2>2, <2>3
<1> QED BY <1>1, <1>3, <1>4, ConfigCall

(* What was read from the row goes to Redis and to memory.                 *)
LEMMA WriteBackStep ==
  ASSUME Config!SettingsInv, NEW l \in Lookups, Config!WriteBack(l) \/ Config!FillMemory(l)
  PROVE  Config!SettingsInv'
<1>0. /\ Config!TypeOK /\ Config!LookupOK(l) /\ lookup[l] \in Config!Lookup
      /\ Config!EditsKept
      /\ \A n \in Nodes : memory[n] \in Config!Copy
      /\ Config!Orderly =>
           /\ Config!Behind(redisCopy) /\ Config!RedisKnows
           /\ \A n \in Nodes : Config!Behind(memory[n]) /\ Config!WriterKnows(n)
  BY ConfigFacts
<1>1. /\ UNCHANGED <<redisOn, configRow, revisions, edits, sinceEdit, wanted, writers, clash>>
      /\ UNCHANGED outages
      /\ lookup[l].pc \in {"share", "fill"} /\ lookup[l].node \in Nodes
      /\ lookup[l].value \in Config!Config
      /\ Config!Orderly => lookup[l].value = configRow
  BY <1>0 DEF Config!WriteBack, Config!FillMemory, Config!history, Config!At, Config!LookupOK,
     Config!Lookup
<1>2. PICK copy \in Config!Copy :
        /\ copy = Config!Fresh(lookup[l].value) /\ copy.value = lookup[l].value
  BY <1>1, ConfigIdle
<1>3. PICK s \in {"fill", "got"} : Config!Goto(l, s) /\ s \in Config!Step
  BY DEF Config!WriteBack, Config!FillMemory, Config!Step
<1>4. /\ lookup' \in [Lookups -> Config!Lookup] /\ lookup'[l].pc = s
      /\ lookup'[l].node = lookup[l].node /\ lookup'[l].value = lookup[l].value
      /\ \A m \in Lookups \ {l} : lookup'[m] = lookup[m]
  BY <1>0, <1>3, ConfigGoes
<1>5. Config!EditsKept'
  BY <1>0, <1>1 DEF Config!EditsKept
<1>6. Config!LookupOK(l)'
  <2>1. Config!Orderly' => Config!Orderly
    BY <1>1 DEF Config!Orderly
  <2>2. configRow' = configRow
    BY <1>1
  <2> QED BY <1>1, <1>4, <2>1, <2>2 DEF Config!LookupOK
<1>7. \A m \in Lookups : /\ lookup[m].pc \in {"publish", "keep"} => m # l
                         /\ m # l => lookup'[m] = lookup[m]
  BY <1>1, <1>4
<1>8. CASE Config!WriteBack(l)
  <2>1. redisCopy' = copy /\ memory' = memory /\ redisOn
    BY <1>0, <1>2, <1>8 DEF Config!WriteBack, Config!LookupOK, Config!At
  <2>2. Config!TypeOK'
    BY <1>0, <1>1, <1>4, <2>1 DEF Config!TypeOK
  <2>3. Config!Orderly => Config!Behind(redisCopy)' /\ Config!RedisKnows'
    BY <1>1, <1>2, <2>1 DEF Config!Behind, Config!RedisKnows
  <2>4. Config!Orderly => \A n \in Nodes : Config!Behind(memory[n])' /\ Config!WriterKnows(n)'
    BY <1>0, <1>1, <1>7, <2>1 DEF Config!Behind, Config!WriterKnows, Config!IsFresh
  <2> QED BY <1>1, <1>4, <1>5, <1>6, <2>2, <2>3, <2>4, ConfigWrites
<1>9. CASE Config!FillMemory(l)
  <2>1. redisCopy' = redisCopy /\ memory' = [memory EXCEPT ![lookup[l].node] = copy]
    BY <1>2, <1>9 DEF Config!FillMemory
  <2>2. /\ memory' \in [Nodes -> Config!Copy] /\ memory'[lookup[l].node] = copy
        /\ \A n \in Nodes \ {lookup[l].node} : memory'[n] = memory[n]
    BY <1>0, <1>1, <2>1 DEF Config!TypeOK
  <2>3. Config!TypeOK'
    BY <1>0, <1>1, <1>4, <2>1, <2>2 DEF Config!TypeOK
  <2>4. Config!Orderly => Config!Behind(redisCopy)' /\ Config!RedisKnows'
    BY <1>0, <1>1, <1>7, <2>1 DEF Config!Behind, Config!RedisKnows, Config!IsFresh, Config!At
  <2>5. ASSUME Config!Orderly, NEW n \in Nodes
        PROVE  Config!Behind(memory[n])' /\ Config!WriterKnows(n)'
    <3>1. CASE n = lookup[l].node
      BY <1>1, <1>2, <2>2, <2>5, <3>1 DEF Config!Behind, Config!WriterKnows
    <3>2. CASE n # lookup[l].node
      BY <1>0, <1>1, <1>7, <2>2, <2>5, <3>2 DEF Config!Behind, Config!WriterKnows, Config!IsFresh
    <3> QED BY <3>1, <3>2
  <2> QED BY <1>1, <1>4, <1>5, <1>6, <2>3, <2>4, <2>5, ConfigWrites
<1> QED BY <1>8, <1>9

(* A read ends; an edit merges its patch and keeps a snapshot.             *)
LEMMA PrepareStep ==
  ASSUME Config!SettingsInv, NEW l \in Lookups,
         \/ Config!AnswerRead(l) \/ Config!PickRevision(l) \/ Config!Merge(l)
         \/ Config!InsertRevision(l)
  PROVE  Config!SettingsInv'
<1>0. /\ Config!TypeOK /\ Config!LookupOK(l) /\ lookup[l] \in Config!Lookup
      /\ revisions \in Seq(Config!Config) /\ lookup \in [Lookups -> Config!Lookup]
  BY ConfigFacts DEF Config!TypeOK
<1>1. /\ UNCHANGED <<redisOn, configRow, redisCopy, memory, edits, sinceEdit, wanted, writers>>
      /\ UNCHANGED <<clash, outages>>
      /\ lookup[l].pc \in {"got", "revision", "snapshot"} /\ lookup[l].node \in Nodes
  BY <1>0 DEF Config!AnswerRead, Config!PickRevision, Config!Merge, Config!InsertRevision,
     Config!caches, Config!history, Config!At, Config!LookupOK
<1>2. /\ Config!Orderly' => Config!Orderly
      /\ configRow' = configRow /\ writers' = writers
      /\ clash' \in BOOLEAN /\ edits' \in 0..MaxEdits
  BY <1>0, <1>1 DEF Config!Orderly, Config!TypeOK
<1>3. /\ lookup' \in [Lookups -> Config!Lookup]
      /\ \A m \in Lookups \ {l} : lookup'[m] = lookup[m]
      /\ revisions' \in Seq(Config!Config) /\ Config!LookupOK(l)'
  <2>1. CASE Config!AnswerRead(l)
    <3>1. /\ lookup' \in [Lookups -> Config!Lookup] /\ lookup'[l].pc = "idle"
          /\ \A m \in Lookups \ {l} : lookup'[m] = lookup[m]
      BY <1>0, <2>1, ConfigReturns DEF Config!AnswerRead
    <3>2. revisions' = revisions
      BY <2>1 DEF Config!AnswerRead
    <3> QED BY <1>0, <3>1, <3>2 DEF Config!LookupOK
  <2>2. CASE Config!PickRevision(l)
    <3>0. revisions' = revisions
      BY <2>2 DEF Config!PickRevision
    <3>1. PICK r \in DOMAIN revisions :
            lookup' = [lookup EXCEPT ![l].pc = "memory", ![l].next = revisions[r]]
      BY <2>2 DEF Config!PickRevision
    <3> DEFINE n(c) == [c EXCEPT !.pc = "memory", !.next = revisions[r]]
    <3>2. revisions[r] \in Config!Config /\ revisions' = revisions
      BY <1>0, <3>0, ElementOfSeq
    <3>3. ASSUME NEW c \in Config!Lookup
          PROVE  n(c) \in Config!Lookup /\ n(c).pc = "memory" /\ n(c).node = c.node
      BY <3>2 DEF Config!Lookup, Config!Step
    <3>4. lookup' = [lookup EXCEPT ![l] = n(lookup[l])]
      BY <1>0, <3>1
    <3> HIDE DEF n
    <3>5. lookup'[l] = n(lookup[l]) /\ \A m \in Lookups \ {l} : lookup'[m] = lookup[m]
      BY <1>0, <3>4
    <3>6. lookup' \in [Lookups -> Config!Lookup]
      BY <1>0, <3>3, <3>4
    <3>7. Config!LookupOK(l)'
      BY <1>0, <1>1, <3>3, <3>5 DEF Config!LookupOK
    <3> QED BY <1>0, <3>2, <3>5, <3>6, <3>7
  <2>3. CASE Config!Merge(l)
    <3> DEFINE next == IF lookup[l].verb = "rollback" THEN lookup[l].next
                       ELSE [lookup[l].value EXCEPT ![lookup[l].section] = lookup[l].edit]
               n(c) == [c EXCEPT !.pc = "snapshot", !.next = next]
    <3>1. lookup' = [lookup EXCEPT ![l].pc = "snapshot", ![l].next = next]
      BY <2>3 DEF Config!Merge
    <3>2. next \in Config!Config /\ revisions' = revisions /\ lookup[l].verb # "read"
          /\ lookup[l].pc = "got"
      BY <1>0, <2>3 DEF Config!Merge, Config!Lookup, Config!Config, Config!At
    <3>3. lookup[l].verb = "update" =>
            next = [lookup[l].value EXCEPT ![lookup[l].section] = lookup[l].edit]
      OBVIOUS
    <3> HIDE DEF next
    <3>4. ASSUME NEW c \in Config!Lookup
          PROVE  /\ n(c) \in Config!Lookup /\ n(c).pc = "snapshot" /\ n(c).node = c.node
                 /\ n(c).verb = c.verb /\ n(c).value = c.value /\ n(c).next = next
                 /\ n(c).section = c.section /\ n(c).edit = c.edit
      BY <3>2 DEF Config!Lookup, Config!Step
    <3>5. lookup' = [lookup EXCEPT ![l] = n(lookup[l])]
      BY <1>0, <3>1
    <3> HIDE DEF n
    <3>6. lookup'[l] = n(lookup[l]) /\ \A m \in Lookups \ {l} : lookup'[m] = lookup[m]
      BY <1>0, <3>5
    <3>7. lookup' \in [Lookups -> Config!Lookup]
      BY <1>0, <3>4, <3>5
    <3>8. Config!LookupOK(l)'
      <4>1. /\ lookup'[l].pc = "snapshot" /\ lookup'[l].node = lookup[l].node
            /\ lookup'[l].verb = lookup[l].verb /\ lookup'[l].value = lookup[l].value
            /\ lookup'[l].section = lookup[l].section /\ lookup'[l].edit = lookup[l].edit
            /\ lookup'[l].next = next
        BY <1>0, <3>4, <3>6
      <4>2. Config!Orderly /\ writers \subseteq {lookup[l].node} => lookup[l].value = configRow
        BY <1>0, <3>2 DEF Config!LookupOK
      <4> QED BY <1>1, <1>2, <3>2, <3>3, <4>1, <4>2 DEF Config!LookupOK
    <3> QED BY <1>0, <3>2, <3>6, <3>7, <3>8
  <2>4. CASE Config!InsertRevision(l)
    <3>1. /\ revisions' = Append(revisions, lookup[l].value) /\ lookup[l].pc = "snapshot"
          /\ Config!Goto(l, "persist") /\ "persist" \in Config!Step
      BY <2>4 DEF Config!InsertRevision, Config!At, Config!Step
    <3>2. lookup[l].value \in Config!Config
      BY <1>0 DEF Config!Lookup
    <3>3. revisions' \in Seq(Config!Config)
      BY <1>0, <3>1, <3>2, AppendProperties
    <3>4. /\ lookup' \in [Lookups -> Config!Lookup] /\ lookup'[l].pc = "persist"
          /\ lookup'[l].node = lookup[l].node /\ lookup'[l].verb = lookup[l].verb
          /\ lookup'[l].edit = lookup[l].edit /\ lookup'[l].section = lookup[l].section
          /\ lookup'[l].value = lookup[l].value /\ lookup'[l].next = lookup[l].next
          /\ \A m \in Lookups \ {l} : lookup'[m] = lookup[m]
      BY <1>0, <3>1, ConfigGoes
    <3>5. Config!LookupOK(l)'
      BY <1>0, <1>1, <1>2, <3>1, <3>4 DEF Config!LookupOK
    <3> QED BY <3>3, <3>4, <3>5
  <2> QED BY <2>1, <2>2, <2>3, <2>4
<1> QED BY <1>1, <1>2, <1>3, ConfigCall

(* Settings counts with the Cardinality that it extends.                   *)
LEMMA SameCardinality == \A S : Config!Cardinality(S) = Cardinality(S)
BY DEF Cardinality, Config!Cardinality

LEMMA AtMostOne ==
  ASSUME NEW S, IsFiniteSet(S), Cardinality(S) <= 1, NEW x \in S
  PROVE  S \subseteq {x}
<1>1. IsFiniteSet(S \ {x}) /\ Cardinality(S \ {x}) = Cardinality(S) - 1
  BY FS_RemoveElement
<1>2. Cardinality(S) \in Nat /\ Cardinality(S \ {x}) \in Nat
  BY <1>1, FS_CardinalityType
<1>3. S \ {x} = {}
  BY <1>1, <1>2, FS_EmptySet
<1> QED BY <1>3

(* The row is written: every copy is behind, and the writer knows.         *)
LEMMA PersistStep ==
  ASSUME Config!SettingsInv, NEW l \in Lookups, Config!Persist(l)
  PROVE  Config!SettingsInv'
<1> DEFINE c == lookup[l]
<1>0. /\ Config!TypeOK /\ Config!LookupOK(l) /\ lookup[l] \in Config!Lookup
      /\ Config!EditsKept /\ outages \in 0..MaxOutages
      /\ \A n \in Nodes : memory[n] \in Config!Copy
      /\ redisCopy \in Config!Copy
      /\ Config!Orderly => Config!RedisKnows
  BY ConfigFacts
<1>1. /\ UNCHANGED <<redisOn, redisCopy, memory, revisions, edits, clash, outages>>
      /\ c.pc = "persist" /\ c.node \in Nodes /\ c.verb # "read"
      /\ configRow' = c.next /\ sinceEdit' = 0 /\ writers' = writers \union {c.node}
      /\ wanted' = IF c.verb = "rollback" THEN c.next
                   ELSE [wanted EXCEPT ![c.section] = c.edit]
  BY <1>0 DEF Config!Persist, Config!caches, Config!At, Config!LookupOK
<1>2. PICK s \in {"publish", "keep"} :
        /\ Config!Goto(l, s) /\ s \in Config!Step
        /\ redisOn <=> s = "publish"
  BY DEF Config!Persist, Config!Step
<1>3. /\ lookup' \in [Lookups -> Config!Lookup] /\ lookup'[l].pc = s
      /\ lookup'[l].node = c.node /\ lookup'[l].verb = c.verb /\ lookup'[l].next = c.next
      /\ \A m \in Lookups \ {l} : lookup'[m] = lookup[m]
  BY <1>0, <1>2, ConfigGoes
<1>4. Config!TypeOK'
  <2>1. configRow' \in Config!Config /\ sinceEdit' \in 0..Ttl
    BY <1>0, <1>1 DEF Config!Lookup
  <2>3. writers' \in SUBSET Nodes
    BY <1>0, <1>1 DEF Config!TypeOK
  <2>2. wanted' \in Config!Config
    BY <1>0, <1>1 DEF Config!TypeOK, Config!Lookup, Config!Config
  <2>4. /\ redisCopy' \in Config!Copy /\ memory' \in [Nodes -> Config!Copy]
        /\ revisions' \in Seq(Config!Config) /\ edits' \in 0..MaxEdits
        /\ outages' \in 0..MaxOutages
    BY <1>0, <1>1 DEF Config!TypeOK
  <2>5. redisOn' \in BOOLEAN /\ clash' \in BOOLEAN
    BY <1>0, <1>1 DEF Config!TypeOK
  <2>6. lookup' \in [Lookups -> Config!Lookup]
    BY <1>3
  <2> QED BY <2>1, <2>2, <2>3, <2>4, <2>5, <2>6 DEF Config!TypeOK
<1>5. Config!LookupOK(l)'
  <2>1. redisOn' = redisOn
    BY <1>1
  <2> QED BY <1>1, <1>2, <1>3, <2>1 DEF Config!LookupOK
<1>6. Config!EditsKept'
  <2> SUFFICES ASSUME ~clash, outages = 0, Cardinality(writers') <= 1
               PROVE  configRow' = wanted'
    <3>1. clash' = clash /\ outages' = outages
      BY <1>1
    <3> QED BY <3>1, SameCardinality DEF Config!EditsKept
  <2>1. IsFiniteSet(writers') /\ c.node \in writers'
    <3>1. writers' \subseteq Nodes
      BY <1>4 DEF Config!TypeOK
    <3>2. IsFiniteSet(writers')
      BY <3>1, FS_Subset
    <3> QED BY <1>1, <3>2
  <2>2. writers \subseteq {c.node}
    BY <1>1, <2>1, AtMostOne
  <2>3. IsFiniteSet({c.node}) /\ Cardinality({c.node}) = 1
    BY FS_Singleton
  <2>4. Cardinality(writers) <= 1
    BY <2>2, <2>3, FS_Subset
  <2>5. configRow = wanted
    BY <1>0, <2>4, SameCardinality DEF Config!EditsKept
  <2>6. c.verb = "update" => c.next = [wanted EXCEPT ![c.section] = c.edit]
    BY <1>0, <1>1, <2>2, <2>5 DEF Config!LookupOK, Config!Orderly
  <2> QED BY <1>0, <1>1, <2>6 DEF Config!Lookup
<1>7. Config!Behind(redisCopy)' /\ \A n \in Nodes : Config!Behind(memory[n])'
  BY <1>0, <1>1 DEF Config!Behind, Config!Copy
<1>8. Config!Orderly => Config!RedisKnows'
  BY <1>0, <1>1, <1>2, <1>3 DEF Config!RedisKnows, Config!IsFresh, Config!At
<1>9. \A n \in Nodes : Config!WriterKnows(n)'
  <2> SUFFICES ASSUME NEW n \in Nodes, writers' \subseteq {n}
               PROVE  \E m \in Lookups : /\ lookup'[m].pc \in {"publish", "keep"}
                                         /\ lookup'[m].node = n
    BY DEF Config!WriterKnows
  <2> QED BY <1>1, <1>2, <1>3
<1> QED BY <1>1, <1>3, <1>4, <1>5, <1>6, <1>7, <1>8, <1>9, ConfigWrites

(* The copies of the writer: in Redis, then in its memory.                 *)
LEMMA PublishStep ==
  ASSUME Config!SettingsInv, NEW l \in Lookups, Config!Publish(l)
  PROVE  Config!SettingsInv'
<1>0. /\ Config!TypeOK /\ Config!LookupOK(l) /\ lookup[l] \in Config!Lookup
      /\ Config!EditsKept
      /\ Config!Orderly =>
           \A n \in Nodes : Config!Behind(memory[n]) /\ Config!WriterKnows(n)
  BY ConfigFacts
<1>1. /\ UNCHANGED <<redisOn, configRow, memory, revisions, edits, sinceEdit, wanted, writers>>
      /\ UNCHANGED <<clash, outages>>
      /\ lookup[l].pc = "publish" /\ lookup[l].node \in Nodes /\ redisOn
      /\ lookup[l].verb # "read" /\ lookup[l].next \in Config!Config
      /\ Config!Orderly => lookup[l].next = configRow
  BY <1>0 DEF Config!Publish, Config!history, Config!At, Config!LookupOK, Config!Lookup
<1>2. /\ redisCopy' = Config!Fresh(lookup[l].next) /\ redisCopy' \in Config!Copy
      /\ redisCopy'.value = lookup[l].next
  BY <1>1, ConfigIdle DEF Config!Publish
<1>3. Config!Goto(l, "keep") /\ "keep" \in Config!Step
  BY DEF Config!Publish, Config!Step
<1>4. /\ lookup' \in [Lookups -> Config!Lookup] /\ lookup'[l].pc = "keep"
      /\ lookup'[l].node = lookup[l].node /\ lookup'[l].verb = lookup[l].verb
      /\ lookup'[l].next = lookup[l].next
      /\ \A m \in Lookups \ {l} : lookup'[m] = lookup[m]
  BY <1>0, <1>3, ConfigGoes
<1>5. Config!EditsKept'
  BY <1>0, <1>1 DEF Config!EditsKept
<1>6. Config!LookupOK(l)'
  <2>1. (Config!Orderly' => Config!Orderly) /\ configRow' = configRow
    BY <1>1 DEF Config!Orderly
  <2> QED BY <1>1, <1>4, <2>1 DEF Config!LookupOK
<1>7. Config!TypeOK'
  BY <1>0, <1>1, <1>2, <1>4 DEF Config!TypeOK
<1>8. Config!Orderly => Config!Behind(redisCopy)' /\ Config!RedisKnows'
  BY <1>1, <1>2 DEF Config!Behind, Config!RedisKnows
<1>9. \A m \in Lookups : lookup[m].pc \in {"publish", "keep"} =>
        lookup'[m].pc \in {"publish", "keep"} /\ lookup'[m].node = lookup[m].node
  BY <1>4
<1>10. Config!Orderly => \A n \in Nodes : Config!Behind(memory[n])' /\ Config!WriterKnows(n)'
  BY <1>0, <1>1, <1>9 DEF Config!Behind, Config!WriterKnows, Config!IsFresh
<1> QED BY <1>1, <1>4, <1>5, <1>6, <1>7, <1>8, <1>10, ConfigWrites

LEMMA KeepStep ==
  ASSUME Config!SettingsInv, NEW l \in Lookups, Config!KeepInMemory(l)
  PROVE  Config!SettingsInv'
<1> DEFINE node == lookup[l].node
<1>0. /\ Config!TypeOK /\ Config!LookupOK(l) /\ lookup[l] \in Config!Lookup
      /\ Config!EditsKept
      /\ Config!Orderly =>
           /\ Config!Behind(redisCopy) /\ Config!RedisKnows
           /\ \A n \in Nodes : Config!Behind(memory[n]) /\ Config!WriterKnows(n)
  BY ConfigFacts
<1>1. /\ UNCHANGED <<redisOn, configRow, redisCopy, revisions, edits, sinceEdit, wanted, writers>>
      /\ UNCHANGED <<clash, outages>>
      /\ lookup[l].pc = "keep" /\ lookup[l].node \in Nodes
      /\ lookup[l].next \in Config!Config
      /\ Config!Orderly => lookup[l].next = configRow
  BY <1>0 DEF Config!KeepInMemory, Config!history, Config!At, Config!LookupOK, Config!Lookup
<1>2. PICK copy \in Config!Copy :
        copy.value = lookup[l].next /\ memory' = [memory EXCEPT ![lookup[l].node] = copy]
  BY <1>1, ConfigIdle DEF Config!KeepInMemory
<1>3. /\ memory' \in [Nodes -> Config!Copy] /\ memory'[lookup[l].node] = copy
      /\ \A n \in Nodes \ {lookup[l].node} : memory'[n] = memory[n]
  BY <1>0, <1>1, <1>2 DEF Config!TypeOK
<1>4. /\ lookup' \in [Lookups -> Config!Lookup] /\ lookup'[l].pc = "idle"
      /\ \A m \in Lookups \ {l} : lookup'[m] = lookup[m]
  BY <1>0, ConfigReturns DEF Config!KeepInMemory
<1>5. Config!EditsKept'
  BY <1>0, <1>1 DEF Config!EditsKept
<1>6. Config!LookupOK(l)'
  BY <1>4 DEF Config!LookupOK
<1>7. Config!TypeOK'
  BY <1>0, <1>1, <1>3, <1>4 DEF Config!TypeOK
<1>8. Config!Orderly => Config!Behind(redisCopy)'
  BY <1>0, <1>1 DEF Config!Behind
<1>9. Config!Orderly => Config!RedisKnows'
  <2>1. \A m \in Lookups : lookup[m].pc = "publish" => lookup'[m] = lookup[m]
    BY <1>1, <1>4
  <2> QED BY <1>0, <1>1, <2>1 DEF Config!RedisKnows, Config!IsFresh, Config!At
<1>10. ASSUME Config!Orderly, NEW n \in Nodes
       PROVE  Config!Behind(memory[n])' /\ Config!WriterKnows(n)'
  <2>1. CASE n = lookup[l].node
    BY <1>1, <1>2, <1>3, <1>10, <2>1 DEF Config!Behind, Config!WriterKnows
  <2>2. CASE n # lookup[l].node
    <3>1. \A m \in Lookups : lookup[m].node = n => lookup'[m] = lookup[m]
      BY <1>4, <2>2
    <3> QED BY <1>0, <1>1, <1>3, <1>10, <2>2, <3>1 DEF Config!Behind, Config!WriterKnows,
            Config!IsFresh
  <2> QED BY <2>1, <2>2
<1> QED BY <1>1, <1>4, <1>5, <1>6, <1>7, <1>8, <1>9, <1>10, ConfigWrites

(* Redis fails, a process restarts.                                        *)
LEMMA OutageStep ==
  ASSUME Config!SettingsInv,
         (\E l \in Lookups : Config!RedisFails(l)) \/ \E n \in Nodes : Config!Restart(n)
  PROVE  Config!SettingsInv'
<1>0. /\ Config!TypeOK /\ outages \in 0..MaxOutages /\ Config!Alone
      /\ \A l \in Lookups : Config!LookupOK(l) /\ lookup[l] \in Config!Lookup
  BY ConfigFacts
<1>1. /\ UNCHANGED <<redisOn, configRow, redisCopy, revisions, edits, sinceEdit, wanted>>
      /\ UNCHANGED <<writers, clash>>
      /\ outages < MaxOutages /\ outages' = outages + 1
  BY DEF Config!RedisFails, Config!Restart, Config!Outage, Config!caches
<1>2. outages' \in 0..MaxOutages /\ outages' # 0 /\ ~Config!Orderly'
  BY <1>0, <1>1 DEF Config!Orderly
<1>3. /\ lookup' \in [Lookups -> Config!Lookup] /\ memory' \in [Nodes -> Config!Copy]
      /\ \A l \in Lookups :
           \/ lookup'[l].pc = "idle" \/ lookup'[l] = lookup[l]
           \/ /\ lookup[l].pc # "idle" /\ lookup'[l].node = lookup[l].node
              /\ lookup'[l].verb = lookup[l].verb
              /\ \/ lookup'[l].pc \in {"db", "fill"}
                 \/ lookup'[l].pc = "keep" /\ lookup[l].pc = "publish"
  <2>1. ASSUME NEW l \in Lookups, Config!RedisFails(l) PROVE <1>3!:
    <3>1. PICK s \in {"db", "fill", "keep"} :
            /\ Config!Goto(l, s) /\ s \in Config!Step
            /\ s = "keep" => lookup[l].pc = "publish"
      BY <2>1 DEF Config!RedisFails, Config!Step
    <3>2. lookup[l].pc # "idle" /\ memory' = memory
      BY <2>1 DEF Config!RedisFails, Config!caches
    <3>3. /\ lookup' \in [Lookups -> Config!Lookup] /\ lookup'[l].pc = s
          /\ lookup'[l].node = lookup[l].node /\ lookup'[l].verb = lookup[l].verb
          /\ \A m \in Lookups \ {l} : lookup'[m] = lookup[m]
      BY <1>0, <3>1, ConfigGoes
    <3> QED BY <1>0, <3>1, <3>2, <3>3 DEF Config!TypeOK
  <2>2. ASSUME NEW n \in Nodes, Config!Restart(n) PROVE <1>3!:
    <3>1. /\ memory' = [memory EXCEPT ![n] = Config!Gone]
          /\ lookup' = [l \in Lookups |-> IF lookup[l].node = n THEN Config!Idle ELSE lookup[l]]
      BY <2>2 DEF Config!Restart
    <3> QED BY <1>0, <3>1, ConfigIdle DEF Config!TypeOK
  <2> QED BY <2>1, <2>2
<1>4. Config!TypeOK'
  BY <1>0, <1>1, <1>2, <1>3 DEF Config!TypeOK
<1>5. Config!Propagates' /\ Config!EditsKept'
  BY <1>2 DEF Config!Propagates, Config!EditsKept
<1>6. Config!Alone'
  BY <1>0, <1>1, <1>3 DEF Config!Alone, Config!At
<1>7. \A l \in Lookups : Config!LookupOK(l)'
  <2> SUFFICES ASSUME NEW l \in Lookups PROVE Config!LookupOK(l)'
    OBVIOUS
  <2>1. Config!LookupOK(l) /\ redisOn' = redisOn
    BY <1>0, <1>1
  <2>2. CASE lookup'[l].pc = "idle"
    BY <2>2 DEF Config!LookupOK
  <2>3. CASE lookup'[l] = lookup[l]
    BY <1>2, <2>1, <2>3 DEF Config!LookupOK
  <2>4. CASE /\ lookup[l].pc # "idle" /\ lookup'[l].node = lookup[l].node
             /\ lookup'[l].verb = lookup[l].verb
             /\ \/ lookup'[l].pc \in {"db", "fill"}
                \/ lookup'[l].pc = "keep" /\ lookup[l].pc = "publish"
    BY <1>2, <2>1, <2>4 DEF Config!LookupOK
  <2> QED BY <1>3, <2>2, <2>3, <2>4
<1> QED BY <1>2, <1>4, <1>5, <1>6, <1>7 DEF Config!SettingsInv

LEMMA TickStep ==
  ASSUME Config!SettingsInv, Config!Tick
  PROVE  Config!SettingsInv'
<1>0. /\ Config!TypeOK /\ Config!EditsKept /\ Config!Alone
      /\ \A l \in Lookups : Config!LookupOK(l)
      /\ \A n \in Nodes : memory[n] \in Config!Copy
      /\ redisCopy \in Config!Copy /\ sinceEdit \in 0..Ttl
      /\ Config!Orderly =>
           /\ Config!Behind(redisCopy) /\ Config!RedisKnows
           /\ \A n \in Nodes : Config!Behind(memory[n]) /\ Config!WriterKnows(n)
  BY ConfigFacts
<1>1. /\ UNCHANGED <<redisOn, configRow, revisions, lookup, edits, wanted, writers, clash>>
      /\ UNCHANGED outages
      /\ sinceEdit' = IF sinceEdit < Ttl THEN sinceEdit + 1 ELSE sinceEdit
      /\ redisCopy' = Config!Older(redisCopy)
      /\ memory' = [n \in Nodes |-> Config!Older(memory[n])]
  BY DEF Config!Tick
<1>2. ASSUME NEW c \in Config!Copy
      PROVE  /\ Config!Older(c) \in Config!Copy /\ Config!Older(c).value = c.value
             /\ Config!IsFresh(Config!Older(c)) => Config!IsFresh(c)
             /\ c.age >= sinceEdit => Config!Older(c).age >= sinceEdit'
  BY <1>0, <1>1 DEF Config!Copy, Config!Older, Config!IsFresh
<1>3. sinceEdit' \in 0..Ttl
  BY <1>0, <1>1
<1>4. Config!TypeOK'
  BY <1>0, <1>1, <1>2, <1>3 DEF Config!TypeOK
<1>5. \A n \in Nodes : memory'[n] = Config!Older(memory[n])
  BY <1>1
<1>6. Config!Orderly' => Config!Orderly
  BY <1>1 DEF Config!Orderly
<1>7. Config!Orderly' =>
        /\ Config!Behind(redisCopy)' /\ Config!RedisKnows'
        /\ \A n \in Nodes : Config!Behind(memory[n])' /\ Config!WriterKnows(n)'
  <2> SUFFICES ASSUME Config!Orderly
               PROVE  /\ Config!Behind(redisCopy)' /\ Config!RedisKnows'
                      /\ \A n \in Nodes : Config!Behind(memory[n])' /\ Config!WriterKnows(n)'
    BY <1>6
  <2>1. Config!Behind(redisCopy)' /\ \A n \in Nodes : Config!Behind(memory[n])'
    BY <1>0, <1>1, <1>2, <1>5 DEF Config!Behind
  <2>2. Config!RedisKnows'
    <3>1. Config!IsFresh(redisCopy)' => Config!IsFresh(redisCopy)
      BY <1>0, <1>1, <1>2 DEF Config!IsFresh
    <3> QED BY <1>0, <1>1, <1>2, <3>1 DEF Config!RedisKnows, Config!At
  <2>3. \A n \in Nodes : Config!WriterKnows(n)'
    <3> SUFFICES ASSUME NEW n \in Nodes PROVE Config!WriterKnows(n)'
      OBVIOUS
    <3>1. Config!IsFresh(memory[n])' => Config!IsFresh(memory[n])
      BY <1>0, <1>2, <1>5 DEF Config!IsFresh
    <3> QED BY <1>0, <1>1, <1>2, <1>5, <3>1 DEF Config!WriterKnows
  <2> QED BY <2>1, <2>2, <2>3
<1>8. Config!Propagates'
  BY <1>4, <1>7, AgesPropagate
<1>9. Config!EditsKept' /\ Config!Alone'
  BY <1>0, <1>1 DEF Config!EditsKept, Config!Alone, Config!At
<1>10. \A l \in Lookups : Config!LookupOK(l)'
  BY <1>0, <1>1, <1>6 DEF Config!LookupOK
<1> QED BY <1>4, <1>7, <1>8, <1>9, <1>10 DEF Config!SettingsInv

LEMMA ConfigStep ==
  Config!SettingsInv /\ (Config!Next \/ UNCHANGED settingsVars) => Config!SettingsInv'
<1> SUFFICES ASSUME Config!SettingsInv, Config!Next \/ UNCHANGED settingsVars
             PROVE  Config!SettingsInv'
  OBVIOUS
<1>1. CASE Config!ConfigRequest
  <2>1. PICK l \in Lookups, n \in Nodes :
          \/ Config!GetConfig(l, n)
          \/ \E s \in Sections : \/ Config!UpdateConfig(l, n, s)
                                 \/ Config!RollbackConfigRevision(l, n, s)
    BY <1>1 DEF Config!ConfigRequest
  <2>2. PICK s \in Sections : \/ Config!GetConfig(l, n) \/ Config!UpdateConfig(l, n, s)
                              \/ Config!RollbackConfigRevision(l, n, s)
    BY <2>1
  <2> QED BY <2>2, RequestConfigStep
<1>2. ASSUME NEW l \in Lookups, Config!LookupStep(l) PROVE Config!SettingsInv'
  BY <1>2, ReadConfigStep, WriteBackStep, PrepareStep, PersistStep, PublishStep, KeepStep
     DEF Config!LookupStep
<1>3. CASE UNCHANGED settingsVars
  <2>1. /\ UNCHANGED <<redisOn, configRow, redisCopy, memory, revisions, lookup, edits, sinceEdit>>
        /\ UNCHANGED <<wanted, writers, clash, outages>>
    BY <1>3 DEF settingsVars
  <2>2. Config!TypeOK' /\ Config!Propagates' /\ Config!EditsKept' /\ Config!Alone'
    BY <2>1, ConfigFacts DEF Config!TypeOK, Config!Propagates, Config!Current, Config!IsFresh,
       Config!EditsKept, Config!Alone, Config!At
  <2>3. (\A l \in Lookups : Config!LookupOK(l)') /\ (Config!Orderly' => Config!Orderly)
    BY <2>1, ConfigFacts DEF Config!LookupOK, Config!Orderly
  <2>4. Config!Orderly' =>
          /\ Config!Behind(redisCopy)' /\ Config!RedisKnows'
          /\ \A n \in Nodes : Config!Behind(memory[n])' /\ Config!WriterKnows(n)'
    BY <2>1, <2>3, ConfigFacts DEF Config!Behind, Config!RedisKnows, Config!WriterKnows,
       Config!IsFresh, Config!At
  <2> QED BY <2>2, <2>3, <2>4 DEF Config!SettingsInv
<1> QED BY <1>1, <1>2, <1>3, OutageStep, TickStep DEF Config!Next

(* However many processes there are: unless calls overlapped or something  *)
(* failed, a copy of the configuration in use is the row, or was less than *)
(* 60 seconds ago, and the edits of one process are all kept.              *)
THEOREM EditsPropagate == Spec => []SettingsInv
<1>1. Init => Config!SettingsInv
  BY ConfigInit DEF Init
<1>2. Config!SettingsInv /\ [Next]_vars => Config!SettingsInv'
  BY ConfigStep DEF Next, Only, vars
<1>3. Spec => []Config!SettingsInv
  BY <1>1, <1>2, PTL DEF Spec
<1> QED BY <1>3, PTL DEF SettingsInv

-----------------------------------------------------------------------------
(* Checkout with one call at a time.  No learner has two orders pending    *)
(* for a course; the call in flight is still right in what it found.       *)

OneEach == \A o, q \in Serial!Orders :
  status[o] = "pending" /\ status[q] = "pending" /\ buyer[o] = buyer[q] => o = q

TurnOK ==
  LET c == call[TheCall]
      o == call[TheCall].order IN
  /\ c.pc \in {"dup", "intent"} => c.pair \in Serial!Pairs
  /\ c.pc = "intent" => Serial!PendingOrders(c.pair) = {}
  /\ c.pc \notin {"idle", "dup", "intent"} => o \in Serial!Orders
  /\ c.pc = "insert" =>
       charge[o] # "none" /\ status[o] = "none" /\ Serial!PendingOrders(buyer[o]) = {}
  /\ c.pc \in {"poll", "load", "ask", "markPaid", "markFailed"} =>
       status[o] \in {"pending", "failed"}
  /\ c.pc \in {"enrol", "mail"} => status[o] = "paid" /\ receipts[o] = 0

OrderTypes ==
  /\ status \in [Serial!Orders -> Serial!Status]
  /\ buyer \in [Serial!Orders -> Serial!Pairs \union {Serial!NoPair}]
  /\ charge \in [Serial!Orders -> Serial!Charge]
  /\ receipts \in [Serial!Orders -> 0..Serial!ReceiptCap]

(* The rows of orders, whatever the call in flight.                        *)
RowsOK ==
  /\ OrderTypes /\ Serial!RowsHaveIntents /\ OneEach
  /\ \A o \in Serial!Orders : receipts[o] > 0 => status[o] = "paid"
  /\ \A o \in Serial!Orders : receipts[o] <= 1

OrdersOK == RowsOK /\ TurnOK /\ call \in [{TheCall} -> Serial!Call]

LEMMA SameOrderCount == \A S : Serial!Cardinality(S) = Cardinality(S)
BY DEF Cardinality, Serial!Cardinality

LEMMA OrdersSuffice ==
  ASSUME OrdersOK
  PROVE  Serial!OnePending /\ Serial!OneReceipt /\ Serial!InTurn
<1>1. ASSUME NEW p \in Serial!Pairs
      PROVE  Serial!Cardinality(Serial!PendingOrders(p)) <= 1
  <2> DEFINE S == Serial!PendingOrders(p)
  <2>1. \A o, q \in S : o = q
    BY DEF OrdersOK, RowsOK, OneEach, Serial!PendingOrders
  <2> HIDE DEF S
  <2>2. S = {} \/ \E o : S = {o}
    <3>1. ASSUME NEW o \in S PROVE S = {o}
      BY <2>1, Zenon
    <3> QED BY <3>1, Zenon
  <2>3. Cardinality(S) = 0 \/ Cardinality(S) = 1
    BY <2>2, FS_EmptySet, FS_Singleton
  <2> QED BY <2>3, SameOrderCount DEF S
<1>2. \A h \in {TheCall} :
         LET c == call[h]
             o == call[h].order IN
         /\ c.pc \in {"dup", "intent"} => c.pair \in Serial!Pairs
         /\ c.pc = "intent" => Serial!PendingOrders(c.pair) = {}
         /\ c.pc \notin {"idle", "dup", "intent"} => o \in Serial!Orders
         /\ c.pc = "insert" =>
              charge[o] # "none" /\ status[o] = "none" /\ Serial!PendingOrders(buyer[o]) = {}
         /\ c.pc \in {"poll", "load", "ask", "markPaid", "markFailed"} =>
              status[o] \in {"pending", "failed"}
         /\ c.pc \in {"enrol", "mail"} => status[o] = "paid" /\ receipts[o] = 0
  BY DEF OrdersOK, TurnOK
<1>3. Serial!InTurn
  BY <1>2 DEF Serial!InTurn, OrdersOK, RowsOK, OrderTypes
<1>4. Serial!OneReceipt
  BY DEF Serial!OneReceipt, OrdersOK, RowsOK
<1> QED BY <1>1, <1>3, <1>4 DEF Serial!OnePending

LEMMA OrdersInit == Serial!Init => OrdersOK
<1> SUFFICES ASSUME Serial!Init PROVE OrdersOK
  OBVIOUS
<1>1. /\ status = [o \in Serial!Orders |-> "none"]
      /\ buyer = [o \in Serial!Orders |-> Serial!NoPair]
      /\ charge = [o \in Serial!Orders |-> "none"]
      /\ receipts = [o \in Serial!Orders |-> 0]
      /\ call = [h \in {TheCall} |-> Serial!Idle]
  BY DEF Serial!Init
<1>2. OrderTypes
  BY <1>1 DEF OrderTypes, Serial!Status, Serial!Charge, Serial!ReceiptCap
<1>3. RowsOK
  BY <1>1, <1>2 DEF RowsOK, OneEach, Serial!RowsHaveIntents
<1>4. Serial!Idle \in Serial!Call /\ Serial!Idle.pc = "idle"
  BY DEF Serial!Idle, Serial!Call, Serial!Step, Serial!Event
<1>5. TurnOK
  BY <1>1, <1>4 DEF TurnOK
<1> QED BY <1>1, <1>3, <1>4, <1>5 DEF OrdersOK

(* How the call moves: it goes on to the step s, returns, or begins.       *)
LEMMA CallGoes ==
  ASSUME OrdersOK, NEW s \in Serial!Step, Serial!Goto(TheCall, s)
  PROVE  /\ call' \in [{TheCall} -> Serial!Call] /\ call'[TheCall].pc = s
         /\ call'[TheCall].order = call[TheCall].order
         /\ call'[TheCall].pair = call[TheCall].pair
<1>1. ASSUME NEW r \in Serial!Call
      PROVE  LET k == [r EXCEPT !.pc = s] IN
             k \in Serial!Call /\ k.pc = s /\ k.order = r.order /\ k.pair = r.pair
  BY DEF Serial!Call
<1>2. call \in [{TheCall} -> Serial!Call] /\ call' = [call EXCEPT ![TheCall].pc = s]
  BY DEF OrdersOK, Serial!Goto
<1>3. call' = [call EXCEPT ![TheCall] = [call[TheCall] EXCEPT !.pc = s]]
  BY <1>2
<1> QED BY <1>1, <1>2, <1>3

LEMMA CallReturns ==
  ASSUME OrdersOK, Serial!Return(TheCall) \/ call' = [h \in {TheCall} |-> Serial!Idle]
  PROVE  call' \in [{TheCall} -> Serial!Call] /\ TurnOK'
<1>1. Serial!Idle \in Serial!Call /\ Serial!Idle.pc = "idle"
  BY DEF Serial!Idle, Serial!Call, Serial!Step, Serial!Event
<1>2. call' \in [{TheCall} -> Serial!Call] /\ call'[TheCall] = Serial!Idle
  BY <1>1 DEF OrdersOK, Serial!Return
<1> QED BY <1>1, <1>2 DEF TurnOK

LEMMA CallBegins ==
  ASSUME OrdersOK, NEW s \in Serial!Step, NEW o \in Serial!Orders, NEW e \in Serial!Event,
         Serial!Begin(TheCall, s, o, e)
  PROVE  /\ call' \in [{TheCall} -> Serial!Call] /\ call'[TheCall].pc = s
         /\ call'[TheCall].order = o
<1> DEFINE k == [Serial!Idle EXCEPT !.pc = s, !.order = o, !.event = e]
<1>1. k \in Serial!Call /\ k.pc = s /\ k.order = o
  BY DEF Serial!Idle, Serial!Call
<1>2. call' = [call EXCEPT ![TheCall] = k] /\ call \in [{TheCall} -> Serial!Call]
  BY DEF Serial!Begin, OrdersOK
<1> HIDE DEF k
<1> QED BY <1>1, <1>2

(* A step that changes no row but what a provider knows of an order.       *)
LEMMA RowsStay ==
  ASSUME OrdersOK, UNCHANGED <<status, buyer, receipts>>,
         charge' \in [Serial!Orders -> Serial!Charge],
         \A o \in Serial!Orders : charge[o] # "none" => charge'[o] # "none"
  PROVE  RowsOK'
<1>1. OrderTypes'
  BY DEF OrdersOK, RowsOK, OrderTypes
<1> QED BY <1>1 DEF OrdersOK, RowsOK, OneEach, Serial!RowsHaveIntents

(* And what a call found is still so.                                      *)
LEMMA TurnStays ==
  ASSUME OrdersOK, UNCHANGED <<status, buyer, receipts, call>>,
         \A o \in Serial!Orders : charge[o] # "none" => charge'[o] # "none"
  PROVE  TurnOK'
BY DEF OrdersOK, TurnOK, Serial!PendingOrders

LEMMA OrderFacts ==
  ASSUME OrdersOK
  PROVE  /\ status \in [Serial!Orders -> Serial!Status]
         /\ buyer \in [Serial!Orders -> Serial!Pairs \union {Serial!NoPair}]
         /\ charge \in [Serial!Orders -> Serial!Charge]
         /\ receipts \in [Serial!Orders -> 0..2]
         /\ call \in [{TheCall} -> Serial!Call] /\ call[TheCall] \in Serial!Call
         /\ Serial!RowsHaveIntents /\ OneEach /\ TurnOK
         /\ \A o \in Serial!Orders : receipts[o] \in 0..1
         /\ \A o \in Serial!Orders : receipts[o] > 0 => status[o] = "paid"
         /\ Serial!Step = {"idle", "dup", "intent", "insert", "poll", "load",
                           "ask", "markPaid", "markFailed", "enrol", "mail"}
BY DEF OrdersOK, RowsOK, OrderTypes, Serial!ReceiptCap, Serial!Step

LEMMA OrderCreates ==
  ASSUME OrdersOK, Serial!CreateStep(TheCall)
  PROVE  OrdersOK'
<1> DEFINE c == call[TheCall]
<1>0. OrderTypes /\ charge' = charge => charge' \in [Serial!Orders -> Serial!Charge]
  BY DEF OrderTypes
<1>1. CASE Serial!LookForPending(TheCall)
  <2>1. /\ c.pc = "dup" /\ UNCHANGED <<status, buyer, receipts, charge>>
        /\ \/ Serial!Return(TheCall)
           \/ Serial!PendingOrders(c.pair) = {} /\ Serial!Goto(TheCall, "intent")
    BY <1>1 DEF Serial!LookForPending, Serial!At, Serial!rows
  <2>2. RowsOK'
    BY <2>1, OrderFacts, RowsStay
  <2>3. CASE Serial!Return(TheCall)
    BY <2>2, <2>3, CallReturns DEF OrdersOK
  <2>4. CASE Serial!PendingOrders(c.pair) = {} /\ Serial!Goto(TheCall, "intent")
    <3>1. /\ call' \in [{TheCall} -> Serial!Call] /\ call'[TheCall].pc = "intent"
          /\ call'[TheCall].pair = c.pair
      BY <2>4, OrderFacts, CallGoes
    <3>2. c.pair \in Serial!Pairs
      BY <2>1, OrderFacts DEF TurnOK
    <3>3. TurnOK'
      BY <2>1, <2>4, <3>1, <3>2 DEF TurnOK, Serial!PendingOrders
    <3> QED BY <2>2, <3>1, <3>3 DEF OrdersOK
  <2> QED BY <2>1, <2>3, <2>4
<1>2. CASE Serial!OpenIntent(TheCall)
  <2>1. PICK o \in Serial!Orders :
          /\ charge[o] = "none"
          /\ charge' = [charge EXCEPT ![o] = "open"]
          /\ buyer' = [buyer EXCEPT ![o] = c.pair]
          /\ call' = [call EXCEPT ![TheCall].pc = "insert", ![TheCall].order = o]
    BY <1>2 DEF Serial!OpenIntent
  <2>2. c.pc = "intent" /\ UNCHANGED <<status, receipts>>
    BY <1>2 DEF Serial!OpenIntent, Serial!At
  <2>3. c.pair \in Serial!Pairs /\ Serial!PendingOrders(c.pair) = {} /\ status[o] = "none"
    BY <2>1, <2>2, OrderFacts DEF TurnOK, Serial!RowsHaveIntents
  <2>4. /\ charge' \in [Serial!Orders -> Serial!Charge] /\ charge'[o] = "open"
        /\ buyer' \in [Serial!Orders -> Serial!Pairs \union {Serial!NoPair}]
        /\ buyer'[o] = c.pair
        /\ \A q \in Serial!Orders \ {o} : buyer'[q] = buyer[q] /\ charge'[q] = charge[q]
    BY <2>1, <2>3, OrderFacts DEF Serial!Charge
  <2>5. OrderTypes'
    BY <2>2, <2>4, OrderFacts DEF OrderTypes, Serial!ReceiptCap
  <2>6. RowsOK'
    <3>1. OneEach'
      BY <2>2, <2>3, <2>4, OrderFacts DEF OneEach
    <3>2. Serial!RowsHaveIntents'
      BY <2>2, <2>3, <2>4, OrderFacts DEF Serial!RowsHaveIntents
    <3> QED BY <2>2, <2>5, <3>1, <3>2 DEF OrdersOK, RowsOK
  <2>7. /\ call' \in [{TheCall} -> Serial!Call] /\ call'[TheCall].pc = "insert"
        /\ call'[TheCall].order = o
    <3>1. ASSUME NEW r \in Serial!Call
          PROVE  LET k == [r EXCEPT !.pc = "insert", !.order = o] IN
                 k \in Serial!Call /\ k.pc = "insert" /\ k.order = o
      BY OrderFacts DEF Serial!Call
    <3>2. call' = [call EXCEPT ![TheCall] = [c EXCEPT !.pc = "insert", !.order = o]]
      BY <2>1, OrderFacts
    <3> QED BY <3>1, <3>2, OrderFacts
  <2>8. \A q \in Serial!Orders : ~(buyer'[q] = buyer'[o] /\ status'[q] = "pending")
    BY <2>2, <2>3, <2>4 DEF Serial!PendingOrders
  <2>9. TurnOK'
    BY <2>2, <2>3, <2>4, <2>7, <2>8 DEF TurnOK, Serial!PendingOrders
  <2> QED BY <2>6, <2>7, <2>9 DEF OrdersOK
<1>3. CASE Serial!IntentFails(TheCall)
  <2>1. UNCHANGED <<status, buyer, receipts, charge>> /\ Serial!Return(TheCall)
    BY <1>3 DEF Serial!IntentFails, Serial!rows
  <2> QED BY <2>1, OrderFacts, RowsStay, CallReturns DEF OrdersOK
<1>4. CASE Serial!InsertOrder(TheCall)
  <2> DEFINE o == c.order
  <2>1. /\ c.pc = "insert" /\ status' = [status EXCEPT ![o] = "pending"]
        /\ Serial!Return(TheCall) /\ UNCHANGED <<buyer, charge, receipts>>
    BY <1>4 DEF Serial!InsertOrder, Serial!At
  <2>2. /\ o \in Serial!Orders /\ charge[o] # "none" /\ status[o] = "none"
        /\ Serial!PendingOrders(buyer[o]) = {}
    BY <2>1, OrderFacts DEF TurnOK
  <2>3. /\ status' \in [Serial!Orders -> Serial!Status] /\ status'[o] = "pending"
        /\ \A q \in Serial!Orders \ {o} : status'[q] = status[q]
    BY <2>1, <2>2, OrderFacts DEF Serial!Status
  <2>4. OneEach' /\ Serial!RowsHaveIntents'
    BY <2>1, <2>2, <2>3, OrderFacts DEF OneEach, Serial!PendingOrders, Serial!RowsHaveIntents
  <2>5. OrderTypes'
    BY <2>1, <2>3, OrderFacts DEF OrderTypes, Serial!ReceiptCap
  <2>6. RowsOK'
    BY <2>1, <2>2, <2>3, <2>4, <2>5 DEF OrdersOK, RowsOK
  <2> QED BY <2>1, <2>6, CallReturns DEF OrdersOK
<1> QED BY <1>1, <1>2, <1>3, <1>4 DEF Serial!CreateStep

(* The call goes on to the step s with the order it has, rows unchanged.   *)
LEMMA OrderGoesOn ==
  ASSUME OrdersOK, NEW s \in Serial!Step, Serial!Goto(TheCall, s),
         UNCHANGED <<status, buyer, receipts>>,
         charge' \in [Serial!Orders -> Serial!Charge],
         \A o \in Serial!Orders : charge[o] # "none" => charge'[o] # "none",
         \/ /\ s \in {"load", "markPaid", "markFailed"}
            /\ call[TheCall].order \in Serial!Orders
            /\ status[call[TheCall].order] \in {"pending", "failed"}
         \/ s = "mail" /\ call[TheCall].pc = "enrol"
  PROVE  OrdersOK'
<1>1. /\ call' \in [{TheCall} -> Serial!Call] /\ call'[TheCall].pc = s
      /\ call'[TheCall].order = call[TheCall].order
  BY CallGoes
<1>2. TurnOK'
  BY <1>1, OrderFacts DEF TurnOK
<1>3. RowsOK'
  BY RowsStay
<1> QED BY <1>1, <1>2, <1>3 DEF OrdersOK

LEMMA OrderReturns ==
  ASSUME OrdersOK, Serial!Return(TheCall) \/ call' = [h \in {TheCall} |-> Serial!Idle],
         UNCHANGED <<status, buyer, receipts>>,
         charge' \in [Serial!Orders -> Serial!Charge],
         \A o \in Serial!Orders : charge[o] # "none" => charge'[o] # "none"
  PROVE  OrdersOK'
BY RowsStay, CallReturns DEF OrdersOK

LEMMA ChargePaid ==
  ASSUME OrdersOK, NEW o, NEW k \in {"approved", "paid", "cancelled"},
         charge' = charge \/ charge' = [charge EXCEPT ![o] = k]
  PROVE  /\ charge' \in [Serial!Orders -> Serial!Charge]
         /\ \A q \in Serial!Orders : charge[q] # "none" => charge'[q] # "none"
BY OrderFacts DEF Serial!Charge

LEMMA OrderConfirms ==
  ASSUME OrdersOK, Serial!ConfirmStep(TheCall)
  PROVE  OrdersOK'
<1> DEFINE c == call[TheCall]
           o == call[TheCall].order
<1>0. "markPaid" \in Serial!Step /\ "markFailed" \in Serial!Step /\ "mail" \in Serial!Step
      /\ "enrol" \in Serial!Step /\ "load" \in Serial!Step
  BY OrderFacts
<1>1. c.pc \in {"ask", "markPaid", "markFailed", "poll", "load"} =>
        o \in Serial!Orders /\ status[o] \in {"pending", "failed"}
  BY OrderFacts DEF TurnOK
<1>2. CASE Serial!AskConfirmed(TheCall)
  <2>1. /\ c.pc = "ask" /\ Serial!Goto(TheCall, "markPaid")
        /\ UNCHANGED <<status, buyer, receipts>>
        /\ charge' = charge \/ charge' = [charge EXCEPT ![o] = "paid"]
    BY <1>2 DEF Serial!AskConfirmed, Serial!At, Serial!rows
  <2>2. /\ charge' \in [Serial!Orders -> Serial!Charge]
        /\ \A q \in Serial!Orders : charge[q] # "none" => charge'[q] # "none"
    BY <2>1, ChargePaid
  <2> QED BY <1>0, <1>1, <2>1, <2>2, OrderGoesOn
<1>3. CASE Serial!AskDeclined(TheCall)
  <2>1. /\ c.pc = "ask" /\ Serial!Goto(TheCall, "markFailed")
        /\ UNCHANGED <<status, buyer, receipts, charge>>
    BY <1>3 DEF Serial!AskDeclined, Serial!At, Serial!rows
  <2> QED BY <1>0, <1>1, <2>1, OrderFacts, OrderGoesOn
<1>4. CASE Serial!AskLost(TheCall)
  <2>1. /\ Serial!Return(TheCall) /\ UNCHANGED <<status, buyer, receipts>>
        /\ charge' = charge \/ charge' = [charge EXCEPT ![o] = "paid"]
    BY <1>4 DEF Serial!AskLost, Serial!rows
  <2>2. /\ charge' \in [Serial!Orders -> Serial!Charge]
        /\ \A q \in Serial!Orders : charge[q] # "none" => charge'[q] # "none"
    BY <2>1, ChargePaid
  <2> QED BY <2>1, <2>2, OrderReturns
<1>5. CASE Serial!MarkFailed(TheCall) \/ Serial!MarkPaid(TheCall)
  <2>1. PICK k \in {"failed", "paid"} :
          /\ status' = [status EXCEPT ![o] = k]
          /\ k = "failed" => Serial!Return(TheCall)
          /\ k = "paid" => Serial!Goto(TheCall, "enrol")
    BY <1>5 DEF Serial!MarkFailed, Serial!MarkPaid
  <2>2. c.pc \in {"markPaid", "markFailed"} /\ UNCHANGED <<buyer, charge, receipts>>
    BY <1>5 DEF Serial!MarkFailed, Serial!MarkPaid, Serial!At
  <2>3. o \in Serial!Orders /\ status[o] \in {"pending", "failed"}
    BY <1>1, <2>2
  <2>4. /\ status' \in [Serial!Orders -> Serial!Status] /\ status'[o] = k
        /\ \A q \in Serial!Orders \ {o} : status'[q] = status[q]
    BY <2>1, <2>3, OrderFacts DEF Serial!Status
  <2>5. OneEach' /\ Serial!RowsHaveIntents'
    BY <2>2, <2>3, <2>4, OrderFacts DEF OneEach, Serial!RowsHaveIntents
  <2>6. OrderTypes'
    BY <2>2, <2>4, OrderFacts DEF OrderTypes, Serial!ReceiptCap
  <2>7. ~(receipts[o] > 0) /\ receipts[o] = 0
    BY <2>3, OrderFacts
  <2>8. RowsOK'
    BY <2>2, <2>3, <2>4, <2>5, <2>6, <2>7 DEF OrdersOK, RowsOK
  <2>9. CASE k = "failed"
    BY <2>1, <2>8, <2>9, CallReturns DEF OrdersOK
  <2>10. CASE k = "paid"
    <3>1. /\ call' \in [{TheCall} -> Serial!Call] /\ call'[TheCall].pc = "enrol"
          /\ call'[TheCall].order = o
      BY <1>0, <2>1, <2>10, CallGoes
    <3>2. TurnOK'
      BY <2>2, <2>3, <2>4, <2>7, <2>10, <3>1 DEF TurnOK
    <3> QED BY <2>8, <3>1, <3>2 DEF OrdersOK
  <2> QED BY <2>9, <2>10
<1>6. CASE Serial!Enrol(TheCall)
  <2>1. /\ c.pc = "enrol" /\ Serial!Goto(TheCall, "mail")
        /\ UNCHANGED <<status, buyer, receipts, charge>>
    BY <1>6 DEF Serial!Enrol, Serial!At, Serial!rows
  <2> QED BY <1>0, <2>1, OrderFacts, OrderGoesOn
<1>7. CASE Serial!SendReceipt(TheCall)
  <2>1. /\ c.pc = "mail" /\ Serial!Return(TheCall) /\ UNCHANGED <<status, buyer, charge>>
        /\ \/ receipts' = receipts
           \/ receipts' = [receipts EXCEPT ![o] =
                             IF @ < Serial!ReceiptCap THEN @ + 1 ELSE @]
    BY <1>7 DEF Serial!SendReceipt, Serial!At, Serial!rows
  <2>2. o \in Serial!Orders /\ status[o] = "paid" /\ receipts[o] = 0
    BY <2>1, OrderFacts DEF TurnOK
  <2>3. CASE receipts' = receipts
    BY <2>1, <2>3, OrderFacts, OrderReturns
  <2>4. CASE receipts' = [receipts EXCEPT ![o] =
                            IF @ < Serial!ReceiptCap THEN @ + 1 ELSE @]
    <3>1. receipts' = [receipts EXCEPT ![o] = 1]
      BY <2>2, <2>4, OrderFacts DEF Serial!ReceiptCap
    <3>2. /\ receipts' \in [Serial!Orders -> 0..2] /\ receipts'[o] = 1
          /\ \A q \in Serial!Orders \ {o} : receipts'[q] = receipts[q]
      BY <2>2, <3>1, OrderFacts
    <3>3. /\ \A q \in Serial!Orders : receipts'[q] <= 1
          /\ \A q \in Serial!Orders : receipts'[q] > 0 => status'[q] = "paid"
      BY <2>1, <2>2, <3>2, OrderFacts
    <3>4. OrderTypes'
      BY <2>1, <3>2, OrderFacts DEF OrderTypes, Serial!ReceiptCap
    <3>5. OneEach' /\ Serial!RowsHaveIntents'
      BY <2>1, OrderFacts DEF OneEach, Serial!RowsHaveIntents
    <3> QED BY <2>1, <3>3, <3>4, <3>5, CallReturns DEF OrdersOK, RowsOK
  <2> QED BY <2>1, <2>3, <2>4
<1> QED BY <1>2, <1>3, <1>4, <1>5, <1>6, <1>7 DEF Serial!ConfirmStep

LEMMA OrderPolls ==
  ASSUME OrdersOK, Serial!PollStep(TheCall)
  PROVE  OrdersOK'
<1> DEFINE c == call[TheCall]
           o == call[TheCall].order
<1>0. "markPaid" \in Serial!Step /\ "markFailed" \in Serial!Step /\ "load" \in Serial!Step
  BY OrderFacts
<1>1. /\ c.pc \in {"poll", "load"} /\ UNCHANGED <<status, buyer, receipts, charge>>
      /\ \/ Serial!Return(TheCall) \/ Serial!Goto(TheCall, "load")
         \/ Serial!Goto(TheCall, "markFailed") \/ Serial!Goto(TheCall, "markPaid")
  BY DEF Serial!PollStep, Serial!PollAnswer, Serial!PollLost, Serial!LoadForced, Serial!At,
         Serial!rows
<1>2. o \in Serial!Orders /\ status[o] \in {"pending", "failed"}
  BY <1>1, OrderFacts DEF TurnOK
<1> QED BY <1>0, <1>1, <1>2, OrderFacts, OrderGoesOn, OrderReturns

LEMMA OrderBegins ==
  ASSUME OrdersOK, Serial!Request(TheCall)
  PROVE  OrdersOK'
<1>0. /\ "ask" \in Serial!Step /\ "markPaid" \in Serial!Step /\ "poll" \in Serial!Step
      /\ "dup" \in Serial!Step /\ "none" \in Serial!Event
  BY OrderFacts DEF Serial!Event
<1>1. ASSUME NEW p \in Serial!Pairs, NEW v \in Providers, Serial!StartCreate(TheCall, p, v)
      PROVE  OrdersOK'
  <2> DEFINE k == [Serial!Idle EXCEPT !.pc = "dup", !.pair = p, !.via = v]
  <2>1. k \in Serial!Call /\ k.pc = "dup" /\ k.pair = p
    BY <1>0 DEF Serial!Idle, Serial!Call, Serial!Event
  <2>2. call' = [call EXCEPT ![TheCall] = k] /\ UNCHANGED <<status, buyer, receipts, charge>>
    BY <1>1 DEF Serial!StartCreate, Serial!rows
  <2> HIDE DEF k
  <2>3. call' \in [{TheCall} -> Serial!Call] /\ call'[TheCall] = k
    BY <2>1, <2>2, OrderFacts
  <2>4. TurnOK'
    BY <2>1, <2>3 DEF TurnOK
  <2> QED BY <2>2, <2>3, <2>4, OrderFacts, RowsStay DEF OrdersOK
<1>2. ASSUME NEW o \in Serial!Orders, NEW e \in Serial!Event,
             NEW s \in {"ask", "markPaid", "poll"}, Serial!Begin(TheCall, s, o, e),
             status[o] \in {"pending", "failed"}, UNCHANGED <<status, buyer, receipts>>,
             charge' = charge \/ charge' = [charge EXCEPT ![o] = "paid"]
      PROVE  OrdersOK'
  <2>1. /\ call' \in [{TheCall} -> Serial!Call] /\ call'[TheCall].pc = s
        /\ call'[TheCall].order = o
    BY <1>0, <1>2, CallBegins
  <2>2. TurnOK'
    BY <1>2, <2>1 DEF TurnOK
  <2>3. RowsOK'
    BY <1>2, ChargePaid, RowsStay
  <2> QED BY <2>1, <2>2, <2>3 DEF OrdersOK
<1>3. ASSUME NEW o \in Serial!Orders, NEW e \in Serial!Event, Serial!Webhook(TheCall, o, e)
      PROVE  OrdersOK'
  BY <1>2, <1>3 DEF Serial!Webhook, Serial!rows
<1>4. ASSUME NEW o \in Serial!Orders,
             Serial!MockComplete(TheCall, o) \/ Serial!StartPoll(TheCall, o)
      PROVE  OrdersOK'
  BY <1>0, <1>2, <1>4 DEF Serial!MockComplete, Serial!StartPoll, Serial!rows
<1> QED BY <1>1, <1>3, <1>4 DEF Serial!Request

LEMMA OrderWorld ==
  ASSUME OrdersOK, Serial!World
  PROVE  OrdersOK'
<1>1. ASSUME NEW o \in Serial!Orders, Serial!LearnerPays(o) \/ Serial!LearnerCancels(o)
      PROVE  OrdersOK'
  <2>1. /\ UNCHANGED <<status, buyer, receipts, call>>
        /\ \E k \in {"approved", "paid", "cancelled"} : charge' = [charge EXCEPT ![o] = k]
    BY <1>1 DEF Serial!LearnerPays, Serial!LearnerCancels, Serial!rows
  <2>2. /\ charge' \in [Serial!Orders -> Serial!Charge]
        /\ \A q \in Serial!Orders : charge[q] # "none" => charge'[q] # "none"
    BY <2>1, ChargePaid
  <2> QED BY <2>1, <2>2, RowsStay, TurnStays, OrderFacts DEF OrdersOK
<1>2. ASSUME NEW p \in Serial!Pairs, Serial!EnrolledElsewhere(p) PROVE OrdersOK'
  <2>1. UNCHANGED <<status, buyer, receipts, call, charge>>
    BY <1>2 DEF Serial!EnrolledElsewhere, Serial!rows
  <2> QED BY <2>1, RowsStay, TurnStays, OrderFacts DEF OrdersOK
<1>3. ASSUME Serial!Crash PROVE OrdersOK'
  <2>1. UNCHANGED <<status, buyer, receipts, charge>> /\ call' = [h \in {TheCall} |-> Serial!Idle]
    BY <1>3 DEF Serial!Crash, Serial!rows
  <2> QED BY <2>1, OrderReturns, OrderFacts
<1> QED BY <1>1, <1>2, <1>3 DEF Serial!World

LEMMA OrderStep ==
  ASSUME OrdersOK, Serial!Next \/ UNCHANGED orderVars
  PROVE  OrdersOK'
<1>1. CASE UNCHANGED orderVars
  <2>1. UNCHANGED <<status, buyer, receipts, call, charge>>
    BY <1>1 DEF orderVars
  <2> QED BY <2>1, RowsStay, TurnStays, OrderFacts DEF OrdersOK
<1>2. CASE Serial!Next
  BY <1>2, OrderCreates, OrderConfirms, OrderPolls, OrderBegins, OrderWorld
     DEF Serial!Next, Serial!HandlerStep
<1> QED BY <1>1, <1>2

(* With one call at a time a learner has one pending order of a course, as *)
(* createOrder means to ensure, and gets one receipt of it, as the comment *)
(* of confirmOrderPayment says: for any learners, courses, orders, crashes *)
(* and lost answers.  What two calls at once break is the overlap alone.   *)
THEOREM OneCallAtATime == Spec => []OrdersInv
<1>1. Init => OrdersOK
  BY OrdersInit DEF Init
<1>2. OrdersOK /\ [Next]_vars => OrdersOK'
  BY OrderStep DEF Next, Only, vars
<1>3. Spec => []OrdersOK
  BY <1>1, <1>2, PTL DEF Spec
<1>4. OrdersOK => OrdersInv
  BY OrdersSuffice DEF OrdersInv
<1> QED BY <1>3, <1>4, PTL

-----------------------------------------------------------------------------
(* The seed script.  A run that is alone and undisturbed knows that the    *)
(* lessons behind it are synced; one whose lesson is still there knows     *)
(* which questions it has inserted.                                        *)

LEMMA SeedFacts ==
  ASSUME Script!SeedInv
  PROVE  /\ Script!TypeOK /\ Script!NoQuestionTwice /\ Script!DoneIsSynced
         /\ Script!SnapshotsAreWhole /\ Script!Alone /\ Script!Settled
         /\ \A r \in Calls : Script!RunOK(r)
         /\ people \in SUBSET Script!Seeded /\ course \in {"none", "orphan", "owned"}
         /\ chapter \in BOOLEAN /\ lesson \in [Script!Positions -> {"none", "seed", "author"}]
         /\ bank \in [Script!Positions -> [1..Questions -> Nat]]
         /\ run \in [Calls -> Script!Run] /\ abreast \in BOOLEAN
         /\ paper \in [questions : [1..Questions -> Nat], quiet : BOOLEAN, none : BOOLEAN]
         /\ runs \in 0..MaxRuns /\ tweaks \in 0..MaxTweaks /\ deaths \in 0..MaxDeaths
         /\ \A r \in Calls : run[r] \in Script!Run
BY DEF Script!SeedInv, Script!TypeOK

LEMMA SeedIdle ==
  /\ Script!Idle \in Script!Run /\ Script!Idle.pc = "idle" /\ Script!Idle.who = "instructor"
  /\ Script!Idle.at = 1 /\ Script!Idle.q = 1
  /\ ~Script!Idle.loose /\ ~Script!Idle.gone /\ ~Script!Idle.disturbed
  /\ 1 \in Script!Positions
  /\ Script!Seeded = {"instructor", "demo", "admin"}
  /\ Script!Step = {"idle", "seek", "account", "course", "create", "link", "module", "lesson",
                    "wipe", "question", "done"}
BY DEF Script!Idle, Script!Run, Script!Step, Script!Seeded, Script!Positions

LEMMA RunType ==
  ASSUME NEW c \in Script!Run
  PROVE  /\ c.pc \in Script!Step /\ c.who \in Script!Seeded
         /\ c.at \in Script!Positions /\ c.at \in Nat \ {0} /\ c.q \in 1..(Questions + 1)
         /\ c.loose \in BOOLEAN /\ c.gone \in BOOLEAN /\ c.disturbed \in BOOLEAN
BY DEF Script!Run, Script!Positions

(* A run that is over, or has just begun, has nothing to know.             *)
LEMMA SeedRests ==
  ASSUME NEW r \in Calls, run[r] = Script!Idle
  PROVE  Script!RunOK(r)
BY SeedIdle DEF Script!RunOK, Script!Running, Script!Later

LEMMA SeedPromise == (\A o \in Calls : Script!RunOK(o)) => Script!DoneIsSynced
<1> SUFFICES ASSUME \A o \in Calls : Script!RunOK(o), ~abreast, NEW r \in Calls
             PROVE  /\ run[r].pc = "seek" /\ run[r].who # "instructor" /\ ~run[r].disturbed =>
                         /\ course = "owned"
                         /\ \A p \in 1..Size : lesson[p] = "seed"
                         /\ \A p \in Quizzes : Script!Whole(bank[p])
                    /\ run[r].pc = "done" => people = Script!Seeded
  BY DEF Script!DoneIsSynced, Script!At
<1>1. Script!RunOK(r)
  OBVIOUS
<1>2. run[r].pc = "done" => people = Script!Seeded
  BY <1>1 DEF Script!RunOK
<1>3. ASSUME run[r].pc = "seek", run[r].who # "instructor", ~run[r].disturbed
      PROVE  course = "owned" /\ \A p \in 1..Size : Script!Synced(p)
  <2>1. Script!Later(run[r])
    BY <1>3 DEF Script!Later
  <2> QED BY <1>1, <1>3, <2>1 DEF Script!RunOK
<1>4. Quizzes \subseteq 1..Size
  OBVIOUS
<1> QED BY <1>2, <1>3, <1>4 DEF Script!Synced

LEMMA SeedInit == Script!Init => Script!SeedInv
<1> SUFFICES ASSUME Script!Init PROVE Script!SeedInv
  OBVIOUS
<1>1. /\ people = {} /\ course = "none" /\ chapter = FALSE
      /\ lesson = [p \in Script!Positions |-> "none"]
      /\ bank = [p \in Script!Positions |-> Script!Empty]
      /\ run = [r \in Calls |-> Script!Idle]
      /\ paper = [questions |-> Script!Empty, quiet |-> FALSE, none |-> TRUE]
      /\ abreast = FALSE /\ runs = 0 /\ tweaks = 0 /\ deaths = 0
  BY DEF Script!Init
<1>2. Script!Empty \in [1..Questions -> Nat] /\ \A q \in 1..Questions : Script!Empty[q] = 0
  BY DEF Script!Empty
<1>3. Script!TypeOK
  <2>1. /\ bank \in [Script!Positions -> [1..Questions -> Nat]]
        /\ lesson \in [Script!Positions -> {"none", "seed", "author"}]
    BY <1>1, <1>2
  <2>2. paper \in [questions : [1..Questions -> Nat], quiet : BOOLEAN, none : BOOLEAN]
    BY <1>1, <1>2
  <2>3. run \in [Calls -> Script!Run] /\ people \in SUBSET Script!Seeded
    BY <1>1, SeedIdle
  <2>4. runs \in 0..MaxRuns /\ tweaks \in 0..MaxTweaks /\ deaths \in 0..MaxDeaths
    BY <1>1
  <2> QED BY <1>1, <2>1, <2>2, <2>3, <2>4 DEF Script!TypeOK
<1>4. Script!NoQuestionTwice
  BY <1>1, <1>2 DEF Script!NoQuestionTwice
<1>5. \A r \in Calls : Script!RunOK(r)
  BY <1>1, SeedRests
<1>6. Script!DoneIsSynced
  BY <1>5, SeedPromise
<1>7. Script!SnapshotsAreWhole
  BY <1>1 DEF Script!SnapshotsAreWhole
<1>8. Script!Alone
  BY <1>1, SeedIdle DEF Script!Alone, Script!Running
<1>9. Script!Settled
  <2>1. Quizzes \subseteq Script!Positions
    BY DEF Script!Positions
  <2> QED BY <1>1, <2>1 DEF Script!Settled
<1> QED BY <1>3, <1>4, <1>5, <1>6, <1>7, <1>8, <1>9 DEF Script!SeedInv

(* What a run knows stays so while others move; the lessons, if it is over *)
(* or calls itself accompanied.                                            *)
LEMMA RunKept ==
  ASSUME Script!SeedInv, NEW r \in Calls, run'[r] = run[r], people \subseteq people',
         people' \in SUBSET Script!Seeded,
         course = "owned" => course' = "owned", abreast' \/ ~Script!Running(r)
  PROVE  Script!RunOK(r)'
<1>1. Script!RunOK(r)
  BY SeedFacts
<1>2. CASE Script!Running(r)
  BY <1>1, <1>2 DEF Script!RunOK, Script!Running, Script!Later
<1>3. CASE ~Script!Running(r)
  <2>1. run[r].pc = "done" => people' = Script!Seeded
    BY <1>1 DEF Script!RunOK
  <2> QED BY <1>1, <1>3, <2>1 DEF Script!RunOK, Script!Running, Script!Later
<1> QED BY <1>2, <1>3

(* A run takes a step.                                                     *)
LEMMA SeedCall ==
  ASSUME Script!SeedInv, NEW r \in Calls, \A o \in Calls \ {r} : run'[o] = run[o],
         people \subseteq people', course = "owned" => course' = "owned",
         abreast => abreast', UNCHANGED paper,
         Script!Running(r) \/ abreast' \/ \A o \in Calls \ {r} : ~Script!Running(o),
         Script!TypeOK', Script!NoQuestionTwice', Script!Settled', Script!RunOK(r)'
  PROVE  Script!SeedInv'
<1>1. ~abreast' => \A o \in Calls \ {r} : ~Script!Running(o)
  BY SeedFacts DEF Script!Alone
<1>2. Script!Alone'
  BY <1>1 DEF Script!Alone, Script!Running
<1>3. \A o \in Calls : Script!RunOK(o)'
  <2>1. people' \in SUBSET Script!Seeded
    BY DEF Script!TypeOK
  <2> QED BY <1>1, <2>1, RunKept
<1>4. Script!DoneIsSynced'
  <2>1. ((\A o \in Calls : Script!RunOK(o)) => Script!DoneIsSynced)'
    BY SeedPromise, PTL
  <2> QED BY <1>3, <2>1
<1>5. Script!SnapshotsAreWhole'
  BY SeedFacts DEF Script!SnapshotsAreWhole, Script!Whole
<1> QED BY <1>2, <1>3, <1>4, <1>5 DEF Script!SeedInv

LEMMA RunMoves ==
  ASSUME Script!SeedInv, NEW r \in Calls, NEW n \in Script!Run, run' = [run EXCEPT ![r] = n]
  PROVE  /\ run' \in [Calls -> Script!Run] /\ run'[r] = n
         /\ \A o \in Calls \ {r} : run'[o] = run[o]
BY SeedFacts

(* A run that touches no lesson and no question.                           *)
LEMMA SeedQuiet ==
  ASSUME Script!SeedInv, NEW r \in Calls, Script!Running(r),
         NEW n \in Script!Run, run' = [run EXCEPT ![r] = n],
         UNCHANGED <<lesson, bank, paper, abreast, runs, tweaks>>, chapter' \in BOOLEAN,
         people \subseteq people', people' \in SUBSET Script!Seeded,
         course' \in {"none", "orphan", "owned"}, course = "owned" => course' = "owned",
         deaths' \in 0..MaxDeaths,
         deaths' # 0 \/ (deaths' = deaths /\ run[r].pc \notin {"wipe", "question"}),
         Script!RunOK(r)'
  PROVE  Script!SeedInv'
<1>1. /\ run' \in [Calls -> Script!Run] /\ run'[r] = n
      /\ \A o \in Calls \ {r} : run'[o] = run[o]
  BY RunMoves
<1>2. Script!TypeOK'
  BY <1>1, SeedFacts DEF Script!TypeOK
<1>3. Script!NoQuestionTwice'
  BY SeedFacts DEF Script!NoQuestionTwice
<1>4. Script!Settled'
  <2> SUFFICES ASSUME ~abreast', deaths' = 0, NEW p \in Quizzes, lesson'[p] = "seed"
               PROVE  \/ Script!Whole(bank[p])'
                      \/ \E o \in Calls : run'[o].pc \in {"wipe", "question"} /\ run'[o].at = p
    BY DEF Script!Settled
  <2>1. \/ Script!Whole(bank[p])
        \/ \E o \in Calls : run[o].pc \in {"wipe", "question"} /\ run[o].at = p
    BY SeedFacts DEF Script!Settled
  <2>2. CASE Script!Whole(bank[p])
    BY <2>2 DEF Script!Whole
  <2>3. CASE \E o \in Calls : run[o].pc \in {"wipe", "question"} /\ run[o].at = p
    BY <1>1, <2>3
  <2> QED BY <2>1, <2>2, <2>3
<1> QED BY <1>1, <1>2, <1>3, <1>4, SeedCall

LEMMA SeedStarts ==
  ASSUME Script!SeedInv, NEW r \in Calls, Script!Start(r)
  PROVE  Script!SeedInv'
<1> DEFINE n == [Script!Idle EXCEPT !.pc = "seek"]
<1>1. /\ ~Script!Running(r) /\ runs < MaxRuns /\ runs' = runs + 1
      /\ run' = [run EXCEPT ![r] = n]
      /\ abreast' = (abreast \/ \E o \in Calls \ {r} : Script!Running(o))
      /\ UNCHANGED <<people, course, chapter, lesson, bank, paper, tweaks, deaths>>
  BY DEF Script!Start, Script!rows
<1>2. /\ n \in Script!Run /\ n.pc = "seek" /\ n.who = "instructor" /\ n.at = 1 /\ n.q = 1
      /\ ~n.loose /\ ~n.gone /\ ~n.disturbed
  BY SeedIdle DEF Script!Run
<1> HIDE DEF n
<1>3. /\ run' \in [Calls -> Script!Run] /\ run'[r] = n
      /\ \A o \in Calls \ {r} : run'[o] = run[o]
  BY <1>1, <1>2, RunMoves
<1>4. abreast' \in BOOLEAN /\ (abreast => abreast')
      /\ (~abreast' => ~abreast /\ \A o \in Calls : ~Script!Running(o))
  BY <1>1, SeedFacts
<1>5. runs' \in 0..MaxRuns
  BY <1>1, SeedFacts
<1>6. Script!TypeOK'
  BY <1>1, <1>3, <1>4, <1>5, SeedFacts DEF Script!TypeOK
<1>7. Script!NoQuestionTwice'
  BY <1>1, <1>4, SeedFacts DEF Script!NoQuestionTwice
<1>8. Script!Settled'
  BY <1>1, <1>4, SeedFacts DEF Script!Settled, Script!Running, Script!Whole
<1>9. Script!RunOK(r)'
  BY <1>2, <1>3 DEF Script!RunOK, Script!Running, Script!Later
<1> QED BY <1>1, <1>3, <1>4, <1>6, <1>7, <1>8, <1>9, SeedCall

(* A run gives up, or dies.                                                *)
LEMMA SeedFails ==
  ASSUME Script!SeedInv, NEW r \in Calls, Script!Running(r), Script!Fail(r),
         UNCHANGED <<people, course, chapter, lesson, bank, paper, abreast, runs, tweaks>>,
         deaths' \in 0..MaxDeaths,
         deaths' # 0 \/ (deaths' = deaths /\ run[r].pc \notin {"wipe", "question"})
  PROVE  Script!SeedInv'
<1>1. run' = [run EXCEPT ![r] = Script!Idle] /\ Script!Idle \in Script!Run
  BY SeedIdle DEF Script!Fail
<1>2. run'[r] = Script!Idle
  BY <1>1, RunMoves
<1>3. Script!RunOK(r)'
  BY <1>2, SeedIdle DEF Script!RunOK, Script!Running, Script!Later
<1> QED BY <1>1, <1>3, SeedFacts, SeedQuiet

LEMMA SeedDies ==
  ASSUME Script!SeedInv, NEW r \in Calls, Script!Die(r)
  PROVE  Script!SeedInv'
<1>1. /\ Script!Running(r) /\ deaths < MaxDeaths /\ deaths' = deaths + 1 /\ Script!Fail(r)
      /\ UNCHANGED <<people, course, chapter, lesson, bank, paper, abreast, runs, tweaks>>
  BY DEF Script!Die, Script!rows
<1>2. deaths' \in 0..MaxDeaths /\ deaths' # 0
  BY <1>1, SeedFacts
<1> QED BY <1>1, <1>2, SeedFails

-----------------------------------------------------------------------------
(* The seed script: accounts and the course                                *)

(* From one account to the next.                                           *)
LEMMA SeedAccounts ==
  ASSUME Script!SeedInv, NEW r \in Calls, run[r].pc \in {"seek", "account"},
         people \subseteq people', people' \in SUBSET Script!Seeded, run[r].who \in people',
         run' = [run EXCEPT ![r].pc = Script!AfterAccount(run[r].who).pc,
                            ![r].who = Script!AfterAccount(run[r].who).who],
         UNCHANGED <<course, chapter, lesson, bank, paper, abreast, runs, tweaks, deaths>>
  PROVE  Script!SeedInv'
<1> DEFINE c == run[r]
           next == Script!AfterAccount(c.who)
           n == [c EXCEPT !.pc = next.pc, !.who = next.who]
<1>1. c \in Script!Run /\ Script!RunOK(r) /\ Script!Running(r)
  BY SeedFacts DEF Script!Running
<1>2. /\ c.who \in {"instructor", "demo", "admin"}
      /\ c.who = "instructor" => next.pc = "course" /\ next.who = "demo"
      /\ c.who = "demo" => next.pc = "seek" /\ next.who = "admin"
      /\ c.who = "admin" => next.pc = "done" /\ next.who = "admin"
  BY <1>1, RunType, SeedIdle DEF Script!AfterAccount
<1> HIDE DEF next
<1>3. /\ n \in Script!Run /\ n.pc = next.pc /\ n.who = next.who /\ n.at = c.at /\ n.q = c.q
      /\ n.loose = c.loose /\ n.gone = c.gone /\ n.disturbed = c.disturbed
  BY <1>1, <1>2, SeedIdle DEF Script!Run
<1>4. run' = [run EXCEPT ![r] = n]
  BY SeedFacts DEF next
<1> HIDE DEF n
<1>5. run'[r] = n
  BY <1>3, <1>4, RunMoves
<1>6. Script!RunOK(r)'
  <2>1. CASE c.who = "instructor"
    <3>1. c.at = 1 /\ c.q = 1 /\ c.at <= Size /\ (c.loose \/ c.gone => c.disturbed)
      BY <1>1, <2>1 DEF Script!RunOK
    <3> QED BY <1>2, <1>3, <1>5, <2>1, <3>1 DEF Script!RunOK, Script!Running, Script!Later
  <2>2. CASE c.who = "demo"
    <3>1. /\ c.at <= Size /\ (c.loose \/ c.gone => c.disturbed) /\ course = "owned"
          /\ "instructor" \in people
          /\ ~abreast /\ ~c.disturbed => \A p \in 1..Size : Script!Synced(p)
      BY <1>1, <2>2 DEF Script!RunOK, Script!Running, Script!Later
    <3>2. ~abreast' /\ ~n.disturbed => \A p \in 1..Size : Script!Synced(p)'
      BY <1>3, <3>1 DEF Script!Synced, Script!Whole
    <3> QED BY <1>2, <1>3, <1>5, <2>2, <3>1, <3>2 DEF Script!RunOK, Script!Running, Script!Later
  <2>3. CASE c.who = "admin"
    <3>1. /\ c.at <= Size /\ (c.loose \/ c.gone => c.disturbed)
          /\ "instructor" \in people /\ "demo" \in people
      BY <1>1, <2>3 DEF Script!RunOK, Script!Running
    <3>2. people' = Script!Seeded
      BY <2>3, <3>1, SeedIdle
    <3> QED BY <1>2, <1>3, <1>5, <2>3, <3>1, <3>2 DEF Script!RunOK, Script!Running, Script!Later
  <2> QED BY <1>2, <2>1, <2>2, <2>3
<1> QED BY <1>1, <1>3, <1>4, <1>6, SeedFacts, SeedQuiet

LEMMA SeedPeople ==
  ASSUME Script!SeedInv, NEW r \in Calls, Script!SeekAccount(r) \/ Script!InsertAccount(r)
  PROVE  Script!SeedInv'
<1> DEFINE c == run[r]
<1>1. /\ c \in Script!Run /\ Script!RunOK(r) /\ Script!Running(r)
      /\ c.pc \in {"seek", "account"} /\ c.who \in Script!Seeded
      /\ UNCHANGED <<course, chapter, lesson, bank, paper, abreast, runs, tweaks, deaths>>
  BY SeedFacts, RunType
     DEF Script!SeekAccount, Script!InsertAccount, Script!At, Script!Running, Script!rows,
         Script!bounds
<1>2. CASE Script!SeekAccount(r) /\ c.who \in people
  BY <1>1, <1>2, SeedFacts, SeedAccounts DEF Script!SeekAccount, Script!rows
<1>3. CASE Script!SeekAccount(r) /\ c.who \notin people
  <2> DEFINE n == [c EXCEPT !.pc = "account"]
  <2>1. run' = [run EXCEPT ![r] = n] /\ UNCHANGED people /\ c.pc = "seek"
    BY <1>3, SeedFacts DEF Script!SeekAccount, Script!Goto, Script!rows, Script!At
  <2>2. /\ n \in Script!Run /\ n.pc = "account" /\ n.who = c.who /\ n.at = c.at /\ n.q = c.q
        /\ n.loose = c.loose /\ n.gone = c.gone /\ n.disturbed = c.disturbed
    BY <1>1, SeedIdle DEF Script!Run
  <2> HIDE DEF n
  <2>3. run'[r] = n
    BY <2>1, <2>2, RunMoves
  <2>4. /\ Script!Later(n) <=> Script!Later(c)
        /\ \A p : Script!Synced(p)' <=> Script!Synced(p)
    BY <1>1, <2>1, <2>2 DEF Script!Later, Script!Synced, Script!Whole
  <2>5. Script!RunOK(r)'
    BY <1>1, <2>1, <2>2, <2>3, <2>4 DEF Script!RunOK, Script!Running
  <2> QED BY <1>1, <2>1, <2>2, <2>5, SeedFacts, SeedQuiet
<1>4. CASE Script!InsertAccount(r) /\ c.who \in people
  BY <1>1, <1>4, SeedFacts, SeedFails DEF Script!InsertAccount
<1>5. CASE Script!InsertAccount(r) /\ c.who \notin people
  <2>1. people' = people \union {c.who}
    BY <1>5 DEF Script!InsertAccount
  <2>2. people' \in SUBSET Script!Seeded
    BY <1>1, <2>1, SeedFacts
  <2> QED BY <1>1, <1>5, <2>1, <2>2, SeedAccounts DEF Script!InsertAccount
<1> QED BY <1>2, <1>3, <1>4, <1>5

LEMMA SeedCourse ==
  ASSUME Script!SeedInv, NEW r \in Calls,
         Script!SeekCourse(r) \/ Script!LinkInstructor(r) \/ Script!InsertCourse(r)
           \/ Script!UpsertModule(r)
  PROVE  Script!SeedInv'
<1> DEFINE c == run[r]
<1>1. /\ c \in Script!Run /\ Script!RunOK(r) /\ Script!Running(r)
      /\ c.pc \in {"course", "create", "link", "module"} /\ c.who = "demo"
      /\ c.at = 1 /\ c.q = 1 /\ c.at <= Size /\ (c.loose \/ c.gone => c.disturbed)
      /\ "instructor" \in people
      /\ UNCHANGED <<people, lesson, bank, paper, abreast, runs, tweaks, deaths>>
  <2>1. c.pc \in {"course", "create", "link", "module"}
        /\ UNCHANGED <<people, lesson, bank, paper, abreast, runs, tweaks, deaths>>
    BY DEF Script!SeekCourse, Script!LinkInstructor, Script!InsertCourse, Script!UpsertModule,
           Script!At, Script!rows, Script!bounds
  <2> QED BY <2>1, SeedFacts DEF Script!RunOK, Script!Running
(* The run goes on to the step pc, with or without the module's row.       *)
<1>2. ASSUME NEW pc \in {"create", "link", "module", "lesson"}, NEW loose \in BOOLEAN,
             run' = [run EXCEPT ![r] = [c EXCEPT !.pc = pc, !.loose = loose]],
             loose => c.loose, chapter' \in BOOLEAN, course' \in {"none", "orphan", "owned"},
             course = "owned" => course' = "owned",
             pc \in {"module", "lesson"} => course' = "owned"
      PROVE  Script!SeedInv'
  <2> DEFINE n == [c EXCEPT !.pc = pc, !.loose = loose]
  <2>1. /\ n \in Script!Run /\ n.pc = pc /\ n.who = "demo" /\ n.at = 1 /\ n.q = 1
        /\ n.loose = loose /\ n.gone = c.gone /\ n.disturbed = c.disturbed
    BY <1>1, SeedIdle DEF Script!Run
  <2> HIDE DEF n
  <2>2. run'[r] = n
    BY <1>2, <2>1, RunMoves DEF n
  <2>3. Script!RunOK(r)'
    BY <1>1, <1>2, <2>1, <2>2 DEF Script!RunOK, Script!Running, Script!Later
  <2> QED BY <1>1, <1>2, <2>1, <2>3, SeedFacts, SeedQuiet DEF n
<1>3. c = [c EXCEPT !.loose = c.loose] /\ c.loose \in BOOLEAN
  BY <1>1 DEF Script!Run
<1>4. \A pc : [c EXCEPT !.pc = pc] = [c EXCEPT !.pc = pc, !.loose = c.loose]
  BY <1>1 DEF Script!Run
<1>5. CASE Script!SeekCourse(r)
  <2>1. PICK pc \in {"create", "link"} : run' = [run EXCEPT ![r] = [c EXCEPT !.pc = pc]]
    BY <1>5, SeedFacts DEF Script!SeekCourse, Script!Goto
  <2> QED BY <1>2, <1>3, <1>4, <1>5, <2>1, SeedFacts DEF Script!SeekCourse, Script!rows
<1>6. CASE Script!LinkInstructor(r)
  <2>1. run' = [run EXCEPT ![r] = [c EXCEPT !.pc = "module"]] /\ course' = "owned"
        /\ UNCHANGED chapter
    BY <1>1, <1>6, SeedFacts DEF Script!LinkInstructor, Script!Goto
  <2> QED BY <1>2, <1>3, <1>4, <2>1, SeedFacts
<1>7. CASE Script!InsertCourse(r) /\ course # "none"
  <2>1. c.pc = "create" /\ Script!Fail(r) /\ UNCHANGED <<course, chapter>>
    BY <1>7 DEF Script!InsertCourse, Script!At
  <2> QED BY <1>1, <2>1, SeedFacts, SeedFails
<1>8. CASE Script!InsertCourse(r) /\ course = "none"
  <2>1. run' = [run EXCEPT ![r] = [c EXCEPT !.pc = "module"]] /\ course' = "owned"
        /\ UNCHANGED chapter
    BY <1>1, <1>8, SeedFacts DEF Script!InsertCourse, Script!Goto
  <2> QED BY <1>2, <1>3, <1>4, <2>1, SeedFacts
<1>9. CASE Script!UpsertModule(r)
  <2>1. run' = [run EXCEPT ![r] = [c EXCEPT !.pc = "lesson", !.loose = FALSE]]
        /\ chapter' = TRUE /\ UNCHANGED course /\ c.pc = "module"
    BY <1>9, SeedFacts DEF Script!UpsertModule, Script!At
  <2>2. course = "owned"
    BY <1>1, <2>1 DEF Script!RunOK
  <2> QED BY <1>2, <2>1, <2>2, SeedFacts
<1> QED BY <1>5, <1>6, <1>7, <1>8, <1>9

-----------------------------------------------------------------------------
(* The seed script: lessons and their questions                            *)

(* A run at a lesson, or done with its questions, goes to the next one.    *)
LEMMA SeedGoesOn ==
  ASSUME Script!SeedInv, NEW r \in Calls, run[r].pc \in {"lesson", "question"},
         Script!NextLesson(r),
         UNCHANGED <<people, course, chapter, bank, paper, abreast, runs, tweaks, deaths>>,
         lesson' \in [Script!Positions -> {"none", "seed", "author"}],
         \A p \in Script!Positions : p # run[r].at => lesson'[p] = lesson[p],
         ~abreast /\ ~run[r].disturbed => lesson'[run[r].at] = "seed",
         ~abreast /\ run[r].at \in Quizzes /\ lesson'[run[r].at] = "seed" =>
           Script!Whole(bank[run[r].at])
  PROVE  Script!SeedInv'
<1> DEFINE c == run[r]
           n == IF c.at < Size THEN [c EXCEPT !.pc = "lesson", !.at = c.at + 1, !.q = 1]
                               ELSE [c EXCEPT !.pc = "seek"]
<1>1. /\ c \in Script!Run /\ Script!RunOK(r) /\ Script!Running(r)
      /\ c.who = "demo" /\ c.at \in Nat \ {0} /\ c.at <= Size
      /\ (c.loose \/ c.gone => c.disturbed)
      /\ "instructor" \in people /\ course = "owned"
      /\ ~abreast /\ ~c.disturbed => \A p \in 1..(c.at - 1) : Script!Synced(p)
  BY SeedFacts, RunType DEF Script!RunOK, Script!Running
<1>2. run' = [run EXCEPT ![r] = n]
  BY SeedFacts DEF Script!NextLesson, Script!Goto
<1>3. /\ n \in Script!Run /\ n.who = "demo"
      /\ n.loose = c.loose /\ n.gone = c.gone /\ n.disturbed = c.disturbed
      /\ \/ c.at < Size /\ n.pc = "lesson" /\ n.at = c.at + 1 /\ n.q = 1
         \/ c.at = Size /\ n.pc = "seek" /\ n.at = c.at
  <2>1. CASE c.at < Size
    <3>1. c.at + 1 \in Script!Positions /\ 1 \in 1..(Questions + 1)
      BY <1>1, <2>1 DEF Script!Positions
    <3>2. [c EXCEPT !.pc = "lesson", !.at = c.at + 1, !.q = 1] \in Script!Run
      BY <1>1, <3>1, SeedIdle DEF Script!Run
    <3> QED BY <1>1, <2>1, <3>2 DEF Script!Run
  <2>2. CASE ~(c.at < Size)
    <3>1. c.at = Size
      BY <1>1, <2>2
    <3>2. n = [c EXCEPT !.pc = "seek"]
      BY <2>2
    <3>3. [c EXCEPT !.pc = "seek"] \in Script!Run
      BY <1>1, SeedIdle DEF Script!Run
    <3> QED BY <1>1, <3>1, <3>2, <3>3 DEF Script!Run
  <2> QED BY <2>1, <2>2
<1> HIDE DEF n
<1>4. /\ run' \in [Calls -> Script!Run] /\ run'[r] = n
      /\ \A o \in Calls \ {r} : run'[o] = run[o]
  BY <1>2, <1>3, RunMoves
<1>5. Script!TypeOK'
  BY <1>4, SeedFacts DEF Script!TypeOK
<1>6. Script!NoQuestionTwice'
  BY SeedFacts DEF Script!NoQuestionTwice
<1>7. ASSUME ~abreast, ~c.disturbed, NEW p \in 1..c.at PROVE Script!Synced(p)'
  <2>1. CASE p = c.at
    BY <1>7, <2>1 DEF Script!Synced, Script!Whole
  <2>2. CASE p # c.at
    <3>1. p \in 1..(c.at - 1) /\ p \in Script!Positions
      BY <1>1, <2>2 DEF Script!Positions
    <3>2. Script!Synced(p)
      BY <1>1, <1>7, <3>1
    <3> QED BY <2>2, <3>1, <3>2 DEF Script!Synced, Script!Whole
  <2> QED BY <2>1, <2>2
<1>8. Script!RunOK(r)'
  <2>1. CASE n.pc = "lesson" /\ n.at = c.at + 1 /\ n.q = 1 /\ c.at < Size
    <3>1. n.at <= Size /\ 1..(n.at - 1) = 1..c.at
      BY <1>1, <2>1
    <3>2. ~abreast' /\ ~n.disturbed => \A p \in 1..(n.at - 1) : Script!Synced(p)'
      BY <1>3, <1>7, <3>1
    <3> QED BY <1>1, <1>3, <1>4, <2>1, <3>1, <3>2 DEF Script!RunOK, Script!Running, Script!Later
  <2>2. CASE n.pc = "seek" /\ n.at = c.at /\ c.at = Size
    <3>1. ~abreast' /\ ~n.disturbed => \A p \in 1..Size : Script!Synced(p)'
      BY <1>3, <1>7, <2>2
    <3> QED BY <1>1, <1>3, <1>4, <2>2, <3>1 DEF Script!RunOK, Script!Running, Script!Later
  <2> QED BY <1>3, <2>1, <2>2
<1>9. Script!Settled'
  <2> SUFFICES ASSUME ~abreast', deaths' = 0, NEW p \in Quizzes, lesson'[p] = "seed"
               PROVE  \/ Script!Whole(bank[p])'
                      \/ \E o \in Calls : run'[o].pc \in {"wipe", "question"} /\ run'[o].at = p
    BY DEF Script!Settled
  <2>1. CASE p = c.at
    BY <2>1 DEF Script!Whole
  <2>2. CASE p # c.at
    <3>1. p \in Script!Positions
      BY DEF Script!Positions
    <3>2. lesson[p] = "seed"
      BY <2>2, <3>1
    <3>3. \/ Script!Whole(bank[p])
          \/ \E o \in Calls : run[o].pc \in {"wipe", "question"} /\ run[o].at = p
      BY <3>2, SeedFacts DEF Script!Settled
    <3>4. CASE Script!Whole(bank[p])
      BY <3>4 DEF Script!Whole
    <3>5. CASE \E o \in Calls : run[o].pc \in {"wipe", "question"} /\ run[o].at = p
      BY <1>4, <2>2, <3>5
    <3> QED BY <3>3, <3>4, <3>5
  <2> QED BY <2>1, <2>2
<1> QED BY <1>1, <1>4, <1>5, <1>6, <1>8, <1>9, SeedCall

LEMMA SeedLessons ==
  ASSUME Script!SeedInv, NEW r \in Calls, Script!UpsertLesson(r)
  PROVE  Script!SeedInv'
<1> DEFINE c == run[r]
<1>1. /\ c \in Script!Run /\ Script!RunOK(r) /\ Script!Running(r) /\ c.pc = "lesson"
      /\ c.who = "demo" /\ c.at \in Nat \ {0} /\ c.at \in Script!Positions /\ c.at <= Size
      /\ c.q = 1 /\ (c.loose \/ c.gone => c.disturbed)
      /\ "instructor" \in people /\ course = "owned"
      /\ ~abreast /\ ~c.disturbed => \A p \in 1..(c.at - 1) : Script!Synced(p)
      /\ UNCHANGED <<people, course, chapter, bank, paper, abreast, runs, tweaks, deaths>>
  <2>1. c.pc = "lesson" /\ UNCHANGED <<people, course, chapter, bank, paper, abreast, runs, tweaks,
                                       deaths>>
    BY DEF Script!UpsertLesson, Script!At, Script!bounds
  <2> QED BY <2>1, SeedFacts, RunType DEF Script!RunOK, Script!Running
<1>2. CASE c.loose
  BY <1>1, <1>2, SeedFacts, SeedFails DEF Script!UpsertLesson
<1>3. CASE ~c.loose
  <2>1. lesson' = [lesson EXCEPT ![c.at] = "seed"]
    BY <1>3 DEF Script!UpsertLesson
  <2>2. /\ lesson' \in [Script!Positions -> {"none", "seed", "author"}]
        /\ lesson'[c.at] = "seed"
        /\ \A p \in Script!Positions : p # c.at => lesson'[p] = lesson[p]
    BY <1>1, <2>1, SeedFacts
  <2>3. CASE c.at \notin Quizzes
    <3>1. Script!NextLesson(r)
      BY <1>3, <2>3 DEF Script!UpsertLesson
    <3> QED BY <1>1, <2>2, <2>3, <3>1, SeedGoesOn
  <2>4. CASE c.at \in Quizzes
    <3> DEFINE n == [c EXCEPT !.pc = "wipe", !.gone = FALSE]
    <3>1. run' = [run EXCEPT ![r] = n]
      BY <1>3, <2>4, SeedFacts DEF Script!UpsertLesson
    <3>2. /\ n \in Script!Run /\ n.pc = "wipe" /\ n.who = "demo" /\ n.at = c.at /\ n.q = 1
          /\ n.loose = c.loose /\ ~n.gone /\ n.disturbed = c.disturbed
      BY <1>1, SeedIdle DEF Script!Run
    <3> HIDE DEF n
    <3>3. /\ run' \in [Calls -> Script!Run] /\ run'[r] = n
          /\ \A o \in Calls \ {r} : run'[o] = run[o]
      BY <3>1, <3>2, RunMoves
    <3>4. Script!TypeOK'
      BY <1>1, <2>2, <3>3, SeedFacts DEF Script!TypeOK
    <3>5. Script!NoQuestionTwice'
      BY <1>1, SeedFacts DEF Script!NoQuestionTwice
    <3>6. ASSUME ~abreast, ~c.disturbed, NEW p \in 1..(c.at - 1) PROVE Script!Synced(p)'
      <4>1. p \in Script!Positions /\ p # c.at
        BY <1>1 DEF Script!Positions
      <4> QED BY <1>1, <2>2, <3>6, <4>1 DEF Script!Synced, Script!Whole
    <3>7. Script!RunOK(r)'
      <4>1. ~abreast' /\ ~n.disturbed => \A p \in 1..(n.at - 1) : Script!Synced(p)'
        BY <1>1, <3>2, <3>6
      <4>2. lesson'[n.at] = "seed"
        BY <2>2, <3>2
      <4> QED BY <1>1, <3>2, <3>3, <4>1, <4>2 DEF Script!RunOK, Script!Running, Script!Later
    <3>8. Script!Settled'
      <4> SUFFICES ASSUME ~abreast', deaths' = 0, NEW p \in Quizzes, lesson'[p] = "seed"
                   PROVE  \/ Script!Whole(bank[p])'
                          \/ \E o \in Calls : /\ run'[o].pc \in {"wipe", "question"}
                                              /\ run'[o].at = p
        BY DEF Script!Settled
      <4>1. CASE p = c.at
        BY <3>2, <3>3, <4>1
      <4>2. CASE p # c.at
        <5>1. p \in Script!Positions
          BY DEF Script!Positions
        <5>2. \/ Script!Whole(bank[p])
              \/ \E o \in Calls : run[o].pc \in {"wipe", "question"} /\ run[o].at = p
          BY <1>1, <2>2, <4>2, <5>1, SeedFacts DEF Script!Settled
        <5>3. CASE Script!Whole(bank[p])
          BY <1>1, <5>3 DEF Script!Whole
        <5>4. CASE \E o \in Calls : run[o].pc \in {"wipe", "question"} /\ run[o].at = p
          BY <1>1, <3>3, <5>4
        <5> QED BY <5>2, <5>3, <5>4
      <4> QED BY <4>1, <4>2
    <3> QED BY <1>1, <3>3, <3>4, <3>5, <3>7, <3>8, SeedCall
  <2> QED BY <2>3, <2>4
<1> QED BY <1>2, <1>3

(* A run writes the questions of its lesson: row is what is there then.    *)
LEMMA SeedWrites ==
  ASSUME Script!SeedInv, NEW r \in Calls, run[r].pc \in {"wipe", "question"},
         UNCHANGED <<people, course, chapter, lesson, paper, abreast, runs, tweaks, deaths>>,
         NEW n \in Script!Run, run' = [run EXCEPT ![r] = n], n.pc = "question",
         n.who = run[r].who, n.at = run[r].at, n.loose = run[r].loose, n.gone = run[r].gone,
         n.disturbed = run[r].disturbed,
         NEW row \in [1..Questions -> Nat],
         IF n.gone THEN bank' = bank ELSE bank' = [bank EXCEPT ![run[r].at] = row],
         ~abreast => \A q \in 1..Questions : row[q] = IF q < n.q THEN 1 ELSE 0
  PROVE  Script!SeedInv'
<1> DEFINE c == run[r]
<1>1. /\ c \in Script!Run /\ Script!RunOK(r) /\ Script!Running(r)
      /\ c.who = "demo" /\ c.at \in Nat \ {0} /\ c.at \in Script!Positions /\ c.at <= Size
      /\ (c.loose \/ c.gone => c.disturbed) /\ c.gone \in BOOLEAN
      /\ "instructor" \in people /\ course = "owned"
      /\ ~abreast /\ ~c.disturbed => \A p \in 1..(c.at - 1) : Script!Synced(p)
      /\ ~abreast => (~c.disturbed => lesson[c.at] = "seed")
      /\ ~abreast => (c.gone => lesson[c.at] # "seed")
  BY SeedFacts, RunType DEF Script!RunOK, Script!Running
<1>2. /\ run' \in [Calls -> Script!Run] /\ run'[r] = n
      /\ \A o \in Calls \ {r} : run'[o] = run[o]
  BY RunMoves
<1>3. /\ bank' \in [Script!Positions -> [1..Questions -> Nat]]
      /\ \A p \in Script!Positions : p # c.at => bank'[p] = bank[p]
      /\ n.gone => bank' = bank
      /\ ~n.gone => bank'[c.at] = row
  BY <1>1, SeedFacts
<1>4. Script!TypeOK'
  BY <1>2, <1>3, SeedFacts DEF Script!TypeOK
<1>5. Script!NoQuestionTwice'
  <2> SUFFICES ASSUME ~abreast, NEW p \in Script!Positions, NEW q \in 1..Questions
               PROVE  bank'[p][q] <= 1
    BY DEF Script!NoQuestionTwice
  <2>1. bank[p][q] <= 1
    BY SeedFacts DEF Script!NoQuestionTwice
  <2>2. row[q] <= 1
    OBVIOUS
  <2> QED BY <1>3, <2>1, <2>2
<1>6. ASSUME ~abreast, ~c.disturbed, NEW p \in 1..(c.at - 1) PROVE Script!Synced(p)'
  <2>1. p \in Script!Positions /\ p # c.at
    BY <1>1 DEF Script!Positions
  <2> QED BY <1>1, <1>3, <1>6, <2>1 DEF Script!Synced, Script!Whole
<1>7. Script!RunOK(r)'
  <2>1. ~abreast' /\ ~n.disturbed => \A p \in 1..(n.at - 1) : Script!Synced(p)'
    BY <1>1, <1>6
  <2>2. ~abreast' /\ ~n.gone => \A q \in 1..Questions : bank'[n.at][q] = IF q < n.q THEN 1 ELSE 0
    BY <1>3
  <2> QED BY <1>1, <1>2, <2>1, <2>2 DEF Script!RunOK, Script!Running, Script!Later
<1>8. Script!Settled'
  <2> SUFFICES ASSUME ~abreast', deaths' = 0, NEW p \in Quizzes, lesson'[p] = "seed"
               PROVE  \/ Script!Whole(bank[p])'
                      \/ \E o \in Calls : run'[o].pc \in {"wipe", "question"} /\ run'[o].at = p
    BY DEF Script!Settled
  <2>1. CASE p = c.at
    BY <1>2, <2>1
  <2>2. CASE p # c.at
    <3>1. p \in Script!Positions
      BY DEF Script!Positions
    <3>2. \/ Script!Whole(bank[p])
          \/ \E o \in Calls : run[o].pc \in {"wipe", "question"} /\ run[o].at = p
      BY SeedFacts DEF Script!Settled
    <3>3. CASE Script!Whole(bank[p])
      BY <1>3, <2>2, <3>1, <3>3 DEF Script!Whole
    <3>4. CASE \E o \in Calls : run[o].pc \in {"wipe", "question"} /\ run[o].at = p
      BY <1>2, <2>2, <3>4
    <3> QED BY <3>2, <3>3, <3>4
  <2> QED BY <2>1, <2>2
<1> QED BY <1>1, <1>2, <1>4, <1>5, <1>7, <1>8, SeedCall

LEMMA SeedQuestions ==
  ASSUME Script!SeedInv, NEW r \in Calls,
         Script!DeleteQuestions(r) \/ Script!InsertQuestion(r) \/ Script!LastQuestion(r)
  PROVE  Script!SeedInv'
<1> DEFINE c == run[r]
<1>1. /\ c \in Script!Run /\ Script!RunOK(r) /\ Script!Running(r)
      /\ c.pc \in {"wipe", "question"} /\ c.q \in 1..(Questions + 1)
      /\ c.at \in Script!Positions /\ c.gone \in BOOLEAN
      /\ UNCHANGED <<people, course, chapter, lesson, paper, abreast, runs, tweaks, deaths>>
  <2>1. /\ c.pc \in {"wipe", "question"}
        /\ UNCHANGED <<people, course, chapter, lesson, paper, abreast, runs, tweaks, deaths>>
    BY DEF Script!DeleteQuestions, Script!InsertQuestion, Script!LastQuestion, Script!At,
           Script!rows, Script!bounds
  <2> QED BY <2>1, SeedFacts, RunType DEF Script!Running
<1>2. CASE Script!DeleteQuestions(r)
  <2> DEFINE n == [c EXCEPT !.pc = "question"]
  <2>1. /\ c.pc = "wipe" /\ run' = [run EXCEPT ![r] = n]
        /\ IF c.gone THEN bank' = bank ELSE bank' = [bank EXCEPT ![c.at] = Script!Empty]
    BY <1>1, <1>2, SeedFacts DEF Script!DeleteQuestions, Script!Goto, Script!At
  <2>2. /\ n \in Script!Run /\ n.pc = "question" /\ n.who = c.who /\ n.at = c.at /\ n.q = c.q
        /\ n.loose = c.loose /\ n.gone = c.gone /\ n.disturbed = c.disturbed
    BY <1>1, SeedIdle DEF Script!Run
  <2>3. c.q = 1
    BY <1>1, <2>1 DEF Script!RunOK
  <2>4. /\ Script!Empty \in [1..Questions -> Nat]
        /\ \A q \in 1..Questions : Script!Empty[q] = IF q < 1 THEN 1 ELSE 0
    BY DEF Script!Empty
  <2> HIDE DEF n
  <2>5. IF n.gone THEN bank' = bank ELSE bank' = [bank EXCEPT ![c.at] = Script!Empty]
    BY <2>1, <2>2
  <2>6. ~abreast => \A q \in 1..Questions : Script!Empty[q] = IF q < n.q THEN 1 ELSE 0
    BY <2>2, <2>3, <2>4
  <2> QED BY <1>1, <2>1, <2>2, <2>4, <2>5, <2>6, SeedWrites
<1>3. CASE Script!InsertQuestion(r) /\ ~c.gone
  <2> DEFINE n == [c EXCEPT !.q = c.q + 1]
             row == [bank[c.at] EXCEPT ![c.q] = bank[c.at][c.q] + 1]
  <2>1. /\ c.pc = "question" /\ c.q <= Questions /\ run' = [run EXCEPT ![r] = n]
        /\ bank' = [bank EXCEPT ![c.at] = row]
    BY <1>1, <1>3, SeedFacts DEF Script!InsertQuestion, Script!At
  <2>2. c.q \in 1..Questions /\ c.q + 1 \in 1..(Questions + 1)
    BY <1>1, <2>1
  <2>3. /\ n \in Script!Run /\ n.pc = "question" /\ n.who = c.who /\ n.at = c.at
        /\ n.q = c.q + 1
        /\ n.loose = c.loose /\ n.gone = c.gone /\ n.disturbed = c.disturbed
    BY <1>1, <2>1, <2>2 DEF Script!Run
  <2>4. bank[c.at] \in [1..Questions -> Nat]
    BY <1>1, SeedFacts
  <2>5. ~abreast => \A q \in 1..Questions : bank[c.at][q] = IF q < c.q THEN 1 ELSE 0
    BY <1>1, <1>3, <2>1 DEF Script!RunOK
  <2>6. /\ row \in [1..Questions -> Nat] /\ row[c.q] = bank[c.at][c.q] + 1
        /\ \A q \in 1..Questions : q # c.q => row[q] = bank[c.at][q]
    <3> DEFINE b == bank[c.at]
               k == c.q
               most == b[k] + 1
    <3>1. b \in [1..Questions -> Nat] /\ k \in 1..Questions
      BY <2>2, <2>4, Zenon
    <3> HIDE DEF b, k
    <3>2. most \in Nat
      BY <3>1
    <3> HIDE DEF most
    <3>3. [b EXCEPT ![k] = most] \in [1..Questions -> Nat]
      BY <3>1, <3>2
    <3>4. /\ [b EXCEPT ![k] = most][k] = most
          /\ \A q \in 1..Questions : q # k => [b EXCEPT ![k] = most][q] = b[q]
      BY <3>1
    <3>5. row = [b EXCEPT ![k] = most]
      BY Zenon DEF b, k, most
    <3> HIDE DEF row
    <3>6. row \in [1..Questions -> Nat] /\ row[k] = most /\ \A q \in 1..Questions : q # k => row[q] = b[q]
      BY <3>3, <3>4, <3>5
    <3> QED BY <3>6, Zenon DEF b, k, most
  <2> HIDE DEF n, row
  <2>7. ~abreast => \A q \in 1..Questions : row[q] = IF q < n.q THEN 1 ELSE 0
    <3> SUFFICES ASSUME ~abreast, NEW q \in 1..Questions
                 PROVE  row[q] = IF q < c.q + 1 THEN 1 ELSE 0
      BY <2>3
    <3>1. bank[c.at][q] = (IF q < c.q THEN 1 ELSE 0) /\ bank[c.at][c.q] = 0
      BY <2>2, <2>5
    <3>2. CASE q = c.q
      BY <2>2, <2>6, <3>1, <3>2
    <3>3. CASE q # c.q
      BY <2>2, <2>6, <3>1, <3>3
    <3> QED BY <3>2, <3>3
  <2>8. IF n.gone THEN bank' = bank ELSE bank' = [bank EXCEPT ![c.at] = row]
    BY <1>3, <2>1, <2>3
  <2> QED BY <1>1, <2>1, <2>3, <2>6, <2>7, <2>8, SeedWrites
<1>4. CASE Script!InsertQuestion(r) /\ c.gone
  <2>1. c.pc = "question" /\ Script!Fail(r) /\ bank' = bank
    BY <1>4 DEF Script!InsertQuestion, Script!At
  <2>2. /\ run' \in [Calls -> Script!Run] /\ run'[r] = Script!Idle
        /\ \A o \in Calls \ {r} : run'[o] = run[o]
    BY <2>1, SeedIdle, RunMoves DEF Script!Fail
  <2>3. ~abreast => lesson[c.at] # "seed"
    BY <1>1, <1>4 DEF Script!RunOK
  <2>4. Script!TypeOK'
    BY <1>1, <2>1, <2>2, SeedFacts DEF Script!TypeOK
  <2>5. Script!NoQuestionTwice'
    BY <1>1, <2>1, SeedFacts DEF Script!NoQuestionTwice
  <2>6. Script!RunOK(r)'
    BY <2>2, SeedIdle DEF Script!RunOK, Script!Running, Script!Later
  <2>7. Script!Settled'
    <3> SUFFICES ASSUME ~abreast', deaths' = 0, NEW p \in Quizzes, lesson'[p] = "seed"
                 PROVE  \/ Script!Whole(bank[p])'
                        \/ \E o \in Calls : /\ run'[o].pc \in {"wipe", "question"}
                                            /\ run'[o].at = p
      BY DEF Script!Settled
    <3>1. p # c.at
      BY <1>1, <2>3
    <3>2. \/ Script!Whole(bank[p])
          \/ \E o \in Calls : run[o].pc \in {"wipe", "question"} /\ run[o].at = p
      BY <1>1, SeedFacts DEF Script!Settled
    <3>3. CASE Script!Whole(bank[p])
      BY <2>1, <3>3 DEF Script!Whole
    <3>4. CASE \E o \in Calls : run[o].pc \in {"wipe", "question"} /\ run[o].at = p
      BY <2>2, <3>1, <3>4
    <3> QED BY <3>2, <3>3, <3>4
  <2> QED BY <1>1, <2>2, <2>4, <2>5, <2>6, <2>7, SeedCall
<1>5. CASE Script!LastQuestion(r)
  <2>1. c.pc = "question" /\ c.q > Questions /\ Script!NextLesson(r) /\ bank' = bank
    BY <1>5 DEF Script!LastQuestion, Script!At, Script!rows
  <2>2. ~abreast /\ ~c.gone => Script!Whole(bank[c.at])
    <3>1. ~abreast /\ ~c.gone =>
            \A q \in 1..Questions : bank[c.at][q] = IF q < c.q THEN 1 ELSE 0
      BY <1>1, <2>1 DEF Script!RunOK
    <3>2. \A q \in 1..Questions : q < c.q
      BY <1>1, <2>1
    <3> QED BY <3>1, <3>2 DEF Script!Whole
  <2>3. ~abreast => (~c.disturbed => lesson[c.at] = "seed") /\ (c.gone => lesson[c.at] # "seed")
    BY <1>1 DEF Script!RunOK
  <2>4. /\ ~abreast /\ ~c.disturbed => lesson'[c.at] = "seed"
        /\ ~abreast /\ c.at \in Quizzes /\ lesson'[c.at] = "seed" => Script!Whole(bank[c.at])
    BY <1>1, <2>2, <2>3
  <2> QED BY <1>1, <2>1, <2>4, SeedFacts, SeedGoesOn
<1> QED BY <1>1, <1>2, <1>3, <1>4, <1>5

-----------------------------------------------------------------------------
(* The seed script: meanwhile                                              *)

(* A run disturbed, after the rows it was at may have gone.                *)
Disturbed(c, loose, gone) == [c EXCEPT !.loose = loose, !.gone = gone, !.disturbed = TRUE]

(* An author's change disturbs the runs there are.                         *)
LEMMA SeedChanges ==
  ASSUME Script!SeedInv, NEW lost \in SUBSET Script!Positions, Script!Change(lost),
         lesson' \in [Script!Positions -> {"none", "seed", "author"}], chapter' \in BOOLEAN,
         \A p \in Script!Positions :
           lesson'[p] = "seed" => lesson[p] = "seed" /\ p \notin lost
  PROVE  Script!SeedInv'
<1>0. /\ tweaks < MaxTweaks /\ tweaks' = tweaks + 1
      /\ UNCHANGED <<people, course, paper, abreast, runs, deaths>>
  BY DEF Script!Change
<1>1. /\ bank' = [p \in Script!Positions |-> IF p \in lost THEN Script!Empty ELSE bank[p]]
      /\ run' = [r \in Calls |->
                   IF Script!Running(r)
                     THEN [run[r] EXCEPT !.loose = run[r].loose \/ lost = Script!Positions,
                                         !.gone = run[r].gone \/ run[r].at \in lost,
                                         !.disturbed = TRUE]
                     ELSE run[r]]
  BY DEF Script!Change
<1>2. Script!Empty \in [1..Questions -> Nat] /\ \A q \in 1..Questions : Script!Empty[q] = 0
  BY DEF Script!Empty
<1>3. /\ bank' \in [Script!Positions -> [1..Questions -> Nat]]
      /\ \A p \in Script!Positions : p \notin lost => bank'[p] = bank[p]
      /\ \A p \in lost : bank'[p] = Script!Empty
  BY <1>1, <1>2, SeedFacts
<1>4. ASSUME NEW r \in Calls
      PROVE  /\ run'[r] \in Script!Run /\ run'[r].pc = run[r].pc /\ run'[r].who = run[r].who
             /\ run'[r].at = run[r].at /\ run'[r].q = run[r].q
             /\ ~Script!Running(r) => run'[r] = run[r]
             /\ Script!Running(r) => /\ (run'[r].gone <=> run[r].gone \/ run[r].at \in lost)
                                     /\ run'[r].disturbed
  <2>1. run[r] \in Script!Run
    BY SeedFacts
  <2>2. CASE Script!Running(r)
    <3> DEFINE loose == run[r].loose \/ lost = Script!Positions
               gone == run[r].gone \/ run[r].at \in lost
    <3>1. loose \in BOOLEAN /\ gone \in BOOLEAN
      BY <2>1, RunType
    <3>2. run'[r] = Disturbed(run[r], loose, gone)
      BY <1>1, <2>2 DEF Disturbed
    <3>3. \E b, d \in BOOLEAN : (d <=> gone) /\ run'[r] = Disturbed(run[r], b, d)
      BY <3>1, <3>2, Zenon
    <3>4. PICK b \in BOOLEAN, d \in BOOLEAN : (d <=> gone) /\ run'[r] = Disturbed(run[r], b, d)
      BY <3>3, Zenon
    <3>5. /\ run'[r] \in Script!Run /\ run'[r].pc = run[r].pc /\ run'[r].who = run[r].who
          /\ run'[r].at = run[r].at /\ run'[r].q = run[r].q /\ run'[r].gone = d
          /\ run'[r].disturbed
      <4>1. run'[r] = Disturbed(run[r], b, d)
        BY <3>4
      <4> QED BY <2>1, <4>1 DEF Disturbed, Script!Run
    <3>6. /\ run'[r] \in Script!Run /\ run'[r].pc = run[r].pc /\ run'[r].who = run[r].who
          /\ run'[r].at = run[r].at /\ run'[r].q = run[r].q /\ (run'[r].gone <=> gone)
          /\ run'[r].disturbed
      BY <3>4, <3>5
    <3> QED BY <2>2, <3>6 DEF gone
  <2>3. CASE ~Script!Running(r)
    BY <1>1, <2>1, <2>3
  <2> QED BY <2>2, <2>3
<1>5. Script!TypeOK'
  <2>1. run' \in [Calls -> Script!Run]
    BY <1>1, <1>4
  <2>2. tweaks \in 0..MaxTweaks
    BY SeedFacts
  <2>3. tweaks' \in 0..MaxTweaks
    BY <1>0, <2>2, ServicesAssumption
  <2> QED BY <1>0, <1>3, <2>1, <2>3, SeedFacts DEF Script!TypeOK
<1>6. Script!NoQuestionTwice'
  <2> SUFFICES ASSUME ~abreast, NEW p \in Script!Positions, NEW q \in 1..Questions
               PROVE  bank'[p][q] <= 1
    BY <1>0 DEF Script!NoQuestionTwice
  <2>1. bank[p][q] <= 1
    BY SeedFacts DEF Script!NoQuestionTwice
  <2> QED BY <1>2, <1>3, <2>1
<1>7. ASSUME NEW r \in Calls PROVE Script!RunOK(r)'
  <2> DEFINE c == run[r]
  <2>1. /\ c \in Script!Run /\ c.at \in Script!Positions /\ Script!RunOK(r)
        /\ c.gone \in BOOLEAN
    BY SeedFacts, RunType
  <2>2. CASE Script!Running(r)
    <3>1. /\ run'[r].pc = c.pc /\ run'[r].who = c.who /\ run'[r].at = c.at /\ run'[r].q = c.q
          /\ run'[r].disturbed /\ (run'[r].gone <=> c.gone \/ c.at \in lost)
      BY <1>4, <2>2
    <3>2. ASSUME ~abreast, c.pc \in {"wipe", "question"}, run'[r].gone
          PROVE  lesson'[c.at] # "seed"
      <4>1. c.gone => lesson[c.at] # "seed"
        BY <2>1, <3>2 DEF Script!RunOK
      <4> QED BY <2>1, <3>1, <3>2, <4>1
    <3>3. ASSUME ~abreast, c.pc = "question", ~run'[r].gone, NEW q \in 1..Questions
          PROVE  bank'[c.at][q] = IF q < c.q THEN 1 ELSE 0
      <4>1. ~c.gone /\ bank'[c.at] = bank[c.at]
        BY <1>3, <2>1, <3>1, <3>3
      <4>2. bank[c.at][q] = IF q < c.q THEN 1 ELSE 0
        BY <2>1, <3>3, <4>1 DEF Script!RunOK
      <4> QED BY <4>1, <4>2
    <3>4. Script!Later(run[r])' <=> Script!Later(run[r])
      BY <3>1 DEF Script!Later
    <3>5. Script!Running(r)' <=> Script!Running(r)
      BY <3>1 DEF Script!Running
    <3> QED BY <1>0, <2>1, <2>2, <3>1, <3>2, <3>3, <3>4, <3>5 DEF Script!RunOK
  <2>3. CASE ~Script!Running(r)
    <3>1. run'[r] = run[r]
      BY <1>4, <2>3
    <3> QED BY <1>0, <2>3, <3>1, SeedFacts, RunKept
  <2> QED BY <2>2, <2>3
<1>8. Script!Alone'
  <2> SUFFICES ASSUME ~abreast, NEW r \in Calls, NEW o \in Calls,
                      Script!Running(r)', Script!Running(o)'
               PROVE  r = o
    BY <1>0 DEF Script!Alone
  <2>1. Script!Running(r) /\ Script!Running(o)
    BY <1>4 DEF Script!Running
  <2> QED BY <2>1, SeedFacts DEF Script!Alone
<1>9. Script!Settled'
  <2> SUFFICES ASSUME ~abreast, deaths = 0, NEW p \in Quizzes, lesson'[p] = "seed"
               PROVE  \/ Script!Whole(bank[p])'
                      \/ \E o \in Calls : run'[o].pc \in {"wipe", "question"} /\ run'[o].at = p
    BY <1>0 DEF Script!Settled
  <2>1. p \in Script!Positions
    BY DEF Script!Positions
  <2>2. \/ Script!Whole(bank[p])
        \/ \E o \in Calls : run[o].pc \in {"wipe", "question"} /\ run[o].at = p
    BY <2>1, SeedFacts DEF Script!Settled
  <2>3. CASE Script!Whole(bank[p])
    BY <1>3, <2>1, <2>3 DEF Script!Whole
  <2>4. CASE \E o \in Calls : run[o].pc \in {"wipe", "question"} /\ run[o].at = p
    BY <1>4, <2>4
  <2> QED BY <2>2, <2>3, <2>4
<1>10. Script!DoneIsSynced'
  <2>1. ((\A o \in Calls : Script!RunOK(o)) => Script!DoneIsSynced)'
    BY SeedPromise, PTL
  <2> QED BY <1>7, <2>1
<1>11. Script!SnapshotsAreWhole'
  BY <1>0, SeedFacts DEF Script!SnapshotsAreWhole, Script!Whole
<1> QED BY <1>5, <1>6, <1>7, <1>8, <1>9, <1>10, <1>11 DEF Script!SeedInv

LEMMA SeedAuthors ==
  ASSUME Script!SeedInv,
         \/ \E p \in Script!Positions : Script!UpdateLesson(p) \/ Script!DeleteLesson(p)
         \/ Script!AddLesson \/ Script!DeleteModule
  PROVE  Script!SeedInv'
<1>1. ASSUME NEW p \in Script!Positions, Script!Change({}), UNCHANGED chapter,
             lesson' = [lesson EXCEPT ![p] = "author"]
      PROVE  Script!SeedInv'
  <2>1. /\ lesson' \in [Script!Positions -> {"none", "seed", "author"}]
        /\ \A k \in Script!Positions : lesson'[k] = "seed" => lesson[k] = "seed"
    BY <1>1, SeedFacts
  <2> QED BY <1>1, <2>1, SeedFacts, SeedChanges
<1>2. ASSUME NEW p \in Script!Positions, Script!DeleteLesson(p) PROVE Script!SeedInv'
  <2>1. lesson' = [lesson EXCEPT ![p] = "none"] /\ Script!Change({p}) /\ UNCHANGED chapter
    BY <1>2 DEF Script!DeleteLesson
  <2>2. /\ lesson' \in [Script!Positions -> {"none", "seed", "author"}]
        /\ \A k \in Script!Positions : lesson'[k] = "seed" => lesson[k] = "seed" /\ k \notin {p}
    BY <2>1, SeedFacts
  <2> QED BY <2>1, <2>2, SeedFacts, SeedChanges
<1>3. ASSUME Script!DeleteModule PROVE Script!SeedInv'
  <2>1. /\ lesson' = [p \in Script!Positions |-> "none"] /\ Script!Change(Script!Positions)
        /\ chapter' = FALSE
    BY <1>3 DEF Script!DeleteModule
  <2>2. /\ lesson' \in [Script!Positions -> {"none", "seed", "author"}]
        /\ \A k \in Script!Positions : lesson'[k] # "seed"
    BY <2>1
  <2> QED BY <2>1, <2>2, SeedChanges
<1>4. ASSUME Script!AddLesson PROVE Script!SeedInv'
  BY <1>1, <1>4 DEF Script!AddLesson
<1>5. ASSUME NEW p \in Script!Positions, Script!UpdateLesson(p) PROVE Script!SeedInv'
  BY <1>1, <1>5 DEF Script!UpdateLesson
<1> QED BY <1>2, <1>3, <1>4, <1>5

(* Neither an attempt nor another component's step changes what is there.  *)
LEMMA SeedStays ==
  ASSUME Script!SeedInv,
         UNCHANGED <<people, course, chapter, lesson, bank, run, abreast, runs, tweaks, deaths>>,
         paper' \in [questions : [1..Questions -> Nat], quiet : BOOLEAN, none : BOOLEAN],
         Script!SnapshotsAreWhole'
  PROVE  Script!SeedInv'
<1>1. Script!TypeOK' /\ Script!NoQuestionTwice' /\ Script!Alone'
  BY SeedFacts DEF Script!TypeOK, Script!NoQuestionTwice, Script!Alone, Script!Running
<1>2. ASSUME NEW r \in Calls PROVE Script!RunOK(r)'
  <2>1. Script!RunOK(r)
    BY SeedFacts
  <2>2. Script!Running(r)' <=> Script!Running(r)
    BY DEF Script!Running
  <2>3. Script!Later(run[r])' <=> Script!Later(run[r])
    BY DEF Script!Later
  <2>4. \A p : Script!Synced(p)' <=> Script!Synced(p)
    BY DEF Script!Synced, Script!Whole
  <2> QED BY <2>1, <2>2, <2>3, <2>4 DEF Script!RunOK
<1>3. Script!DoneIsSynced'
  <2>1. ((\A o \in Calls : Script!RunOK(o)) => Script!DoneIsSynced)'
    BY SeedPromise, PTL
  <2> QED BY <1>2, <2>1
<1>4. Script!Settled'
  BY SeedFacts DEF Script!Settled, Script!Whole
<1> QED BY <1>1, <1>2, <1>3, <1>4 DEF Script!SeedInv

LEMMA SeedAttempt ==
  ASSUME Script!SeedInv, NEW p \in Script!Positions, Script!StartAttempt(p)
  PROVE  Script!SeedInv'
<1> DEFINE quiet == (\A r \in Calls : ~Script!Running(r)) /\ deaths = 0
<1>1. /\ p \in Quizzes /\ lesson[p] = "seed"
      /\ paper' = [questions |-> bank[p], quiet |-> quiet, none |-> FALSE]
      /\ UNCHANGED <<people, course, chapter, lesson, bank, run, abreast, runs, tweaks, deaths>>
  BY DEF Script!StartAttempt, Script!rows, Script!bounds
<1>2. bank[p] \in [1..Questions -> Nat] /\ quiet \in BOOLEAN
  BY SeedFacts
<1>3. ~abreast /\ quiet => Script!Whole(bank[p])
  BY <1>1, SeedFacts DEF Script!Settled, Script!Running
<1> HIDE DEF quiet
<1>4. paper' \in [questions : [1..Questions -> Nat], quiet : BOOLEAN, none : BOOLEAN]
  BY <1>1, <1>2
<1>5. Script!SnapshotsAreWhole'
  BY <1>1, <1>3 DEF Script!SnapshotsAreWhole, Script!Whole
<1> QED BY <1>1, <1>4, <1>5, SeedStays

LEMMA SeedStep ==
  ASSUME Script!SeedInv, Script!Next
  PROVE  Script!SeedInv'
<1>1. ASSUME NEW r \in Calls, Script!RunStep(r) PROVE Script!SeedInv'
  BY <1>1, SeedPeople, SeedCourse, SeedLessons, SeedQuestions DEF Script!RunStep
<1> QED BY <1>1, SeedStarts, SeedDies, SeedAuthors, SeedAttempt DEF Script!Next

LEMMA SeedFrame ==
  ASSUME Script!SeedInv, UNCHANGED seedVars
  PROVE  Script!SeedInv'
<1>1. UNCHANGED <<people, course, chapter, lesson, bank, run, paper, abreast, runs, tweaks,
                  deaths>>
  BY DEF seedVars
<1>2. Script!SnapshotsAreWhole'
  BY <1>1, SeedFacts DEF Script!SnapshotsAreWhole, Script!Whole
<1> QED BY <1>1, <1>2, SeedFacts, SeedStays

(* For any number of runs, lessons and questions: while runs do not        *)
(* overlap no question is there twice, however often runs died; a run that *)
(* ends undisturbed has repaired the course; attempts started at rest copy *)
(* every question once (seed/run.ts).                                      *)
THEOREM SeedRepairs == Spec => []SeedInv
<1>1. Init => Script!SeedInv
  BY SeedInit DEF Init
<1>2. Script!SeedInv /\ [Next]_vars => Script!SeedInv'
  BY SeedStep, SeedFrame DEF Next, Only, vars
<1>3. Spec => []Script!SeedInv
  BY <1>1, <1>2, PTL DEF Spec
<1> QED BY <1>3, PTL DEF SeedInv
=============================================================================
