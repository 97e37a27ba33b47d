------------------------------ MODULE Forwarder ------------------------------
(* The caching forwarder, forward/forward.go.  A request is one ServeDNS     *)
(* goroutine; a call is one inflightCall with the goroutine startExchange    *)
(* spawns for it.  Steps are the critical sections and channel operations of *)
(* the code.  Names stand for (name, type) pairs: the class is always IN     *)
(* once a query has passed the gates of ServeDNS.  filterBailiwick maps a    *)
(* response to a response, so Responses are the filtered ones.               *)
EXTENDS Integers, Sequences, FiniteSets

CONSTANTS
  Requests,     \* handler goroutines, each serves one query at a time
  Names,        \* (name, type) pairs asked for
  Queries,      \* the inbound messages the clients send
  Calls,        \* bound: inflightCall structures alive at once
  Responses,    \* what the upstream may answer, after filterBailiwick
  MaxInflight,  \* config.maxInflight; <= 0 leaves the semaphore nil
  AllowNoRD,    \* config.allowNoRD
  MinTTL, MaxTTL, MaxNegTTL,   \* config.minTTL, maxTTL, maxNegTTL
  CacheCap,     \* cache.cap; a capacity <= 0 is the nil cache
  MaxClock,     \* bound: last value of the clock
  Failed,       \* an error in place of a response
  None          \* what a key that is not in the map maps to, and nothing

ASSUME CacheCapAssumption == CacheCap \in Int
-----------------------------------------------------------------------------
(* The response cache, forward/cache.go: a map from cache key to element and *)
(* a recency list of the same keys, front first, both guarded by one mutex,  *)
(* so that each operation is one step.  The operators give the list and the  *)
(* map after the operation; a key without an entry maps to None.             *)

\* newCache: a capacity <= 0 yields a nil cache, whose methods do nothing.
CacheOn == CacheCap > 0

(* container/list, on lists without duplicates *)

PushFront(lru, k) == [j \in 1 .. Len(lru) + 1 |-> IF j = 1 THEN k ELSE lru[j - 1]]

Position(lru, k) == CHOOSE i \in 1 .. Len(lru) : lru[i] = k

Remove(lru, i) == [j \in 1 .. Len(lru) - 1 |-> IF j < i THEN lru[j] ELSE lru[j + 1]]

Back(lru) == lru[Len(lru)]

(* get, put, clear *)

Present(m, k) == CacheOn /\ m[k] # None

\* get finds the entry and its expiry has not been reached.
Fresh(m, k, now) == Present(m, k) /\ now < m[k].expiresAt

\* get: a fresh entry moves to the front, an expired one is removed.
GetLru(lru, m, k, now) ==
  LET rest == Remove(lru, Position(lru, k))
  IN  IF ~Present(m, k) THEN lru
      ELSE IF Fresh(m, k, now) THEN PushFront(rest, k) ELSE rest

GetMap(m, k, now) ==
  IF Present(m, k) /\ ~Fresh(m, k, now) THEN [m EXCEPT ![k] = None] ELSE m

\* put replaces the entry of a key it holds; a new key is pushed to the front
\* and, past the capacity, the back of the list is dropped.
Overflows_OneLate(lru, m, k) == ~Present(m, k) /\ Len(lru) > CacheCap
Overflows(lru, m, k) == ~Present(m, k) /\ Len(lru) + 1 > CacheCap

PutLru(lru, m, k) ==
  IF ~CacheOn THEN lru
  ELSE IF Present(m, k) THEN PushFront(Remove(lru, Position(lru, k)), k)
  ELSE IF Overflows(lru, m, k) THEN PushFront(Remove(lru, Len(lru)), k)
  ELSE PushFront(lru, k)

PutMap(lru, m, k, e) ==
  IF ~CacheOn THEN m
  ELSE IF Overflows(lru, m, k) THEN [m EXCEPT ![Back(lru)] = None, ![k] = e]
  ELSE [m EXCEPT ![k] = e]

ClearMap(m) == [k \in DOMAIN m |-> None]

\* The list and the map agree: every listed key has an entry, every key with an
\* entry is listed, none twice, and no more than the capacity.
Agrees(lru, m) ==
  /\ \A i \in 1 .. Len(lru) : m[lru[i]] # None
  /\ \A k \in DOMAIN m : m[k] # None => \E i \in 1 .. Len(lru) : lru[i] = k
  /\ \A i, j \in 1 .. Len(lru) : lru[i] = lru[j] => i = j
  /\ Len(lru) <= IF CacheOn THEN CacheCap ELSE 0
-----------------------------------------------------------------------------
Rcodes == {"NoError", "FormErr", "ServFail", "NXDomain", "NotImp", "Refused"}

Keys == [name : Names, do : BOOLEAN]

\* The parts of an inbound message the forwarder looks at; UPDATE stands for
\* NOTIFY too, STATUS for every opcode PreflightRequest lets through unchecked.
QueryType == [qr : BOOLEAN, opcode : {"QUERY", "UPDATE", "STATUS"},
              qdcount : 0 .. 2, in : BOOLEAN, rd : BOOLEAN,
              name : Names, do : BOOLEAN]

\* ttl: the lowest TTL of the answer and authority records; soa: what
\* negativeTTLFromSOA reads of the first SOA of the authority section.
ResponseType == [rcode : {"NoError", "NXDomain", "ServFail"}, answers : BOOLEAN,
                 ttl : Nat, soa : {<<>>} \cup (Nat \X Nat)]

EntryType == [rcode : Rcodes, ttl : Nat, soa : {<<>>} \cup (Nat \X Nat), q : Keys,
              insertedAt : Nat, expiresAt : Nat]

ReplyType == [rcode : Rcodes, q : Keys, ttl : Nat]

ResultType == [resp : Responses \cup {Failed}, q : Keys]

ASSUME ForwarderAssumption ==
  /\ IsFiniteSet(Calls) /\ Failed \notin Responses
  /\ None \notin Calls \cup Keys \cup Responses \cup {Failed}
  /\ None \notin ResultType /\ None \notin EntryType /\ None \notin ReplyType
  /\ Queries \subseteq QueryType /\ Responses \subseteq ResponseType
  /\ MaxInflight \in Int /\ AllowNoRD \in BOOLEAN
  /\ MinTTL \in Nat /\ MaxTTL \in Nat /\ MaxNegTTL \in Nat /\ MaxClock \in Nat

VARIABLES
  clock,     \* config.now()
  pc,        \* where each request stands in ServeDNS
  query,     \* the message a request serves
  now,       \* the clock a request read before its cache lookup
  mine,      \* the inflightCall a request waits on
  got,       \* what its call delivered when its done channel was closed
  pending,   \* the entry a request is about to put
  reply,     \* what a request has written, or will write, to its client
  st,        \* stage of each call's goroutine
  ckey,      \* the inflight key the call was published under
  sent,      \* the question and DO bit of the query sent upstream
  result,    \* call.resp or call.err
  inflight,  \* Forwarder.inflight
  sem,       \* len(inflightSem)
  lru, m,    \* the cache
  life       \* progress of the lifecycle goroutine through cleanup

reqVars  == <<pc, query, now, mine, got, pending, reply>>
callVars == <<st, ckey, sent, result, inflight, sem>>
vars     == <<clock, reqVars, callVars, lru, m, life>>

-----------------------------------------------------------------------------
(* Pure parts of the handler. *)

\* ServeDNS and PreflightRequest: the gates a query passes before the cache.
Gate(q) ==
  IF q.qr THEN "drop"
  ELSE IF q.opcode \in {"QUERY", "UPDATE"} /\ q.qdcount # 1 THEN "FormErr"
  ELSE IF q.opcode # "QUERY" \/ ~q.in THEN "NotImp"
  ELSE IF ~q.rd /\ ~AllowNoRD THEN "Refused" ELSE "ok"

\* buildForwardQuery: the question and the DO bit survive.
Forwarded(q) == [name |-> q.name, do |-> q.do]

singleflightKey_NoDO(q) == [name |-> q.name, do |-> FALSE]
singleflightKey(q) == [name |-> q.name, do |-> q.do]

makeKey(q) == [name |-> q.name, do |-> q.do]

Lower(a, b) == IF a < b THEN a ELSE b
Higher(a, b) == IF a > b THEN a ELSE b

clamp(v, lo, hi) ==
  LET w == Higher(v, lo) IN IF hi > 0 THEN Lower(w, hi) ELSE w

\* 0 stands for the (0, false) return.
negativeTTLFromSOA(soa) ==
  IF soa = <<>> THEN 0 ELSE Lower(Lower(soa[1], soa[2]), MaxNegTTL)

\* The lifetime makeEntry gives a response; -1: not cacheable.
Lifetime(resp) ==
  LET pos == clamp(resp.ttl, MinTTL, MaxTTL)
      neg == negativeTTLFromSOA(resp.soa)
  IN  CASE resp.rcode = "NoError" /\ resp.answers -> IF pos <= 0 THEN -1 ELSE pos
        [] resp.rcode = "NoError" /\ ~resp.answers -> IF neg <= 0 THEN -1 ELSE neg
        [] resp.rcode = "NXDomain" -> IF neg <= 0 THEN MaxNegTTL ELSE neg
        [] OTHER -> -1

\* makeEntry returns an entry, not nil.
Cacheable(resp) == Lifetime(resp) >= 0

\* makeEntry; q is the question the cached response answers.
makeEntry(resp, q, t) ==
  [rcode |-> resp.rcode, ttl |-> resp.ttl, soa |-> resp.soa, q |-> q,
   insertedAt |-> t, expiresAt |-> t + Lifetime(resp)]

adjustTTL(ttl, elapsed) == Higher(ttl - elapsed, 0)

buildFromCache(e, t) ==
  [rcode |-> e.rcode, q |-> e.q, ttl |-> adjustTTL(e.ttl, t - e.insertedAt)]

rebuildForClient(resp, q) ==
  [rcode |-> resp.rcode, q |-> q, ttl |-> resp.ttl]

buildErrorResponse(q, code) ==
  [rcode |-> code, q |-> Forwarded(q), ttl |-> 0]
-----------------------------------------------------------------------------
Init ==
  /\ clock = 0
  /\ pc = [r \in Requests |-> "idle"]
  /\ query = [r \in Requests |-> None]
  /\ now = [r \in Requests |-> 0]
  /\ mine = [r \in Requests |-> None]
  /\ got = [r \in Requests |-> None]
  /\ pending = [r \in Requests |-> None]
  /\ reply = [r \in Requests |-> None]
  /\ st = [c \in Calls |-> "free"]
  /\ ckey = [c \in Calls |-> None]
  /\ sent = [c \in Calls |-> None]
  /\ result = [c \in Calls |-> None]
  /\ inflight = [k \in Keys |-> None]
  /\ sem = 0
  /\ lru = <<>>
  /\ m = [k \in Keys |-> None]
  /\ life = "running"

Goto(r, label) == pc' = [pc EXCEPT ![r] = label]
Write(r, msg) == reply' = [reply EXCEPT ![r] = msg] /\ Goto(r, "done")

closed_Never == FALSE
closed == life \notin {"running", "cancelled"}

\* ServeDNS up to the cache lookup, for each way it can go.
ServeClosed(r, q) ==
  /\ pc[r] = "idle" /\ closed
  /\ query' = [query EXCEPT ![r] = q]
  /\ Write(r, buildErrorResponse(q, "ServFail"))
  /\ UNCHANGED <<clock, now, mine, got, pending, callVars, lru, m, life>>

ServeGated(r, q) ==
  /\ pc[r] = "idle" /\ ~closed /\ Gate(q) # "ok"
  /\ query' = [query EXCEPT ![r] = q]
  /\ Write(r, IF Gate(q) = "drop" THEN None ELSE buildErrorResponse(q, Gate(q)))
  /\ UNCHANGED <<clock, now, mine, got, pending, callVars, lru, m, life>>

ServeAdmitted(r, q) ==
  /\ pc[r] = "idle" /\ ~closed /\ Gate(q) = "ok"
  /\ query' = [query EXCEPT ![r] = q]
  /\ now' = [now EXCEPT ![r] = clock]
  /\ Goto(r, "get")
  /\ UNCHANGED <<clock, mine, got, pending, reply, callVars, lru, m, life>>

\* cache.get with the time read before it.
CacheGet(r) ==
  LET k == makeKey(query[r]) IN
  /\ pc[r] = "get"
  /\ lru' = GetLru(lru, m, k, now[r])
  /\ m' = GetMap(m, k, now[r])
  /\ \/ Fresh(m, k, now[r]) /\ Write(r, buildFromCache(m[k], now[r]))
     \/ ~Fresh(m, k, now[r]) /\ Goto(r, "flight") /\ UNCHANGED reply
  /\ UNCHANGED <<clock, query, now, mine, got, pending, callVars, life>>

\* exchangeSingleflight, the part under inflightMu.
FlightJoin(r) ==
  LET c == inflight[singleflightKey(query[r])] IN
  /\ pc[r] = "flight" /\ c # None
  /\ mine' = [mine EXCEPT ![r] = c]
  /\ Goto(r, "wait")
  /\ UNCHANGED <<clock, query, now, got, pending, reply, callVars, lru, m, life>>

Saturated == MaxInflight > 0 /\ sem >= MaxInflight

FlightFull(r) ==
  /\ pc[r] = "flight" /\ inflight[singleflightKey(query[r])] = None /\ Saturated
  /\ Write(r, buildErrorResponse(query[r], "ServFail"))
  /\ UNCHANGED <<clock, query, now, mine, got, pending, callVars, lru, m, life>>

\* f.inflight[key] = call
Publish_Dropped(k, c) == UNCHANGED inflight
Publish(k, c) == inflight' = [inflight EXCEPT ![k] = c]

FlightStart(r, c) ==
  LET k == singleflightKey(query[r]) IN
  /\ pc[r] = "flight" /\ inflight[k] = None /\ ~Saturated /\ st[c] = "free"
  /\ sem' = IF MaxInflight > 0 THEN sem + 1 ELSE sem
  /\ Publish(k, c)
  /\ st' = [st EXCEPT ![c] = "exchange"]
  /\ ckey' = [ckey EXCEPT ![c] = k]
  /\ sent' = [sent EXCEPT ![c] = Forwarded(query[r])]
  /\ mine' = [mine EXCEPT ![r] = c]
  /\ Goto(r, "wait")
  /\ UNCHANGED <<clock, query, now, got, pending, reply, result, lru, m, life>>

\* exchangeSingleflight, the select; ServeDNS to the cache.put.  Between a
\* closed done channel and a cancelled context the choice is the scheduler's.
WaitFailed(r) ==
  /\ pc[r] = "wait" /\ got[r] # None /\ got[r].resp = Failed
  /\ got' = [got EXCEPT ![r] = None]
  /\ Write(r, buildErrorResponse(query[r], "ServFail"))
  /\ UNCHANGED <<clock, query, now, mine, pending, callVars, lru, m, life>>

WaitDone(r) ==
  LET resp == got[r].resp IN
  /\ pc[r] = "wait" /\ got[r] # None /\ resp # Failed
  /\ got' = [got EXCEPT ![r] = None]
  /\ reply' = [reply EXCEPT ![r] = rebuildForClient(resp, got[r].q)]
  /\ \/ /\ Cacheable(resp)
        /\ pending' = [pending EXCEPT ![r] = makeEntry(resp, got[r].q, clock)]
        /\ Goto(r, "put")
     \/ /\ ~Cacheable(resp)
        /\ Goto(r, "done") /\ UNCHANGED pending
  /\ UNCHANGED <<clock, query, now, mine, callVars, lru, m, life>>

WaitCancelled_Unpublishes(r) ==
  /\ pc[r] = "wait"
  /\ mine' = [mine EXCEPT ![r] = None]
  /\ got' = [got EXCEPT ![r] = None]
  /\ inflight' = [inflight EXCEPT ![singleflightKey(query[r])] = None]
  /\ Write(r, buildErrorResponse(query[r], "ServFail"))
  /\ UNCHANGED <<clock, query, now, pending, st, ckey, sent, result, sem, lru, m, life>>

WaitCancelled(r) ==
  /\ pc[r] = "wait"
  /\ mine' = [mine EXCEPT ![r] = None]
  /\ got' = [got EXCEPT ![r] = None]
  /\ Write(r, buildErrorResponse(query[r], "ServFail"))
  /\ UNCHANGED <<clock, query, now, pending, callVars, lru, m, life>>

CachePut(r) ==
  LET k == makeKey(query[r]) IN
  /\ pc[r] = "put"
  /\ lru' = PutLru(lru, m, k)
  /\ m' = PutMap(lru, m, k, pending[r])
  /\ pending' = [pending EXCEPT ![r] = None]
  /\ Goto(r, "done")
  /\ UNCHANGED <<clock, query, now, mine, got, reply, callVars, life>>

\* ServeDNS returns; the goroutine may serve another query.
Return(r) ==
  /\ pc[r] = "done"
  /\ query' = [query EXCEPT ![r] = None]
  /\ now' = [now EXCEPT ![r] = 0]
  /\ reply' = [reply EXCEPT ![r] = None]
  /\ Goto(r, "idle")
  /\ UNCHANGED <<clock, mine, got, pending, callVars, lru, m, life>>
-----------------------------------------------------------------------------
(* The goroutine of startExchange: Exchange, then its deferred function. *)

ExchangeReturns(c, x) ==
  /\ st[c] = "exchange"
  /\ st' = [st EXCEPT ![c] = "returned"]
  /\ result' = [result EXCEPT ![c] = x]
  /\ UNCHANGED <<clock, reqVars, ckey, sent, inflight, sem, lru, m, life>>

DeleteInflight(c) ==
  /\ st[c] = "returned"
  /\ st' = [st EXCEPT ![c] = "deleted"]
  /\ inflight' = [inflight EXCEPT ![ckey[c]] = None]
  /\ UNCHANGED <<clock, reqVars, ckey, sent, result, sem, lru, m, life>>

\* <-f.inflightSem
Release_Leaked == UNCHANGED sem
Release == sem' = IF MaxInflight > 0 THEN sem - 1 ELSE sem

\* The handlers that the closing of call.done wakes.
Woken_OnSuccess(c) == {r \in Requests : mine[r] = c /\ result[c] # Failed}
Woken(c) == {r \in Requests : mine[r] = c}

\* The slot is released, then call.done is closed and wg.Go marks the
\* goroutine done; no other goroutine can tell these three apart in time,
\* since a waiter may notice the closed channel arbitrarily late.
CloseDone(c) ==
  /\ st[c] = "deleted"
  /\ Release
  /\ got' = [r \in Requests |->
              IF r \in Woken(c) THEN [resp |-> result[c], q |-> sent[c]] ELSE got[r]]
  /\ mine' = [r \in Requests |-> IF r \in Woken(c) THEN None ELSE mine[r]]
  /\ st' = [st EXCEPT ![c] = "free"]
  /\ ckey' = [ckey EXCEPT ![c] = None]
  /\ sent' = [sent EXCEPT ![c] = None]
  /\ result' = [result EXCEPT ![c] = None]
  /\ UNCHANGED <<clock, pc, query, now, pending, reply, inflight, lru, m, life>>
-----------------------------------------------------------------------------
(* The lifecycle goroutine: cleanup, one step per statement. *)

Lifecycle(from, to) ==
  /\ life = from /\ life' = to
  /\ UNCHANGED <<clock, reqVars, callVars>>

Cancel == Lifecycle("running", "cancelled") /\ UNCHANGED <<lru, m>>
StoreClosed == Lifecycle("cancelled", "closed") /\ UNCHANGED <<lru, m>>
ClearCache == Lifecycle("closed", "cleared") /\ lru' = <<>> /\ m' = ClearMap(m)
WaitGroup ==
  /\ \A c \in Calls : st[c] = "free"
  /\ Lifecycle("cleared", "drained") /\ UNCHANGED <<lru, m>>
CloseUpstream == Lifecycle("drained", "finished") /\ UNCHANGED <<lru, m>>

cleanup == StoreClosed \/ ClearCache \/ WaitGroup \/ CloseUpstream

Tick ==
  /\ clock < MaxClock
  /\ clock' = clock + 1
  /\ UNCHANGED <<reqVars, callVars, lru, m, life>>
-----------------------------------------------------------------------------
ServeDNS(r) ==
  \/ CacheGet(r) \/ FlightJoin(r) \/ FlightFull(r)
  \/ \E c \in Calls : FlightStart(r, c)
  \/ WaitFailed(r) \/ WaitDone(r) \/ CachePut(r) \/ Return(r)

Arrive(r) ==
  \E q \in Queries : ServeClosed(r, q) \/ ServeGated(r, q) \/ ServeAdmitted(r, q)

startExchange(c) ==
  \/ \E x \in Responses \cup {Failed} : ExchangeReturns(c, x)
  \/ DeleteInflight(c) \/ CloseDone(c)

Next ==
  \/ \E r \in Requests : Arrive(r) \/ ServeDNS(r) \/ WaitCancelled(r)
  \/ \E c \in Calls : startExchange(c)
  \/ Cancel \/ cleanup \/ Tick

Spec == Init /\ [][Next]_vars

\* A started handler, exchange goroutine and cleanup keep running; an exchange
\* returns because queryTimeout bounds its context.  Clients, the cancellation
\* of the lifecycle context and the clock owe nothing.
Fairness ==
  /\ \A r \in Requests : WF_vars(ServeDNS(r))
  /\ \A c \in Calls : WF_vars(startExchange(c))
  /\ WF_vars(cleanup)

FairSpec == Spec /\ Fairness
-----------------------------------------------------------------------------
(* Properties. *)

TypeOK ==
  /\ clock \in 0 .. MaxClock
  /\ pc \in [Requests -> {"idle", "get", "flight", "wait", "put", "done"}]
  /\ query \in [Requests -> Queries \cup {None}]
  /\ now \in [Requests -> 0 .. MaxClock]
  /\ mine \in [Requests -> Calls \cup {None}]
  /\ got \in [Requests -> ResultType \cup {None}]
  /\ pending \in [Requests -> EntryType \cup {None}]
  /\ reply \in [Requests -> ReplyType \cup {None}]
  /\ st \in [Calls -> {"free", "exchange", "returned", "deleted"}]
  /\ ckey \in [Calls -> Keys \cup {None}]
  /\ sent \in [Calls -> Keys \cup {None}]
  /\ result \in [Calls -> Responses \cup {Failed, None}]
  /\ inflight \in [Keys -> Calls \cup {None}]
  /\ sem \in Int
  /\ lru \in Seq(Keys)
  /\ m \in [Keys -> EntryType \cup {None}]
  /\ life \in {"running", "cancelled", "closed", "cleared", "drained", "finished"}

\* Concurrent misses do not multiply upstream traffic: never two exchanges
\* under way for the same question and DO bit, whatever joins, cancellations
\* and completions interleave (inflight, forward.go:43-47).
OneExchangePerQuestion ==
  \A c, d \in Calls :
    st[c] = "exchange" /\ st[d] = "exchange" /\ sent[c] = sent[d] => c = d

\* Calls whose goroutine has taken a slot of inflightSem and not released it.
Holders == {c \in Calls : st[c] # "free"}

\* The semaphore counts exactly the goroutines between the acquisition in
\* exchangeSingleflight and the release in startExchange's deferred function,
\* and never more than maxInflight of them: no slot leaks or is released twice.
SlotsAccounted ==
  MaxInflight > 0 => sem = Cardinality(Holders) /\ sem <= MaxInflight

\* The answer a client gets, from the cache, its own call or a call it joined,
\* was fetched for its question with its DO bit (singleflightKey and cacheKey
\* both split by DO, forward.go:386-391, cache.go:30-34).
AnswersItsQuestion ==
  \A r \in Requests :
    pc[r] \in {"put", "done"} /\ reply[r] # None => reply[r].q = Forwarded(query[r])

\* The recency list and the map of the cache name the same keys, each once,
\* and at most capacity many, through gets, puts, evictions and clear.
CacheConsistent == Agrees(lru, m)

\* As its upstream sees it the forwarder is a Coalesced query path: an exchange
\* begins only for a question that has none and below the limit.
Exchanging == {c \in Calls : st[c] = "exchange"}
Busy == {<<c, sent[c]>> : c \in Exchanging}

Upstream == INSTANCE Coalesced
  WITH Questions <- Keys, Limit <- MaxInflight, busy <- Busy

CoalescesUpstream == Upstream!Spec

\* What is cached under a key is a response to that very question.
CacheAnswersItsKey ==
  \A k \in Keys : m[k] # None => m[k].q = k

\* The inflight map lists exactly the calls whose goroutine has not reached the
\* deletion in startExchange's deferred function, each under the question and
\* DO bit it sent upstream; a goroutine past Exchange has recorded its outcome.
CallsPublished ==
  /\ \A k \in Keys : inflight[k] # None =>
       /\ st[inflight[k]] \in {"exchange", "returned"}
       /\ ckey[inflight[k]] = k
  /\ \A c \in Calls : st[c] # "free" =>
       /\ ckey[c] \in Keys /\ sent[c] = ckey[c]
       /\ st[c] # "deleted" => inflight[ckey[c]] = c
       /\ st[c] # "exchange" => result[c] # None

\* A handler past the gates serves a query; one that waits has a live call for
\* its own question, or the outcome of one; what it will put answers its query.
HandlerWaits(r) ==
  /\ pc[r] # "idle" => query[r] \in Queries
  /\ mine[r] # None =>
       /\ pc[r] = "wait" /\ got[r] = None
       /\ st[mine[r]] # "free" /\ ckey[mine[r]] = Forwarded(query[r])
  /\ got[r] # None => pc[r] = "wait" /\ got[r].q = Forwarded(query[r])
  /\ pc[r] = "wait" => mine[r] # None \/ got[r] # None
  /\ pc[r] = "put" => pending[r] # None /\ pending[r].q = Forwarded(query[r])
  /\ pc[r] \in {"idle", "get", "flight", "wait"} => reply[r] = None

HandlersWait == \A r \in Requests : HandlerWaits(r)

\* The inductive invariant behind the safety properties.
InductiveInvariant ==
  /\ TypeOK /\ CallsPublished /\ HandlersWait /\ SlotsAccounted
  /\ AnswersItsQuestion /\ CacheAnswersItsKey /\ CacheConsistent

\* Every query admitted or refused is answered (or deliberately dropped) and
\* its handler returns, even when the request that started the exchange is
\* cancelled or the forwarder shuts down (exchangeSingleflight's contract that
\* followers are not orphaned, forward.go:303-311).
EveryQueryReturns ==
  \A r \in Requests : pc[r] # "idle" ~> pc[r] = "idle"

\* Cancelling the lifecycle context completes cleanup: the wait for in-flight
\* exchanges ends although queries keep arriving, because a closed forwarder
\* admits none (cleanup, forward.go:187-201).
ShutdownCompletes == life = "cancelled" ~> life = "finished"
=============================================================================
