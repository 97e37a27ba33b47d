-------------------------- MODULE ForwarderProofs --------------------------
(* The forwarder's invariants and the refinement of Coalesced, for any       *)
(* number of requests, calls and names, any capacity and any semaphore size. *)
EXTENDS ForwarderHandlerProofs

\* Steps of a request's handler preserve the invariant.
LEMMA HandlerStep ==
  ASSUME InductiveInvariant, NEW r \in Requests,
         Arrive(r) \/ ServeDNS(r) \/ WaitCancelled(r)
  PROVE  InductiveInvariant'
<1>0. /\ TypeOK /\ CallsPublished /\ HandlersWait /\ SlotsAccounted
      /\ AnswersItsQuestion /\ CacheAnswersItsKey /\ CacheConsistent
  BY DEF InductiveInvariant
<1>a. HandlersTyped /\ HandlerWaits(r) /\ Answered(r) /\ CacheOK
  BY <1>0 DEF TypeOK, HandlersTyped, HandlersWait, AnswersItsQuestion, Answered, CacheOK
<1>1. ASSUME NEW q \in Queries, ServeClosed(r, q)
      PROVE  InductiveInvariant'
  <2>. DEFINE msg == buildErrorResponse(q, "ServFail")
  <2>0. msg \in ReplyType /\ msg.q = Forwarded(q)
    BY ReplyFacts DEF Rcodes
  <2>1. /\ query' = [query EXCEPT ![r] = q] /\ reply' = [reply EXCEPT ![r] = msg]
        /\ pc' = [pc EXCEPT ![r] = "done"] /\ pc[r] = "idle"
        /\ UNCHANGED <<clock, now, mine, got, pending, callVars, lru, m, life>>
    BY <1>1 DEF ServeClosed, Write, Goto
  <2>. HIDE DEF msg
  <2>2. HandlersTyped' /\ OthersKept(r)
    BY <1>a, <2>0, <2>1 DEF HandlersTyped, OthersKept
  <2>3. HandlerWaits(r)' /\ Answered(r)'
    BY <1>a, <2>0, <2>1 DEF HandlersTyped, HandlerWaits, Answered
  <2>. QED BY <1>a, <2>1, <2>2, <2>3, CacheKept, HandlerMoves
<1>2. ASSUME NEW q \in Queries, ServeGated(r, q)
      PROVE  InductiveInvariant'
  <2>. DEFINE msg == IF Gate(q) = "drop" THEN None ELSE buildErrorResponse(q, Gate(q))
  <2>0. msg \in ReplyType \cup {None} /\ (msg # None => msg.q = Forwarded(q))
    <3>1. Gate(q) \in Rcodes \cup {"drop"}
      BY <1>2 DEF ServeGated, Gate, Rcodes
    <3>. QED BY <3>1, ReplyFacts
  <2>1. /\ query' = [query EXCEPT ![r] = q] /\ reply' = [reply EXCEPT ![r] = msg]
        /\ pc' = [pc EXCEPT ![r] = "done"] /\ pc[r] = "idle"
        /\ UNCHANGED <<clock, now, mine, got, pending, callVars, lru, m, life>>
    BY <1>2 DEF ServeGated, Write, Goto
  <2>. HIDE DEF msg
  <2>2. HandlersTyped' /\ OthersKept(r)
    BY <1>a, <2>0, <2>1 DEF HandlersTyped, OthersKept
  <2>3. HandlerWaits(r)' /\ Answered(r)'
    BY <1>a, <2>0, <2>1 DEF HandlersTyped, HandlerWaits, Answered
  <2>. QED BY <1>a, <2>1, <2>2, <2>3, CacheKept, HandlerMoves
<1>3. ASSUME NEW q \in Queries, ServeAdmitted(r, q)
      PROVE  InductiveInvariant'
  <2>0. clock \in 0 .. MaxClock
    BY <1>0 DEF TypeOK
  <2>1. /\ query' = [query EXCEPT ![r] = q] /\ now' = [now EXCEPT ![r] = clock]
        /\ pc' = [pc EXCEPT ![r] = "get"] /\ pc[r] = "idle"
        /\ UNCHANGED <<clock, mine, got, pending, reply, callVars, lru, m, life>>
    BY <1>3 DEF ServeAdmitted, Goto
  <2>2. HandlersTyped' /\ OthersKept(r)
    BY <1>a, <2>0, <2>1 DEF HandlersTyped, OthersKept
  <2>3. HandlerWaits(r)' /\ Answered(r)'
    BY <1>a, <2>1 DEF HandlersTyped, HandlerWaits, Answered
  <2>. QED BY <1>a, <2>1, <2>2, <2>3, CacheKept, HandlerMoves
<1>4. CASE CacheGet(r)
  <2>. DEFINE k == makeKey(query[r])
  <2>0. query[r] \in Queries /\ k \in Keys /\ k = Forwarded(query[r]) /\ now[r] \in Nat
    <3>1. pc[r] = "get"
      BY <1>4 DEF CacheGet
    <3>2. query[r] \in Queries
      BY <1>a, <3>1 DEF HandlerWaits
    <3>3. now[r] \in 0 .. MaxClock
      BY <1>a DEF HandlersTyped
    <3>. QED BY <3>2, <3>3, KeyFacts, ForwarderAssumption
  <2>1. CacheOK'
    <3>1. lru' = GetLru(lru, m, k, now[r]) /\ m' = GetMap(m, k, now[r])
      BY <1>4 DEF CacheGet
    <3>2. /\ lru \in Seq(Keys) /\ m \in [Keys -> EntryType \cup {None}]
          /\ Agrees(lru, m) /\ \A x \in Keys : m[x] # None => m[x].q = x
      BY <1>a DEF CacheOK, CacheConsistent, CacheAnswersItsKey
    <3>3. /\ lru' \in Seq(Keys) /\ m' \in [Keys -> EntryType \cup {None}]
          /\ Agrees(lru', m')
      BY <2>0, <3>1, <3>2, GetKeepsAgreement
    <3>4. \A x \in Keys : m'[x] # None => m'[x] = m[x]
      BY <2>0, <3>1, <3>2 DEF GetMap
    <3>. QED BY <3>2, <3>3, <3>4 DEF CacheOK, CacheConsistent, CacheAnswersItsKey
  <2>. DEFINE msg == buildFromCache(m[k], now[r])
  <2>2. ASSUME Fresh(m, k, now[r])
        PROVE  msg \in ReplyType /\ msg.q = Forwarded(query[r])
    <3>1. m[k] \in EntryType /\ m[k].q = k
      BY <1>a, <2>0, <2>2 DEF CacheOK, Fresh, Present, CacheAnswersItsKey
    <3>. QED BY <3>1, <2>0, ReplyFacts
  <2>3. \/ /\ reply' = [reply EXCEPT ![r] = msg] /\ pc' = [pc EXCEPT ![r] = "done"]
           /\ msg \in ReplyType /\ msg.q = Forwarded(query[r])
        \/ reply' = reply /\ pc' = [pc EXCEPT ![r] = "flight"]
    BY <1>4, <2>2 DEF CacheGet, Write, Goto
  <2>4. /\ UNCHANGED <<clock, query, now, mine, got, pending, callVars, life>>
        /\ pc[r] = "get"
    BY <1>4 DEF CacheGet
  <2>. HIDE DEF k, msg
  <2>5. HandlersTyped' /\ OthersKept(r)
    BY SMTT(30), <1>a, <2>3, <2>4 DEF HandlersTyped, OthersKept
  <2>6. HandlerWaits(r)' /\ Answered(r)'
    BY <1>a, <2>3, <2>4 DEF HandlersTyped, HandlerWaits, Answered
  <2>. QED BY <2>1, <2>4, <2>5, <2>6, HandlerMoves
<1>5. CASE FlightJoin(r)
  <2>. DEFINE c == inflight[Forwarded(query[r])]
  <2>0. /\ c \in Calls /\ st[c] # "free" /\ ckey[c] = Forwarded(query[r])
        /\ mine' = [mine EXCEPT ![r] = c] /\ query[r] \in Queries
    <3>1. /\ query[r] \in Queries /\ Forwarded(query[r]) \in Keys
          /\ singleflightKey(query[r]) = Forwarded(query[r])
      <4>1. pc[r] = "flight"
        BY <1>5 DEF FlightJoin
      <4>2. query[r] \in Queries
        BY <1>a, <4>1 DEF HandlerWaits
      <4>. QED BY <4>2, KeyFacts
    <3>2. c # None /\ mine' = [mine EXCEPT ![r] = c]
      BY <1>5, <3>1 DEF FlightJoin
    <3>3. c \in Calls
      BY <1>0, <3>1, <3>2 DEF TypeOK
    <3>4. st[c] \in {"exchange", "returned"} /\ ckey[c] = Forwarded(query[r])
      BY <1>0, <3>1, <3>2 DEF CallsPublished
    <3>. QED BY SMTT(30), <3>1, <3>2, <3>3, <3>4
  <2>1. /\ pc' = [pc EXCEPT ![r] = "wait"] /\ pc[r] = "flight"
        /\ UNCHANGED <<clock, query, now, got, pending, reply, callVars, lru, m, life>>
    BY <1>5 DEF FlightJoin, Goto
  <2>. HIDE DEF c
  <2>2. HandlersTyped' /\ OthersKept(r)
    BY SMTT(30), <1>a, <2>0, <2>1 DEF HandlersTyped, OthersKept
  <2>3. HandlerWaits(r)' /\ Answered(r)'
    <3>1. UNCHANGED <<st, ckey>>
      BY SMTT(30), <2>1 DEF callVars
    <3>2. c # None
      BY <2>0, ForwarderAssumption
    <3>. QED BY <1>a, <2>0, <2>1, <3>1, <3>2 DEF HandlersTyped, HandlerWaits, Answered
  <2>. QED BY <1>a, <2>1, <2>2, <2>3, CacheKept, HandlerMoves
<1>6. CASE FlightFull(r)
  <2>. DEFINE msg == buildErrorResponse(query[r], "ServFail")
  <2>0. query[r] \in Queries /\ msg \in ReplyType /\ msg.q = Forwarded(query[r])
    BY ZenonT(30), <1>a, <1>6, ReplyFacts DEF FlightFull, HandlerWaits, Rcodes
  <2>1. /\ reply' = [reply EXCEPT ![r] = msg]
        /\ pc' = [pc EXCEPT ![r] = "done"] /\ pc[r] = "flight"
        /\ UNCHANGED <<clock, query, now, mine, got, pending, callVars, lru, m, life>>
    BY <1>6 DEF FlightFull, Write, Goto
  <2>. HIDE DEF msg
  <2>2. HandlersTyped' /\ OthersKept(r)
    BY <1>a, <2>0, <2>1 DEF HandlersTyped, OthersKept
  <2>3. HandlerWaits(r)' /\ Answered(r)'
    BY <1>a, <2>0, <2>1 DEF HandlersTyped, HandlerWaits, Answered
  <2>. QED BY SMTT(30), <1>a, <2>1, <2>2, <2>3, CacheKept, HandlerMoves
<1>7. ASSUME NEW c \in Calls, FlightStart(r, c)
      PROVE  InductiveInvariant'
  <2>0. /\ query[r] \in Queries /\ Forwarded(query[r]) \in Keys
        /\ singleflightKey(query[r]) = Forwarded(query[r])
    <3>1. pc[r] = "flight"
      BY <1>7 DEF FlightStart
    <3>2. query[r] \in Queries
      BY <1>a, <3>1 DEF HandlerWaits
    <3>. QED BY <3>2, KeyFacts
  <2>6. st[c] = "free" /\ st' = [st EXCEPT ![c] = "exchange"] /\ c \notin Holders
    BY ZenonT(30), <1>7 DEF FlightStart, Holders
  <2>7. Holders' = Holders \cup {c} /\ Holders \in SUBSET Calls
    BY <1>0, <2>6 DEF TypeOK, Holders
  <2>8. SlotsAccounted'
    <3>1. Cardinality(Holders') = Cardinality(Holders) + 1 /\ Cardinality(Holders) \in Nat
      BY <2>6, <2>7, HoldersStep
    <3>. QED BY <1>0, <1>7, <3>1, ForwarderAssumption
         DEF TypeOK, FlightStart, Saturated, SlotsAccounted
  <2>1. TypeOK'
    BY SMTT(30), <1>0, <1>7, <2>0, ForwarderAssumption DEF FlightStart, Publish, Goto, TypeOK
  <2>2. CallsPublished' /\ SlotsAccounted'
    BY SMTT(30), <1>0, <1>7, <2>0, <2>8, ForwarderAssumption DEF FlightStart, Publish, TypeOK, CallsPublished
  <2>3. HandlersWait'
    BY SMTT(30), <1>0, <1>7, <2>0, ForwarderAssumption DEF FlightStart, Goto, TypeOK, HandlersWait, HandlerWaits
  <2>4. AnswersItsQuestion'
    BY SMTT(30), <1>0, <1>7, <2>0 DEF FlightStart, Goto, TypeOK, AnswersItsQuestion
  <2>5. CacheAnswersItsKey' /\ CacheConsistent'
    BY <1>0, <1>7 DEF FlightStart, CacheAnswersItsKey, CacheConsistent
  <2>. QED BY SMTT(30), <2>1, <2>2, <2>3, <2>4, <2>5 DEF InductiveInvariant
<1>8. CASE WaitFailed(r) \/ WaitCancelled(r)
  <2>. DEFINE msg == buildErrorResponse(query[r], "ServFail")
  <2>0. query[r] \in Queries /\ msg \in ReplyType /\ msg.q = Forwarded(query[r])
    BY <1>a, <1>8, ReplyFacts DEF WaitFailed, WaitCancelled, HandlerWaits, Rcodes
  <2>1. /\ reply' = [reply EXCEPT ![r] = msg]
        /\ pc' = [pc EXCEPT ![r] = "done"] /\ pc[r] = "wait"
        /\ got' = [got EXCEPT ![r] = None]
        /\ UNCHANGED <<clock, query, now, pending, callVars, lru, m, life>>
    BY <1>8 DEF WaitFailed, WaitCancelled, Write, Goto
  <2>2. mine' = [mine EXCEPT ![r] = None]
    <3>1. CASE WaitFailed(r)
      BY SMTT(30), <1>a, <3>1 DEF WaitFailed, HandlerWaits, HandlersTyped
    <3>2. CASE WaitCancelled(r)
      BY ZenonT(30), <3>2 DEF WaitCancelled
    <3>. QED BY SMTT(30), <1>8, <3>1, <3>2
  <2>. HIDE DEF msg
  <2>3. HandlersTyped' /\ OthersKept(r)
    BY SMTT(30), <1>a, <2>0, <2>1, <2>2 DEF HandlersTyped, OthersKept
  <2>4. HandlerWaits(r)' /\ Answered(r)'
    BY <1>a, <2>0, <2>1, <2>2 DEF HandlersTyped, HandlerWaits, Answered
  <2>. QED BY SMTT(30), <1>a, <2>1, <2>3, <2>4, CacheKept, HandlerMoves
<1>9. CASE WaitDone(r)
  <2>0. /\ query[r] \in Queries /\ mine[r] = None /\ got[r].resp \in Responses
        /\ got[r].q = Forwarded(query[r]) /\ got[r].q \in Keys /\ clock \in Nat
    <3>1. got[r] \in ResultType /\ got[r].resp # Failed /\ pc[r] = "wait" /\ got[r] # None
      BY <1>a, <1>9 DEF WaitDone, HandlersTyped
    <3>2. clock \in Nat
      BY SMTT(30), <1>0, ForwarderAssumption DEF TypeOK
    <3>. QED BY <1>a, <3>1, <3>2, KeyFacts DEF HandlerWaits, ResultType
  <2>. DEFINE e == makeEntry(got[r].resp, got[r].q, clock)
              msg == rebuildForClient(got[r].resp, got[r].q)
  <2>1. msg \in ReplyType /\ msg.q = Forwarded(query[r])
    BY ZenonT(30), <2>0, ReplyFacts
  <2>2. \/ /\ pending' = [pending EXCEPT ![r] = e] /\ pc' = [pc EXCEPT ![r] = "put"]
           /\ e \in EntryType /\ e.q = Forwarded(query[r])
        \/ pending' = pending /\ pc' = [pc EXCEPT ![r] = "done"]
    BY ZenonT(30), <1>9, <2>0, EntryFacts DEF WaitDone, Goto, Cacheable
  <2>3. /\ reply' = [reply EXCEPT ![r] = msg] /\ got' = [got EXCEPT ![r] = None]
        /\ UNCHANGED <<clock, query, now, mine, callVars, lru, m, life>>
    BY <1>9 DEF WaitDone
  <2>. HIDE DEF e, msg
  <2>4. HandlersTyped' /\ OthersKept(r)
    BY SMTT(30), <1>a, <2>1, <2>2, <2>3 DEF HandlersTyped, OthersKept
  <2>5. HandlerWaits(r)' /\ Answered(r)'
    <3>1. \/ pc'[r] = "put" /\ pending'[r] \in EntryType
             /\ pending'[r].q = Forwarded(query[r])
          \/ pc'[r] = "done"
      BY <1>a, <2>2 DEF HandlersTyped
    <3>2. /\ reply'[r] = msg /\ got'[r] = None /\ mine'[r] = None
          /\ query'[r] = query[r]
      BY <1>a, <2>0, <2>3 DEF HandlersTyped
    <3>. QED BY ZenonT(30), <2>0, <2>1, <3>1, <3>2, ForwarderAssumption DEF HandlerWaits, Answered
  <2>. QED BY SMTT(30), <1>a, <2>3, <2>4, <2>5, CacheKept, HandlerMoves
<1>10. CASE CachePut(r)
  <2>. DEFINE k == makeKey(query[r])
  <2>0. /\ query[r] \in Queries /\ k \in Keys /\ k = Forwarded(query[r])
        /\ pending[r] \in EntryType /\ pending[r].q = k
    <3>1. pc[r] = "put"
      BY <1>10 DEF CachePut
    <3>2. /\ query[r] \in Queries /\ pending[r] # None
          /\ pending[r].q = Forwarded(query[r])
      BY <1>a, <3>1 DEF HandlerWaits
    <3>3. pending[r] \in EntryType
      BY <1>a, <3>2 DEF HandlersTyped
    <3>. QED BY <3>2, <3>3, KeyFacts
  <2>1. CacheOK'
    <3>1. lru' = PutLru(lru, m, k) /\ m' = PutMap(lru, m, k, pending[r])
      BY ZenonT(30), <1>10 DEF CachePut
    <3>2. /\ lru \in Seq(Keys) /\ m \in [Keys -> EntryType \cup {None}]
          /\ Agrees(lru, m) /\ \A x \in Keys : m[x] # None => m[x].q = x
      BY <1>a DEF CacheOK, CacheConsistent, CacheAnswersItsKey
    <3>3. /\ lru' \in Seq(Keys) /\ m' \in [Keys -> EntryType \cup {None}]
          /\ Agrees(lru', m')
      BY SMTT(30), <2>0, <3>1, <3>2, PutKeepsAgreement
    <3>4. \A x \in Keys : m'[x] # None => m'[x] = m[x] \/ (x = k /\ m'[x] = pending[r])
      BY <2>0, <3>1, <3>2 DEF PutMap
    <3>. QED BY SMTT(30), <2>0, <3>2, <3>3, <3>4 DEF CacheOK, CacheConsistent, CacheAnswersItsKey
  <2>2. /\ pending' = [pending EXCEPT ![r] = None]
        /\ pc' = [pc EXCEPT ![r] = "done"] /\ pc[r] = "put"
        /\ UNCHANGED <<clock, query, now, mine, got, reply, callVars, life>>
    BY <1>10 DEF CachePut, Goto
  <2>3. HandlersTyped' /\ OthersKept(r)
    BY SMTT(30), <1>a, <2>2 DEF HandlersTyped, OthersKept
  <2>4. HandlerWaits(r)' /\ Answered(r)'
    BY <1>a, <2>2 DEF HandlersTyped, HandlerWaits, Answered
  <2>. QED BY SMTT(30), <2>1, <2>2, <2>3, <2>4, HandlerMoves
<1>11. CASE Return(r)
  <2>1. /\ query' = [query EXCEPT ![r] = None] /\ now' = [now EXCEPT ![r] = 0]
        /\ reply' = [reply EXCEPT ![r] = None]
        /\ pc' = [pc EXCEPT ![r] = "idle"] /\ pc[r] = "done"
        /\ UNCHANGED <<clock, mine, got, pending, callVars, lru, m, life>>
    BY <1>11 DEF Return, Goto
  <2>2. HandlersTyped' /\ OthersKept(r)
    BY SMTT(30), <1>a, <2>1, ForwarderAssumption DEF HandlersTyped, OthersKept
  <2>3. HandlerWaits(r)' /\ Answered(r)'
    BY <1>a, <2>1 DEF HandlersTyped, HandlerWaits, Answered
  <2>. QED BY <1>a, <2>1, <2>2, <2>3, CacheKept, HandlerMoves
<1>. QED BY SMTT(30), <1>1, <1>2, <1>3, <1>4, <1>5, <1>6, <1>7, <1>8, <1>9, <1>10, <1>11
     DEF Arrive, ServeDNS

\* The forwarder keeps its inductive invariant, whatever handlers, exchange
\* goroutines, shutdown and clock do, for any capacity, limit and TTL bounds.
THEOREM Invariance == Spec => []InductiveInvariant
<1>1. InductiveInvariant /\ [Next]_vars => InductiveInvariant'
  <2>. SUFFICES ASSUME InductiveInvariant, [Next]_vars PROVE InductiveInvariant'
    OBVIOUS
  <2>1. CASE UNCHANGED vars
    <3>1. UNCHANGED <<clock, reqVars, callVars, lru, m, life>>
      BY <2>1 DEF vars
    <3>2. TypeOK'
      BY <3>1 DEF reqVars, callVars, InductiveInvariant, TypeOK
    <3>3. CallsPublished' /\ SlotsAccounted'
      BY <3>1 DEF callVars, InductiveInvariant, CallsPublished, SlotsAccounted, Holders
    <3>4. HandlersWait'
      BY <3>1 DEF reqVars, callVars, InductiveInvariant, HandlersWait, HandlerWaits
    <3>5. AnswersItsQuestion' /\ CacheAnswersItsKey' /\ CacheConsistent'
      BY <3>1 DEF reqVars, InductiveInvariant, AnswersItsQuestion, CacheAnswersItsKey,
         CacheConsistent
    <3>. QED BY <3>2, <3>3, <3>4, <3>5 DEF InductiveInvariant
  <2>. QED BY <2>1, HandlerStep, CallStep, LifecycleStep DEF Next
<1>. QED BY <1>1, InitInvariant, PTL DEF Spec

\* Concurrent misses never put two exchanges for one question upstream.
THEOREM Coalescing == Spec => []OneExchangePerQuestion
<1>1. InductiveInvariant => OneExchangePerQuestion
  BY DEF InductiveInvariant, CallsPublished, OneExchangePerQuestion
<1>. QED BY <1>1, Invariance, PTL

\* No slot of the upstream semaphore leaks or is released twice, and the bound
\* on concurrent exchanges holds.
THEOREM SlotAccounting == Spec => []SlotsAccounted
<1>1. InductiveInvariant => SlotsAccounted
  BY DEF InductiveInvariant
<1>. QED BY <1>1, Invariance, PTL

\* Every answer, cached, fetched or shared, is to the question that was asked.
THEOREM AnswersMatch == Spec => []AnswersItsQuestion
<1>1. InductiveInvariant => AnswersItsQuestion
  BY DEF InductiveInvariant
<1>. QED BY <1>1, Invariance, PTL

\* List and map of the cache agree and respect the capacity.
THEOREM CacheAgreement == Spec => []CacheConsistent
<1>1. InductiveInvariant => CacheConsistent
  BY DEF InductiveInvariant
<1>. QED BY <1>1, Invariance, PTL
-----------------------------------------------------------------------------
(* The forwarder implements Coalesced. *)

\* There are no more exchanges under way than slots taken.
LEMMA BusyBound ==
  ASSUME InductiveInvariant
  PROVE  /\ Cardinality(Busy) \in Nat
         /\ Cardinality(Busy) <= Cardinality(Holders) /\ Cardinality(Holders) \in Nat
<1>1. Exchanging \subseteq Holders /\ IsFiniteSet(Holders)
  BY ForwarderAssumption, FS_Subset DEF Exchanging, Holders
<1>2. /\ IsFiniteSet(Exchanging)
      /\ Cardinality(Exchanging) \in Nat /\ Cardinality(Holders) \in Nat
      /\ Cardinality(Exchanging) <= Cardinality(Holders)
  BY <1>1, FS_Subset, FS_CardinalityType
<1>. DEFINE f == [c \in Exchanging |-> <<c, sent[c]>>]
<1>3. f \in Surjection(Exchanging, Busy)
  BY DEF Surjection, Busy
<1>4. IsFiniteSet(Busy) /\ Cardinality(Busy) <= Cardinality(Exchanging)
  BY <1>2, <1>3, FS_Surjection
<1>. QED BY <1>2, <1>4, FS_CardinalityType

\* A handler's step begins an exchange for an idle question, below the limit,
\* or leaves the exchanges under way alone.
LEMMA HandlerRefines ==
  ASSUME InductiveInvariant, NEW r \in Requests,
         Arrive(r) \/ ServeDNS(r) \/ WaitCancelled(r)
  PROVE  Busy' = Busy \/ \E c \in Calls, q \in Keys : Upstream!Begin(c, q)
<1>0. TypeOK /\ CallsPublished /\ HandlersWait /\ SlotsAccounted
  BY DEF InductiveInvariant
<1>1. ASSUME NEW c \in Calls, FlightStart(r, c)
      PROVE  \E q \in Keys : Upstream!Begin(c, q)
  <2>. DEFINE q == Forwarded(query[r])
  <2>1. /\ query[r] \in Queries /\ q \in Keys /\ singleflightKey(query[r]) = q
    BY <1>0, <1>1, KeyFacts DEF FlightStart, HandlersWait, HandlerWaits
  <2>2. /\ inflight[q] = None /\ st[c] = "free" /\ st' = [st EXCEPT ![c] = "exchange"]
        /\ sent' = [sent EXCEPT ![c] = q] /\ ~Saturated
    BY <1>1, <2>1 DEF FlightStart
  <2>. HIDE DEF q
  <2>3. \A d \in Exchanging : d # c /\ sent[d] # q
    BY SMTT(30), <1>0, <2>1, <2>2, ForwarderAssumption DEF CallsPublished, Exchanging
  <2>4. Busy' = Busy \cup {<<c, q>>}
    <3>1. Exchanging' = Exchanging \cup {c}
      BY <1>0, <2>2 DEF TypeOK, Exchanging
    <3>2. sent'[c] = q /\ \A d \in Exchanging : sent'[d] = sent[d]
      BY <1>0, <2>2, <2>3 DEF TypeOK, Exchanging
    <3>. QED BY <3>1, <3>2 DEF Busy
  <2>5. MaxInflight > 0 => Cardinality(Busy) < MaxInflight
    BY <1>0, <2>2, BusyBound, ForwarderAssumption DEF TypeOK, Saturated, SlotsAccounted
  <2>6. Upstream!Cardinality(Busy) = Cardinality(Busy)
    BY DEF Cardinality, Upstream!Cardinality, IsFiniteSet, Upstream!IsFiniteSet
  <2>7. Upstream!Begin(c, q)
    <3>1. \A x \in Busy : x[1] # c /\ x[2] # q
      BY <2>3 DEF Busy
    <3>. QED BY <2>4, <2>5, <2>6, <3>1 DEF Upstream!Begin
  <2>. QED BY <2>1, <2>7
<1>2. CASE ~\E c \in Calls : FlightStart(r, c)
  <2>1. UNCHANGED <<st, sent>>
    BY ZenonT(30), <1>2 DEF Arrive, ServeDNS, ServeClosed, ServeGated, ServeAdmitted, CacheGet,
       FlightJoin, FlightFull, WaitFailed, WaitDone, WaitCancelled, CachePut, Return, callVars
  <2>. QED BY SMTT(30), <2>1 DEF Busy, Exchanging
<1>. QED BY <1>1, <1>2

\* An exchange goroutine's step ends its exchange or leaves them all alone.
LEMMA CallRefines ==
  ASSUME InductiveInvariant, NEW c \in Calls, startExchange(c)
  PROVE  Busy' = Busy \/ \E q \in Keys : Upstream!End(c, q)
<1>0. TypeOK /\ CallsPublished
  BY DEF InductiveInvariant
<1>1. ASSUME NEW x \in Responses \cup {Failed}, ExchangeReturns(c, x)
      PROVE  \E q \in Keys : Upstream!End(c, q)
  <2>1. /\ st[c] = "exchange" /\ st' = [st EXCEPT ![c] = "returned"] /\ sent' = sent
        /\ sent[c] \in Keys
    BY <1>0, <1>1 DEF ExchangeReturns, CallsPublished
  <2>3. Exchanging' = Exchanging \ {c} /\ c \in Exchanging
    BY <1>0, <2>1 DEF TypeOK, Exchanging
  <2>4. <<c, sent[c]>> \in Busy /\ Busy' = Busy \ {<<c, sent[c]>>}
    BY SMTT(30), <2>1, <2>3 DEF Busy
  <2>. QED BY <2>1, <2>4 DEF Upstream!End
<1>2. CASE DeleteInflight(c) \/ CloseDone(c)
  <2>1. Exchanging' = Exchanging
    BY <1>0, <1>2 DEF TypeOK, DeleteInflight, CloseDone, Exchanging
  <2>2. \A d \in Exchanging : sent'[d] = sent[d]
    BY <1>0, <1>2 DEF TypeOK, DeleteInflight, CloseDone, Exchanging
  <2>. QED BY <2>1, <2>2 DEF Busy
<1>. QED BY <1>1, <1>2 DEF startExchange

\* Seen from its upstream, the forwarder implements the Coalesced specification.
THEOREM Refinement == Spec => CoalescesUpstream
<1>1. Init => Upstream!Init
  BY DEF Init, Upstream!Init, Busy, Exchanging
<1>2. InductiveInvariant /\ [Next]_vars => [Upstream!Next]_Busy
  <2>. SUFFICES ASSUME InductiveInvariant, [Next]_vars
                PROVE  Busy' = Busy \/ Upstream!Next
    OBVIOUS
  <2>1. CASE UNCHANGED vars
    BY <2>1 DEF vars, callVars, Busy, Exchanging
  <2>2. CASE Cancel \/ cleanup \/ Tick
    <3>1. UNCHANGED callVars
      BY <2>2 DEF Cancel, cleanup, StoreClosed, ClearCache, WaitGroup, CloseUpstream,
         Lifecycle, Tick
    <3>. QED BY <3>1 DEF callVars, Busy, Exchanging
  <2>. QED BY <2>1, <2>2, HandlerRefines, CallRefines DEF Next, Upstream!Next
<1>. QED BY <1>1, <1>2, Invariance, PTL DEF Spec, CoalescesUpstream, Upstream!Spec
=============================================================================
