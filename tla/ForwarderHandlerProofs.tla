----------------------- MODULE ForwarderHandlerProofs -----------------------
(* Facts about the list and the map of the forwarder's cache, for any set of *)
(* keys, any entries and any capacity, and what the handler's helpers return. *)
EXTENDS Forwarder, FiniteSetTheorems, SequenceTheorems, TLAPS

\* Pushing a key to the front of a list yields a list one longer.
LEMMA PushFrontSeq ==
  ASSUME NEW S, NEW l \in Seq(S), NEW k \in S
  PROVE  /\ PushFront(l, k) \in Seq(S)
         /\ Len(PushFront(l, k)) = Len(l) + 1
         /\ PushFront(l, k)[1] = k
         /\ \A j \in 1 .. Len(l) : PushFront(l, k)[j + 1] = l[j]
<1>. DEFINE n == Len(l)
<1>1. n \in Nat /\ \A j \in 1 .. n : l[j] \in S
  BY LenProperties, ElementOfSeq
<1>2. PushFront(l, k) \in [1 .. n + 1 -> S]
  BY <1>1 DEF PushFront
<1>3. PushFront(l, k) \in Seq(S)
  BY <1>1, <1>2, IsASeq
<1>4. Len(PushFront(l, k)) = n + 1
  BY <1>1, <1>2, <1>3, LenProperties
<1>. QED
  BY <1>1, <1>3, <1>4 DEF PushFront

\* Removing a position from a list yields a list one shorter that keeps the
\* other elements in order.
LEMMA RemoveSeq ==
  ASSUME NEW S, NEW l \in Seq(S), NEW i \in 1 .. Len(l)
  PROVE  /\ Remove(l, i) \in Seq(S)
         /\ Len(Remove(l, i)) = Len(l) - 1
         /\ \A j \in 1 .. Len(l) - 1 :
              Remove(l, i)[j] = IF j < i THEN l[j] ELSE l[j + 1]
<1>. DEFINE n == Len(l) - 1
<1>1. n \in Nat /\ \A j \in 1 .. n + 1 : l[j] \in S
  BY LenProperties, ElementOfSeq
<1>2. Remove(l, i) \in [1 .. n -> S]
  BY <1>1 DEF Remove
<1>3. Remove(l, i) \in Seq(S)
  BY <1>1, <1>2, IsASeq
<1>4. Len(Remove(l, i)) = n
  BY <1>1, <1>2, <1>3, LenProperties
<1>. QED
  BY <1>1, <1>3, <1>4 DEF Remove

\* A key with an entry has a position in an agreeing list.
LEMMA PositionFound ==
  ASSUME NEW l \in Seq(Keys), NEW e \in [Keys -> EntryType \cup {None}],
         Agrees(l, e), NEW k \in Keys, e[k] # None
  PROVE  Position(l, k) \in 1 .. Len(l) /\ l[Position(l, k)] = k
BY DEF Agrees, Position

\* Taking the position of a key out of an agreeing list leaves exactly the
\* other keys, each once.
LEMMA RemoveAgrees ==
  ASSUME NEW l \in Seq(Keys), NEW e \in [Keys -> EntryType \cup {None}],
         Agrees(l, e), NEW i \in 1 .. Len(l)
  PROVE  /\ \A j \in 1 .. Len(l) - 1 : Remove(l, i)[j] # l[i] /\ e[Remove(l, i)[j]] # None
         /\ \A k \in Keys : e[k] # None /\ k # l[i] =>
              \E j \in 1 .. Len(l) - 1 : Remove(l, i)[j] = k
         /\ \A j, h \in 1 .. Len(l) - 1 : Remove(l, i)[j] = Remove(l, i)[h] => j = h
<1>. DEFINE n == Len(l)
            s == Remove(l, i)
<1>1. n \in Nat
  BY LenProperties
<1>2. \A j \in 1 .. n - 1 : s[j] = IF j < i THEN l[j] ELSE l[j + 1]
  BY ZenonT(30), RemoveSeq
<1>3. \A j, h \in 1 .. n : l[j] = l[h] => j = h
  BY DEF Agrees
<1>. HIDE DEF s
<1>4. \A j \in 1 .. n - 1 : s[j] # l[i] /\ e[s[j]] # None
  BY <1>1, <1>2, <1>3 DEF Agrees
<1>5. ASSUME NEW k \in Keys, e[k] # None, k # l[i]
      PROVE  \E j \in 1 .. n - 1 : s[j] = k
  <2>1. PICK h \in 1 .. n : l[h] = k
    BY <1>5 DEF Agrees
  <2>2. CASE h < i
    BY <2>1, <2>2, <1>1, <1>2
  <2>3. CASE h > i
    <3>1. h - 1 \in 1 .. n - 1 /\ s[h - 1] = k
      BY <2>1, <2>3, <1>1, <1>2
    <3>. QED BY <3>1
  <2>. QED BY <2>1, <2>2, <2>3, <1>1, <1>5
<1>6. \A j, h \in 1 .. n - 1 : s[j] = s[h] => j = h
  BY <1>1, <1>2, <1>3
<1>. QED BY <1>4, <1>5, <1>6 DEF s

\* s lists, each once, the keys other than k that f gives an entry.
ListsOthers(s, f, k) ==
  /\ \A j \in 1 .. Len(s) : s[j] # k /\ f[s[j]] # None
  /\ \A x \in Keys : f[x] # None /\ x # k => \E j \in 1 .. Len(s) : s[j] = x
  /\ \A j, h \in 1 .. Len(s) : s[j] = s[h] => j = h

\* Pushing a key that is not listed, onto a list of all the other keys with an
\* entry, gives an agreeing list.
LEMMA PushAgrees ==
  ASSUME NEW s \in Seq(Keys), NEW f \in [Keys -> EntryType \cup {None}],
         NEW k \in Keys, f[k] # None, CacheOn, Len(s) + 1 <= CacheCap,
         ListsOthers(s, f, k)
  PROVE  PushFront(s, k) \in Seq(Keys) /\ Agrees(PushFront(s, k), f)
<1>. DEFINE p == PushFront(s, k)
<1>1. /\ p \in Seq(Keys) /\ Len(p) = Len(s) + 1 /\ Len(s) \in Nat
      /\ p[1] = k /\ \A j \in 1 .. Len(s) : p[j + 1] = s[j]
  BY PushFrontSeq, LenProperties
<1>. HIDE DEF p
<1>0. /\ \A j \in 1 .. Len(s) : s[j] # k /\ f[s[j]] # None
      /\ \A x \in Keys : f[x] # None /\ x # k => \E j \in 1 .. Len(s) : s[j] = x
      /\ \A j, h \in 1 .. Len(s) : s[j] = s[h] => j = h
  BY DEF ListsOthers
<1>2. \A j \in 1 .. Len(p) : j = 1 \/ (j - 1 \in 1 .. Len(s) /\ p[j] = s[j - 1])
  <2>. TAKE j \in 1 .. Len(p)
  <2>1. j # 1 => j - 1 \in 1 .. Len(s) /\ (j - 1) + 1 = j
    BY <1>1
  <2>. QED BY <2>1, <1>1
<1>3. \A j \in 1 .. Len(p) : f[p[j]] # None
  <2>. TAKE j \in 1 .. Len(p)
  <2>1. CASE j = 1
    BY <2>1, <1>1
  <2>2. CASE j - 1 \in 1 .. Len(s) /\ p[j] = s[j - 1]
    BY <2>2, <1>0
  <2>. QED BY <2>1, <2>2, <1>2
<1>4. ASSUME NEW x \in Keys, f[x] # None
      PROVE  \E j \in 1 .. Len(p) : p[j] = x
  <2>1. CASE x = k
    BY <2>1, <1>1
  <2>2. CASE x # k
    <3>1. PICK j \in 1 .. Len(s) : s[j] = x
      BY <1>4, <2>2, <1>0
    <3>2. j + 1 \in 1 .. Len(p) /\ p[j + 1] = x
      BY <3>1, <1>1
    <3>. QED BY <3>2
  <2>. QED BY <2>1, <2>2
<1>5. \A j, h \in 1 .. Len(p) : p[j] = p[h] => j = h
  <2>. SUFFICES ASSUME NEW j \in 1 .. Len(p), NEW h \in 1 .. Len(p), p[j] = p[h]
                PROVE  j = h
    OBVIOUS
  <2>1. CASE j = 1 /\ h = 1
    BY <2>1
  <2>2. CASE j = 1 /\ h # 1
    BY <2>2, <1>0, <1>1, <1>2
  <2>3. CASE j # 1 /\ h = 1
    BY <2>3, <1>0, <1>1, <1>2
  <2>4. CASE j # 1 /\ h # 1
    <3>1. s[j - 1] = s[h - 1] /\ j - 1 \in 1 .. Len(s) /\ h - 1 \in 1 .. Len(s)
      BY <2>4, <1>2
    <3>2. j - 1 = h - 1
      BY <3>1, <1>0
    <3>. QED BY <3>2, <1>1
  <2>. QED BY <2>1, <2>2, <2>3, <2>4
<1>. QED BY <1>1, <1>3, <1>4, <1>5 DEF Agrees, p

\* Removing a listed key from an agreeing list leaves the others.
LEMMA RemoveListsOthers ==
  ASSUME NEW l \in Seq(Keys), NEW e \in [Keys -> EntryType \cup {None}],
         Agrees(l, e), NEW i \in 1 .. Len(l)
  PROVE  /\ Remove(l, i) \in Seq(Keys)
         /\ Len(Remove(l, i)) = Len(l) - 1 /\ Len(l) \in Nat
         /\ ListsOthers(Remove(l, i), e, l[i])
<1>1. /\ Remove(l, i) \in Seq(Keys)
      /\ Len(Remove(l, i)) = Len(l) - 1 /\ Len(l) \in Nat
  BY RemoveSeq, LenProperties
<1>. QED BY <1>1, RemoveAgrees DEF ListsOthers

\* cache.get keeps the list and the map in agreement, whatever it finds.
LEMMA GetKeepsAgreement ==
  ASSUME NEW l \in Seq(Keys), NEW e \in [Keys -> EntryType \cup {None}],
         Agrees(l, e), NEW k \in Keys, NEW t
  PROVE  /\ GetLru(l, e, k, t) \in Seq(Keys)
         /\ GetMap(e, k, t) \in [Keys -> EntryType \cup {None}]
         /\ Agrees(GetLru(l, e, k, t), GetMap(e, k, t))
<1>. DEFINE i == Position(l, k)
            s == Remove(l, i)
            f == [e EXCEPT ![k] = None]
<1>1. CASE ~Present(e, k)
  BY <1>1 DEF GetLru, GetMap
<1>2. CASE Present(e, k)
  <2>1. e[k] # None /\ CacheOn /\ Len(l) <= CacheCap
    BY <1>2 DEF Present, Agrees
  <2>2. i \in 1 .. Len(l) /\ l[i] = k
    BY <2>1, PositionFound
  <2>3. /\ s \in Seq(Keys) /\ Len(s) = Len(l) - 1 /\ Len(l) \in Nat
        /\ ListsOthers(s, e, k)
        /\ \A j \in 1 .. Len(s) : s[j] \in Keys
    BY <2>2, RemoveListsOthers, ElementOfSeq
  <2>4. Len(s) + 1 <= CacheCap
    BY <2>1, <2>3
  <2>. HIDE DEF i, s
  <2>5. CASE Fresh(e, k, t)
    <3>1. GetLru(l, e, k, t) = PushFront(s, k) /\ GetMap(e, k, t) = e
      BY <1>2, <2>5 DEF GetLru, GetMap, s, i
    <3>. QED BY <3>1, <2>1, <2>3, <2>4, PushAgrees
  <2>6. CASE ~Fresh(e, k, t)
    <3>1. GetLru(l, e, k, t) = s /\ GetMap(e, k, t) = f
      BY <1>2, <2>6 DEF GetLru, GetMap, s, i
    <3>2. f \in [Keys -> EntryType \cup {None}] /\ \A x \in Keys :
            f[x] = IF x = k THEN None ELSE e[x]
      OBVIOUS
    <3>. HIDE DEF f
    <3>3. \A j \in 1 .. Len(s) : f[s[j]] # None
      BY <3>2, <2>3 DEF ListsOthers
    <3>4. \A x \in DOMAIN f : f[x] # None => \E j \in 1 .. Len(s) : s[j] = x
      BY <3>2, <2>3 DEF ListsOthers
    <3>5. Len(s) <= IF CacheOn THEN CacheCap ELSE 0
      BY <2>1, <2>3, <2>4, CacheCapAssumption
    <3>6. Agrees(s, f)
      BY <3>3, <3>4, <3>5, <2>3 DEF Agrees, ListsOthers
    <3>. QED BY <3>1, <3>2, <3>6, <2>3
  <2>. QED BY <2>5, <2>6
<1>. QED BY <1>1, <1>2

\* cache.put keeps the list and the map in agreement: the key it replaces, or
\* the key it evicts, leaves both, and the capacity is never exceeded.
LEMMA PutKeepsAgreement ==
  ASSUME NEW l \in Seq(Keys), NEW e \in [Keys -> EntryType \cup {None}],
         Agrees(l, e), NEW k \in Keys, NEW v \in EntryType
  PROVE  /\ PutLru(l, e, k) \in Seq(Keys)
         /\ PutMap(l, e, k, v) \in [Keys -> EntryType \cup {None}]
         /\ Agrees(PutLru(l, e, k), PutMap(l, e, k, v))
<1>. DEFINE f == [e EXCEPT ![k] = v]
<1>0. v # None
  BY ForwarderAssumption
<1>1. CASE ~CacheOn
  BY <1>1 DEF PutLru, PutMap
<1>2. CASE CacheOn /\ Present(e, k)
  <2>. DEFINE i == Position(l, k)
              s == Remove(l, i)
  <2>1. e[k] # None /\ Len(l) <= CacheCap
    BY <1>2 DEF Present, Agrees
  <2>2. i \in 1 .. Len(l) /\ l[i] = k
    BY <2>1, PositionFound
  <2>3. /\ s \in Seq(Keys) /\ Len(s) = Len(l) - 1 /\ Len(l) \in Nat
        /\ ListsOthers(s, e, k)
        /\ \A j \in 1 .. Len(s) : s[j] \in Keys
    BY <2>2, RemoveListsOthers, ElementOfSeq
  <2>4. PutLru(l, e, k) = PushFront(s, k) /\ PutMap(l, e, k, v) = f
    BY <1>2 DEF PutLru, PutMap, Overflows
  <2>5. f \in [Keys -> EntryType \cup {None}] /\ \A x \in Keys :
          f[x] = IF x = k THEN v ELSE e[x]
    OBVIOUS
  <2>. HIDE DEF i, s, f
  <2>6. Len(s) + 1 <= CacheCap
    BY <2>1, <2>3
  <2>7. f[k] # None /\ ListsOthers(s, f, k)
    BY <1>0, <2>3, <2>5 DEF ListsOthers
  <2>. QED BY <1>2, <2>3, <2>4, <2>5, <2>6, <2>7, PushAgrees
<1>3. CASE CacheOn /\ ~Present(e, k) /\ Len(l) + 1 > CacheCap
  <2>. DEFINE i == Len(l)
              s == Remove(l, i)
              b == Back(l)
              g == [e EXCEPT ![b] = None, ![k] = v]
  <2>1. e[k] = None /\ Len(l) = CacheCap /\ i \in 1 .. Len(l) /\ l[i] = b
    <3>1. Len(l) \in Nat
      BY LenProperties
    <3>. QED BY <3>1, <1>3, CacheCapAssumption DEF Present, Agrees, Back, CacheOn
  <2>2. b \in Keys
    BY <2>1, ElementOfSeq
  <2>3. /\ s \in Seq(Keys) /\ Len(s) = Len(l) - 1 /\ Len(l) \in Nat
        /\ ListsOthers(s, e, b)
        /\ \A j \in 1 .. Len(s) : s[j] \in Keys
    BY <2>1, RemoveListsOthers, ElementOfSeq
  <2>4. PutLru(l, e, k) = PushFront(s, k) /\ PutMap(l, e, k, v) = g
    BY <1>3 DEF PutLru, PutMap, Overflows
  <2>5. g \in [Keys -> EntryType \cup {None}] /\ \A x \in Keys :
          g[x] = IF x = k THEN v ELSE IF x = b THEN None ELSE e[x]
    BY <2>2
  <2>. HIDE DEF i, s, g, b
  <2>6. Len(s) + 1 <= CacheCap
    BY <2>1, <2>3
  <2>7. g[k] # None /\ ListsOthers(s, g, k)
    BY <1>0, <2>1, <2>3, <2>5 DEF ListsOthers
  <2>. QED BY <1>3, <2>3, <2>4, <2>5, <2>6, <2>7, PushAgrees
<1>4. CASE CacheOn /\ ~Present(e, k) /\ ~(Len(l) + 1 > CacheCap)
  <2>1. e[k] = None /\ Len(l) + 1 <= CacheCap
    <3>1. Len(l) \in Nat
      BY LenProperties
    <3>. QED BY <3>1, <1>4, CacheCapAssumption DEF Present
  <2>2. PutLru(l, e, k) = PushFront(l, k) /\ PutMap(l, e, k, v) = f
    BY <1>4 DEF PutLru, PutMap, Overflows
  <2>3. f \in [Keys -> EntryType \cup {None}] /\ \A x \in Keys :
          f[x] = IF x = k THEN v ELSE e[x]
    OBVIOUS
  <2>4. \A j \in 1 .. Len(l) : l[j] \in Keys
    BY ElementOfSeq
  <2>. HIDE DEF f
  <2>5. f[k] # None /\ ListsOthers(l, f, k)
    BY <1>0, <2>1, <2>3, <2>4 DEF Agrees, ListsOthers
  <2>. QED BY <1>4, <2>1, <2>2, <2>3, <2>5, PushAgrees
<1>. QED BY <1>1, <1>2, <1>3, <1>4
-----------------------------------------------------------------------------
(* What the pure parts of the handler return. *)

\* The two keys and the forwarded query keep the question and the DO bit.
LEMMA KeyFacts ==
  ASSUME NEW q \in Queries
  PROVE  /\ Forwarded(q) \in Keys
         /\ makeKey(q) = Forwarded(q) /\ singleflightKey(q) = Forwarded(q)
  BY ForwarderAssumption DEF Forwarded, makeKey, singleflightKey, QueryType, Keys

\* A lifetime is an integer.
LEMMA LifetimeType ==
  ASSUME NEW resp \in Responses
  PROVE  Lifetime(resp) \in Int
<1>1. /\ resp.ttl \in Nat
      /\ resp.soa \in {<<>>} \cup (Nat \X Nat)
  BY ForwarderAssumption DEF ResponseType
<1>2. clamp(resp.ttl, MinTTL, MaxTTL) \in Int
  BY <1>1, ForwarderAssumption DEF clamp, Higher, Lower
<1>3. negativeTTLFromSOA(resp.soa) \in Int
  BY <1>1, ForwarderAssumption DEF negativeTTLFromSOA, Lower
<1>. HIDE DEF clamp, negativeTTLFromSOA
<1>. QED BY <1>2, <1>3, ForwarderAssumption DEF Lifetime

\* The entry made of a cacheable response.
LEMMA EntryFacts ==
  ASSUME NEW resp \in Responses, NEW k \in Keys, NEW t \in Nat, Lifetime(resp) >= 0
  PROVE  makeEntry(resp, k, t) \in EntryType /\ makeEntry(resp, k, t).q = k
<1>1. /\ resp.ttl \in Nat /\ resp.rcode \in Rcodes
      /\ resp.soa \in {<<>>} \cup (Nat \X Nat)
  BY ForwarderAssumption DEF ResponseType, Rcodes
<1>2. t + Lifetime(resp) \in Nat
  BY LifetimeType
<1>. QED BY <1>1, <1>2 DEF makeEntry, EntryType

\* The replies ServeDNS builds.
LEMMA ReplyFacts ==
  /\ \A q \in Queries, code \in Rcodes :
       /\ buildErrorResponse(q, code) \in ReplyType
       /\ buildErrorResponse(q, code).q = Forwarded(q)
  /\ \A resp \in Responses, k \in Keys :
       /\ rebuildForClient(resp, k) \in ReplyType
       /\ rebuildForClient(resp, k).q = k
  /\ \A e \in EntryType, t \in Nat :
       /\ buildFromCache(e, t) \in ReplyType
       /\ buildFromCache(e, t).q = e.q
<1>1. ASSUME NEW q \in Queries, NEW code \in Rcodes
      PROVE  /\ buildErrorResponse(q, code) \in ReplyType
             /\ buildErrorResponse(q, code).q = Forwarded(q)
  BY KeyFacts DEF buildErrorResponse, ReplyType
<1>2. ASSUME NEW resp \in Responses, NEW k \in Keys
      PROVE  /\ rebuildForClient(resp, k) \in ReplyType
             /\ rebuildForClient(resp, k).q = k
  <2>1. resp.rcode \in Rcodes /\ resp.ttl \in Nat
    BY ForwarderAssumption DEF ResponseType, Rcodes
  <2>. QED BY <2>1 DEF rebuildForClient, ReplyType
<1>3. ASSUME NEW e \in EntryType, NEW t \in Nat
      PROVE  /\ buildFromCache(e, t) \in ReplyType
             /\ buildFromCache(e, t).q = e.q
  <2>1. /\ e.rcode \in Rcodes /\ e.ttl \in Nat /\ e.q \in Keys /\ e.insertedAt \in Nat
    BY DEF EntryType
  <2>2. adjustTTL(e.ttl, t - e.insertedAt) \in Nat
    BY <2>1 DEF adjustTTL, Higher
  <2>. QED BY <2>1, <2>2 DEF buildFromCache, ReplyType
<1>. QED BY <1>1, <1>2, <1>3

\* Holders grows and shrinks by one call at a time.
LEMMA HoldersStep ==
  ASSUME NEW S \in SUBSET Calls, NEW c \in Calls
  PROVE  /\ Cardinality(S) \in Nat
         /\ c \notin S => Cardinality(S \cup {c}) = Cardinality(S) + 1
         /\ c \in S => Cardinality(S \ {c}) = Cardinality(S) - 1
<1>1. IsFiniteSet(S)
  BY ForwarderAssumption, FS_Subset
<1>. QED BY <1>1, FS_CardinalityType, FS_AddElement, FS_RemoveElement

\* What the invariant says of the handlers' variables alone, of one handler's
\* reply, and of the cache.
HandlersTyped ==
  /\ pc \in [Requests -> {"idle", "get", "flight", "wait", "put", "done"}]
  /\ query \in [Requests -> Queries \cup {None}]
  /\ now \in [Requests -> 0 .. MaxClock]
  /\ mine \in [Requests -> Calls \cup {None}]
  /\ got \in [Requests -> ResultType \cup {None}]
  /\ pending \in [Requests -> EntryType \cup {None}]
  /\ reply \in [Requests -> ReplyType \cup {None}]

Answered(r) ==
  pc[r] \in {"put", "done"} /\ reply[r] # None => reply[r].q = Forwarded(query[r])

CacheOK ==
  /\ lru \in Seq(Keys) /\ m \in [Keys -> EntryType \cup {None}]
  /\ CacheAnswersItsKey /\ CacheConsistent

\* A step leaves every handler but r as it is.
OthersKept(r) ==
  \A s \in Requests \ {r} :
    /\ pc'[s] = pc[s] /\ query'[s] = query[s] /\ mine'[s] = mine[s]
    /\ got'[s] = got[s] /\ pending'[s] = pending[s] /\ reply'[s] = reply[s]

LEMMA CacheKept ==
  ASSUME CacheOK, UNCHANGED <<lru, m>>
  PROVE  CacheOK'
  BY DEF CacheOK, CacheAnswersItsKey, CacheConsistent

LEMMA CallsKept ==
  ASSUME CallsPublished, SlotsAccounted, UNCHANGED callVars
  PROVE  CallsPublished' /\ SlotsAccounted'
<1>1. UNCHANGED <<st, ckey, sent, result, inflight, sem>>
  BY DEF callVars
<1>2. CallsPublished'
  BY <1>1 DEF CallsPublished
<1>3. Holders' = Holders
  BY <1>1 DEF Holders
<1>. QED BY <1>1, <1>2, <1>3 DEF SlotsAccounted

\* A step of one handler that leaves the calls alone keeps the invariant if it
\* keeps what the invariant says of that handler and of the cache.
LEMMA HandlerMoves ==
  ASSUME InductiveInvariant, NEW r \in Requests, UNCHANGED <<clock, callVars, life>>,
         OthersKept(r), HandlersTyped', HandlerWaits(r)', Answered(r)', CacheOK'
  PROVE  InductiveInvariant'
<1>1. UNCHANGED <<clock, st, ckey, sent, result, inflight, sem, life>>
  BY DEF callVars
<1>2. TypeOK'
  <2>1. TypeOK
    BY DEF InductiveInvariant
  <2>. QED BY <1>1, <2>1 DEF TypeOK, HandlersTyped, CacheOK
<1>3. CallsPublished' /\ SlotsAccounted'
  BY CallsKept DEF InductiveInvariant
<1>4. HandlersWait'
  <2>. SUFFICES ASSUME NEW s \in Requests, s # r
                PROVE  HandlerWaits(s)'
    BY DEF HandlersWait
  <2>1. HandlerWaits(s)
    BY DEF InductiveInvariant, HandlersWait
  <2>. QED BY <1>1, <2>1 DEF HandlerWaits, OthersKept
<1>5. AnswersItsQuestion'
  <2>. SUFFICES ASSUME NEW s \in Requests, s # r
                PROVE  Answered(s)'
    BY DEF AnswersItsQuestion, Answered
  <2>1. Answered(s)
    BY DEF InductiveInvariant, AnswersItsQuestion, Answered
  <2>. QED BY <2>1 DEF Answered, OthersKept
<1>. QED BY <1>2, <1>3, <1>4, <1>5 DEF InductiveInvariant, CacheOK

\* A step of an exchange goroutine that keeps its call disturbs no handler.
LEMMA HandlersKeepWaiting ==
  ASSUME TypeOK, HandlersWait, UNCHANGED <<reqVars, ckey>>,
         \A c \in Calls : st[c] # "free" => st'[c] # "free"
  PROVE  HandlersWait'
<1>. SUFFICES ASSUME NEW r \in Requests
              PROVE  HandlerWaits(r)'
  BY DEF HandlersWait
<1>1. HandlerWaits(r) /\ mine[r] \in Calls \cup {None}
  BY DEF HandlersWait, TypeOK
<1>. QED BY <1>1 DEF HandlerWaits, reqVars
-----------------------------------------------------------------------------
(* The inductive invariant. *)

\* It holds initially: nothing is cached, published or waited for.
LEMMA InitInvariant == Init => InductiveInvariant
<1>. SUFFICES ASSUME Init PROVE InductiveInvariant
  OBVIOUS
<1>1. TypeOK
  BY ForwarderAssumption DEF Init, TypeOK
<1>2. CallsPublished /\ HandlersWait /\ AnswersItsQuestion /\ CacheAnswersItsKey
  BY DEF Init, CallsPublished, HandlersWait, HandlerWaits, AnswersItsQuestion, CacheAnswersItsKey
<1>3. SlotsAccounted
  <2>1. Holders = {}
    BY DEF Init, Holders
  <2>. QED BY <2>1, FS_EmptySet, ForwarderAssumption DEF Init, SlotsAccounted
<1>4. CacheConsistent
  BY CacheCapAssumption DEF Init, CacheConsistent, Agrees, CacheOn
<1>. QED BY <1>1, <1>2, <1>3, <1>4 DEF InductiveInvariant

\* Steps of an exchange goroutine preserve the invariant.
LEMMA CallStep ==
  ASSUME InductiveInvariant, NEW c \in Calls, startExchange(c)
  PROVE  InductiveInvariant'
<1>0. /\ TypeOK /\ CallsPublished /\ HandlersWait /\ SlotsAccounted
      /\ AnswersItsQuestion /\ CacheAnswersItsKey /\ CacheConsistent
  BY DEF InductiveInvariant
<1>1. ASSUME NEW x \in Responses \cup {Failed}, ExchangeReturns(c, x)
      PROVE  InductiveInvariant'
  <2>1. TypeOK'
    BY <1>0, <1>1 DEF ExchangeReturns, TypeOK, reqVars
  <2>2. CallsPublished'
    BY SMTT(30), <1>0, <1>1, ForwarderAssumption DEF ExchangeReturns, TypeOK, CallsPublished
  <2>3. SlotsAccounted'
    <3>1. Holders' = Holders
      BY <1>0, <1>1 DEF ExchangeReturns, TypeOK, Holders
    <3>. QED BY <1>0, <1>1, <3>1 DEF ExchangeReturns, SlotsAccounted
  <2>4. HandlersWait'
    <3>1. \A d \in Calls : st[d] # "free" => st'[d] # "free"
      BY <1>0, <1>1 DEF ExchangeReturns, TypeOK
    <3>. QED BY <1>0, <1>1, <3>1, HandlersKeepWaiting DEF ExchangeReturns
  <2>5. AnswersItsQuestion' /\ CacheAnswersItsKey' /\ CacheConsistent'
    BY <1>0, <1>1
    DEF ExchangeReturns, reqVars, AnswersItsQuestion, CacheAnswersItsKey, CacheConsistent
  <2>. QED BY <2>1, <2>2, <2>3, <2>4, <2>5 DEF InductiveInvariant
<1>2. CASE DeleteInflight(c)
  <2>0. ckey[c] \in Keys /\ inflight[ckey[c]] = c
    BY <1>0, <1>2 DEF DeleteInflight, CallsPublished
  <2>1. TypeOK'
    BY <1>0, <1>2, <2>0 DEF DeleteInflight, TypeOK, reqVars
  <2>2. CallsPublished'
    BY SMTT(30), <1>0, <1>2, <2>0 DEF DeleteInflight, TypeOK, CallsPublished
  <2>3. SlotsAccounted'
    <3>1. Holders' = Holders
      BY <1>0, <1>2 DEF DeleteInflight, TypeOK, Holders
    <3>. QED BY <1>0, <1>2, <3>1 DEF DeleteInflight, SlotsAccounted
  <2>4. HandlersWait'
    <3>1. \A d \in Calls : st[d] # "free" => st'[d] # "free"
      BY <1>0, <1>2 DEF DeleteInflight, TypeOK
    <3>. QED BY <1>0, <1>2, <3>1, HandlersKeepWaiting DEF DeleteInflight
  <2>5. AnswersItsQuestion' /\ CacheAnswersItsKey' /\ CacheConsistent'
    BY <1>0, <1>2
    DEF DeleteInflight, reqVars, AnswersItsQuestion, CacheAnswersItsKey, CacheConsistent
  <2>. QED BY <2>1, <2>2, <2>3, <2>4, <2>5 DEF InductiveInvariant
<1>3. CASE CloseDone(c)
  <2>0. /\ ckey[c] \in Keys /\ sent[c] = ckey[c] /\ result[c] # None /\ st[c] = "deleted"
    BY <1>0, <1>3 DEF CloseDone, CallsPublished
  <2>. DEFINE res == [resp |-> result[c], q |-> sent[c]]
  <2>6. res \in ResultType /\ res.q = ckey[c] /\ res # None
    BY SMTT(30), <1>0, <2>0, ForwarderAssumption DEF TypeOK, ResultType
  <2>7. /\ got' = [r \in Requests |-> IF mine[r] = c THEN res ELSE got[r]]
        /\ mine' = [r \in Requests |-> IF mine[r] = c THEN None ELSE mine[r]]
        /\ st' = [st EXCEPT ![c] = "free"] /\ ckey' = [ckey EXCEPT ![c] = None]
        /\ sent' = [sent EXCEPT ![c] = None] /\ result' = [result EXCEPT ![c] = None]
        /\ UNCHANGED <<clock, pc, query, now, pending, reply, inflight, lru, m, life>>
        /\ sem' = IF MaxInflight > 0 THEN sem - 1 ELSE sem
    BY <1>3 DEF CloseDone, Release, Woken
  <2>. HIDE DEF res
  <2>1. TypeOK'
    BY SMTT(30), <1>0, <2>0, <2>6, <2>7 DEF TypeOK
  <2>2. CallsPublished'
    BY SMTT(30), <1>0, <2>0, <2>7 DEF TypeOK, CallsPublished
  <2>3. SlotsAccounted'
    <3>1. Holders' = Holders \ {c} /\ c \in Holders /\ Holders \in SUBSET Calls
      BY <1>0, <2>0, <2>7 DEF TypeOK, Holders
    <3>2. Cardinality(Holders') = Cardinality(Holders) - 1 /\ Cardinality(Holders) \in Nat
      BY <3>1, HoldersStep
    <3>. QED BY SMTT(30), <1>0, <2>7, <3>2, ForwarderAssumption DEF TypeOK, SlotsAccounted
  <2>4. HandlersWait'
    <3>. SUFFICES ASSUME NEW r \in Requests
                  PROVE  HandlerWaits(r)'
      BY DEF HandlersWait
    <3>0. HandlerWaits(r)
      BY <1>0 DEF HandlersWait
    <3>1. CASE mine[r] = c
      <4>1. got'[r] = res /\ mine'[r] = None
        BY <2>7, <3>1
      <4>. QED BY <2>6, <2>7, <3>0, <3>1, <4>1, ForwarderAssumption DEF HandlerWaits
    <3>2. CASE mine[r] # c
      <4>1. /\ got'[r] = got[r] /\ mine'[r] = mine[r]
            /\ mine[r] # None => st'[mine[r]] = st[mine[r]] /\ ckey'[mine[r]] = ckey[mine[r]]
        BY <1>0, <2>7, <3>2 DEF TypeOK
      <4>. QED BY <2>7, <3>0, <4>1 DEF HandlerWaits
    <3>. QED BY <3>1, <3>2
  <2>5. AnswersItsQuestion' /\ CacheAnswersItsKey' /\ CacheConsistent'
    BY <1>0, <2>7 DEF AnswersItsQuestion, CacheAnswersItsKey, CacheConsistent
  <2>. QED BY <2>1, <2>2, <2>3, <2>4, <2>5 DEF InductiveInvariant
<1>. QED BY <1>1, <1>2, <1>3 DEF startExchange

\* Steps of the lifecycle goroutine and of the clock preserve the invariant.
LEMMA LifecycleStep ==
  ASSUME InductiveInvariant, Cancel \/ cleanup \/ Tick
  PROVE  InductiveInvariant'
<1>0. /\ TypeOK /\ CallsPublished /\ HandlersWait /\ SlotsAccounted
      /\ AnswersItsQuestion /\ CacheAnswersItsKey /\ CacheConsistent
  BY DEF InductiveInvariant
<1>1. UNCHANGED <<reqVars, callVars>>
  BY DEF Cancel, cleanup, StoreClosed, ClearCache, WaitGroup, CloseUpstream, Lifecycle, Tick
<1>2. CallsPublished' /\ HandlersWait' /\ SlotsAccounted' /\ AnswersItsQuestion'
  BY <1>0, <1>1 DEF reqVars, callVars, CallsPublished, HandlersWait, HandlerWaits,
     SlotsAccounted, Holders, AnswersItsQuestion
<1>3. /\ lru' \in Seq(Keys) /\ m' \in [Keys -> EntryType \cup {None}]
      /\ CacheAnswersItsKey' /\ CacheConsistent'
  <2>1. CASE UNCHANGED <<lru, m>>
    BY <1>0, <2>1 DEF TypeOK, CacheAnswersItsKey, CacheConsistent
  <2>2. CASE ClearCache
    <3>1. lru' = <<>> /\ m' = [k \in Keys |-> None]
      BY <1>0, <2>2 DEF ClearCache, ClearMap, TypeOK
    <3>. QED BY <3>1, CacheCapAssumption
         DEF CacheAnswersItsKey, CacheConsistent, Agrees, CacheOn
  <2>. QED BY <2>1, <2>2 DEF Cancel, cleanup, StoreClosed, WaitGroup, CloseUpstream, Tick
<1>4. clock' \in 0 .. MaxClock
  BY SMTT(30), <1>0, ForwarderAssumption
  DEF TypeOK, Cancel, cleanup, StoreClosed, ClearCache, WaitGroup, CloseUpstream, Lifecycle, Tick
<1>5. life' \in {"running", "cancelled", "closed", "cleared", "drained", "finished"}
  BY <1>0
  DEF TypeOK, Cancel, cleanup, StoreClosed, ClearCache, WaitGroup, CloseUpstream, Lifecycle, Tick
<1>6. TypeOK'
  BY <1>0, <1>1, <1>3, <1>4, <1>5 DEF TypeOK, reqVars, callVars
<1>. QED BY <1>2, <1>3, <1>6 DEF InductiveInvariant
=============================================================================
