----------------------------- MODULE PublicStack -----------------------------
(* A public listener's middleware (server_public.go): the access list, the    *)
(* query limiter, the response limiter and the cookies middleware around a    *)
(* handler; and the cookies client (cookies/cookies.go) that several callers  *)
(* share, against one server that listens on several addresses, may rotate    *)
(* its secret and sees the client's own address change between two queries.   *)
(* Datagrams may be lost, repeated and answered late.                         *)
(* A server cookie is the record of what its MAC covers; the buckets are      *)
(* those of TokenBucket, with whole seconds; a positive answer has one owner, *)
(* the name asked for.                                                        *)
EXTENDS Integers, FiniteSets, FiniteSetsExt

CONSTANTS
  Callers,
  Networks,        \* "udp", "dnscrypt" and the stream transports
  Servers,         \* the addresses the server listens on
  Addrs,           \* the addresses of clients
  QNames,          \* the names they ask for
  Allow, Deny,     \* the access list
  MaxEntries,      \* cookies.WithMaxEntries
  MaxAge, FutureSkew,
  MaxBytes,        \* WithRequireCookieMaxBytes
  Sizes,           \* sizes of the handler's replies
  CookieBytes,     \* what the cookie option adds to a reply
  Qps, QueryBurst, \* NewRateLimit: tokens of an address
  Rated,           \* NewRRL: the classes of responses with a rate, of "positive",
                   \* "negative" and "error"
  Burst, Slip,     \* NewRRL: a bucket's tokens, and how many blocked make a slip
  MaxClock, MaxSecret, MaxFresh, \* bounds: time, rotations, client cookies
  None

VARIABLES
  clock, addr,     \* the time, and the address queries come from
  secrets,         \* the pool: the current and the previous secret
  cache, minted,    \* the client's entries; the next client cookie
  call,            \* each caller's transaction
  queries, replies, slips, \* tokens of the two limiters; slips so far
  issued,          \* history: where the server sent a cookie, and when
  passed           \* history: BADCOOKIE datagrams that left whole, by address and name

vars == <<clock, addr, secrets, cache, minted, call, queries, replies, slips, issued,
          passed>>

Buckets == Addrs \X QNames \X Rated
-----------------------------------------------------------------------------
(* cookies.Server. *)

mintCookie(s, cc, a, ts) == [secret |-> s, cc |-> cc, addr |-> a, ts |-> ts]

Make(cc, a) == mintCookie(secrets.current, cc, a, clock)

\* The MAC under any secret of the pool, and then the time.
Validate(sc, cc, a) ==
  /\ \E s \in {secrets.current, secrets.previous} \ {None} :
       sc = mintCookie(s, cc, a, sc.ts)
  /\ clock - sc.ts <= MaxAge
  /\ sc.ts - clock <= FutureSkew

Rotate_Forgets ==
  /\ secrets.current < MaxSecret
  /\ secrets' = [current |-> secrets.current + 1, previous |-> None]
  /\ UNCHANGED <<clock, addr, cache, minted, call, queries, replies, slips, issued, passed>>

\* MemorySecretPool.Rotate, from the pool's timer or its owner.
Rotate ==
  /\ secrets.current < MaxSecret
  /\ secrets' = [current |-> secrets.current + 1, previous |-> secrets.current]
  /\ UNCHANGED <<clock, addr, cache, minted, call, queries, replies, slips, issued, passed>>
-----------------------------------------------------------------------------
(* cookies.Client. *)

Entry(cc, sc, streak) == [cc |-> cc, sc |-> sc, updated |-> clock, streak |-> streak]

\* The caches evictLocked can leave when srv needs a new entry at the limit.
evictLocked(srv) ==
  LET D == DOMAIN cache
      oldest == {k \in D : \A j \in D : cache[k].updated <= cache[j].updated}
  IN  IF srv \in D \/ MaxEntries = 0 \/ Cardinality(D) < MaxEntries THEN {D}
      ELSE {D \ {k} : k \in oldest}

Store(srv, e) ==
  \E kept \in evictLocked(srv) :
    cache' = [k \in kept \cup {srv} |-> IF k = srv THEN e ELSE cache[k]]

Idle == [pc |-> "idle"]

\* Apply, and the query leaves: with a minted client cookie, with the entry's
\* pair, or without any when the random source fails.
Apply(c, srv, net, qname) ==
  /\ call[c].pc \in {"idle", "again"}
  /\ call[c].pc = "again" => srv = call[c].server /\ net = call[c].net
                                               /\ qname = call[c].qname
  /\ LET send(cookie) == call' = [call EXCEPT ![c] =
           [pc |-> "sent", server |-> srv, net |-> net, qname |-> qname, addr |-> addr,
            cookie |-> cookie, reply |-> None]]
     IN  \/ /\ srv \in DOMAIN cache
            /\ cache' = [cache EXCEPT ![srv].updated = clock]
            /\ send([cc |-> cache[srv].cc, sc |-> cache[srv].sc]) /\ UNCHANGED minted
         \/ /\ srv \notin DOMAIN cache /\ minted < MaxFresh
            /\ Store(srv, Entry(minted, None, 0))
            /\ send([cc |-> minted, sc |-> None]) /\ minted' = minted + 1
         \/ /\ srv \notin DOMAIN cache /\ send(None) /\ UNCHANGED <<cache, minted>>
  /\ UNCHANGED <<clock, addr, secrets, queries, replies, slips, issued, passed>>

Observe(srv, r) ==
  IF r.cookie = None THEN UNCHANGED cache
  ELSE Store(srv, Entry(r.cookie.cc, r.cookie.sc, 0))

\* Apply by a goroutine whose query is lost: all it leaves is the entry.
ApplyLost(srv) ==
  /\ srv \notin DOMAIN cache /\ minted < MaxFresh
  /\ Store(srv, Entry(minted, None, 0)) /\ minted' = minted + 1
  /\ UNCHANGED <<clock, addr, secrets, call, queries, replies, slips, issued, passed>>

\* The caller is told to send again, once per streak.
Retry(c, srv, r) ==
  LET streak == IF srv \in DOMAIN cache THEN cache[srv].streak ELSE 0
  IN  IF streak >= 1
      THEN /\ Store(srv, [cache[srv] EXCEPT !.streak = 0])
           /\ call' = [call EXCEPT ![c] = Idle]
      ELSE /\ Store(srv, Entry(r.cookie.cc, r.cookie.sc, streak + 1))
           /\ call' = [call EXCEPT ![c].pc = "again", ![c].reply = None]

\* A caller gets its reply: Retry for BADCOOKIE, Observe for the others.
Receive(c) ==
  /\ call[c].pc = "sent" /\ call[c].reply # None
  /\ LET r == call[c].reply
     IN  IF r.rcode = "BADCOOKIE" THEN Retry(c, call[c].server, r)
         ELSE Observe(call[c].server, r) /\ call' = [call EXCEPT ![c] = Idle]
  /\ UNCHANGED <<clock, addr, secrets, minted, queries, replies, slips, issued, passed>>

\* The query or its reply is lost, or the caller stops waiting.
GiveUp(c) ==
  /\ call[c].pc \in {"sent", "again"}
  /\ call' = [call EXCEPT ![c] = Idle]
  /\ UNCHANGED <<clock, addr, secrets, cache, minted, queries, replies, slips, issued, passed>>
-----------------------------------------------------------------------------
(* The stack. *)

permit(a) == a \notin Deny /\ (Allow = {} \/ a \in Allow)

isUDPNetwork(net) == net \in {"udp", "dnscrypt"}

\* The message as the cookies middleware and the handler write it: the gate
\* measures before cookiesWriter adds the option.
BadCookie(q) == q.cookie # None /\ q.cookie.sc # None
                /\ ~Validate(q.cookie.sc, q.cookie.cc, q.addr)

cookieSizeGate(q, n) ==
  LET valid == q.cookie # None /\ q.cookie.sc # None
  IN  IF isUDPNetwork(q.net) /\ ~valid /\ n > MaxBytes
      THEN [rcode |-> "NoError", class |-> "negative", size |-> 0, tc |-> TRUE]
      ELSE [rcode |-> "NoError", class |-> "positive", size |-> n, tc |-> FALSE]

attachCookieOption(q, m) ==
  LET fc == IF q.cookie = None THEN None
            ELSE [cc |-> q.cookie.cc, sc |-> Make(q.cookie.cc, q.addr)]
  IN  [rcode |-> m.rcode, class |-> m.class, tc |-> m.tc, cookie |-> fc,
       size |-> m.size + IF fc = None THEN 0 ELSE CookieBytes]

buildBadCookieResponse(q) ==
  attachCookieOption(q, [rcode |-> "BADCOOKIE", class |-> "error", size |-> 0, tc |-> FALSE])

cookiesMW(q, n) ==
  IF BadCookie(q) THEN buildBadCookieResponse(q) ELSE attachCookieOption(q, cookieSizeGate(q, n))

\* A reply leaves; an earlier one of a repeated query may be the one received.
Deliver(c, m, whole) ==
  LET q == call[c]
  IN  /\ issued' = IF m.cookie = None THEN issued
                   ELSE issued \cup {[addr |-> q.addr, ts |-> clock]}
      /\ passed' = IF whole /\ isUDPNetwork(q.net) /\ m.rcode = "BADCOOKIE"
                   THEN [passed EXCEPT ![q.addr, q.qname] = @ + 1] ELSE passed
      /\ call' \in {[call EXCEPT ![c].reply = r] : r \in {m, call[c].reply} \ {None}}

writeRefused == [rcode |-> "REFUSED", class |-> "error", size |-> 0, tc |-> FALSE, cookie |-> None]

\* A slip: the header, the question and the OPT record with its cookie.
truncateForRRL(m) == [m EXCEPT !.tc = TRUE, !.size = IF m.cookie = None THEN 0 ELSE CookieBytes]

\* RRL around the cookies middleware.  None of these messages shows a zone, so a
\* bucket is that of the name asked for.
RRL_Inside(c, m) == Deliver(c, m, TRUE) /\ UNCHANGED <<replies, slips>>
RRL(c, m) ==
  LET b == <<call[c].addr, call[c].qname, m.class>>
      slip == Slip > 0 /\ slips[b] + 1 >= Slip
  IN  IF ~isUDPNetwork(call[c].net) \/ m.class \notin Rated
      THEN Deliver(c, m, TRUE) /\ UNCHANGED <<replies, slips>>
      ELSE IF replies[b] > 0
      THEN /\ replies' = [replies EXCEPT ![b] = @ - 1] /\ UNCHANGED slips
           /\ Deliver(c, m, TRUE)
      ELSE /\ slips' = [slips EXCEPT ![b] = IF slip THEN 0 ELSE @ + 1] /\ UNCHANGED replies
           /\ IF slip THEN Deliver(c, truncateForRRL(m), FALSE)
              ELSE UNCHANGED <<issued, passed, call>>

\* RateLimit around that: an address without a token is refused.
RateLimit(c, n) ==
  LET a == call[c].addr
  IN  IF queries[a] > 0
      THEN queries' = [queries EXCEPT ![a] = @ - 1] /\ RRL(c, cookiesMW(call[c], n))
      ELSE Deliver(c, writeRefused, FALSE) /\ UNCHANGED <<queries, replies, slips>>

\* ACL, RateLimit, RRL, Cookies, handler: a query, or a copy of it, is served.
Serve(c, n) ==
  /\ call[c].pc = "sent"
  /\ IF permit(call[c].addr) THEN RateLimit(c, n)
     ELSE UNCHANGED <<issued, passed, call, queries, replies, slips>>
  /\ UNCHANGED <<clock, addr, secrets, cache, minted>>
-----------------------------------------------------------------------------
Init ==
  /\ clock = 0 /\ addr \in Addrs
  /\ secrets = [current |-> 1, previous |-> None]
  /\ cache = [s \in {} |-> None] /\ minted = 1
  /\ call = [c \in Callers |-> Idle]
  /\ queries = [a \in Addrs |-> QueryBurst] /\ replies = [k \in Buckets |-> Burst]
  /\ slips = [k \in Buckets |-> 0]
  /\ issued = {} /\ passed = [k \in Addrs \X QNames |-> 0]

\* External: the client's address changes, and time passes.
Move ==
  /\ addr' \in Addrs \ {addr}
  /\ UNCHANGED <<clock, secrets, cache, minted, call, queries, replies, slips, issued, passed>>

Refill(tokens, burst) ==
  [k \in DOMAIN tokens |-> IF tokens[k] + Qps > burst THEN burst ELSE tokens[k] + Qps]

Tick ==
  /\ clock < MaxClock /\ clock' = clock + 1
  /\ queries' = Refill(queries, QueryBurst) /\ replies' = Refill(replies, Burst)
  /\ UNCHANGED <<addr, secrets, cache, minted, call, slips, issued, passed>>

Next ==
  \/ \E c \in Callers :
       \/ \E s \in Servers, net \in Networks, n \in QNames : Apply(c, s, net, n)
       \/ Receive(c) \/ GiveUp(c)
       \/ \E n \in Sizes : Serve(c, n)
  \/ \E s \in Servers : ApplyLost(s)
  \/ Rotate \/ Move \/ Tick

Spec == Init /\ [][Next]_vars
-----------------------------------------------------------------------------
(* Properties of a step. *)

Replied(c) == call[c].pc = "sent" /\ call'[c].pc = "sent" /\ call'[c].reply # call[c].reply

\* A client that keeps its address is told BADCOOKIE only for a cookie that is
\* too old or made two rotations ago: whatever entries were evicted, and however
\* late the replies came, the pair the client sends is a pair the server made.
CookieAccepted ==
  \A c \in Callers : Replied(c) /\ call'[c].reply.rcode = "BADCOOKIE" =>
    LET sc == call[c].cookie.sc
    IN  \/ sc.addr # call[c].addr
        \/ clock - sc.ts > MaxAge
        \/ sc.secret + 1 < secrets.current

\* What goes out to an address that has shown nothing is little: a datagram
\* above the gate's limit goes only where the server sent a cookie within the
\* maximal age; an address the list denies is sent nothing; and BADCOOKIE replies
\* keep to the response limiter's rate for each name asked for, and to the query
\* limiter's for all names together.  The limiter of responses alone does not
\* bound them for an address: its error buckets are keyed by the name too
\* (middleware_rrl.go:303-318, 468-470), whatever line 71 says.
LittleReflected ==
  /\ \A c \in Callers : Replied(c) =>
       /\ permit(call[c].addr)
       /\ isUDPNetwork(call[c].net) /\ call'[c].reply.size > MaxBytes + CookieBytes =>
            \E i \in issued : i.addr = call[c].addr /\ clock - i.ts <= MaxAge
  /\ \A a \in Addrs :
       /\ \A n \in QNames : passed'[a, n] <= Burst + Qps * clock
       /\ MapThenSumSet(LAMBDA n : passed'[a, n], QNames) <= QueryBurst + Qps * clock
=============================================================================
