----------------------------- MODULE TokenBucket -----------------------------
(* The three token buckets: the query limiter (middleware_ratelimit.go), the *)
(* response limiter (middleware_rrl.go), both over one shard of              *)
(* internal/shardbucket, and the recursive resolver's limit per upstream     *)
(* (recursive/upstream_ratelimit.go).  A caller reads the clock and then     *)
(* takes the lock, so callers may be served in another order than they read. *)
(* A unit of time is a second; tokens are whole because rates are.           *)
EXTENDS Integers, FiniteSets

CONSTANTS
  Callers,   \* goroutines
  Sources,   \* source prefixes, or upstream addresses
  Zones,     \* names a response can be filed under
  Responses, \* responses to be limited
  Qps,       \* rate of the query and upstream limiters, > 0
  ClassQps,  \* rate of each class of responses; 0: the class is exempt
  Burst, MaxKeys, Slip,
  MaxClock,  \* bound: the last moment
  Skew,      \* bound: how long a caller waits between its clock and the lock
  None

VARIABLES
  kind,      \* "ratelimit", "rrl" or "upstream"
  clock,
  buckets,   \* the shard's map
  call,      \* each caller: the key, rate and time it waits for the lock with
  last,      \* what became of the last message
  lost       \* history: keys an idle sweep dropped before they were full again

vars == <<kind, clock, buckets, call, last, lost>>

Classes == {"positive", "negative", "error"}
-----------------------------------------------------------------------------
(* What a response counts as, and under which name. *)

classify(m) ==
  IF m.rcode = "NoError" THEN (IF m.answers THEN "positive" ELSE "negative")
  ELSE IF m.rcode = "NXDomain" THEN "negative" ELSE "error"

\* The zone the response is about, if it shows one, else the name asked for.
responseKeyName(m) ==
  LET shown == IF classify(m) = "error" THEN <<>>
               ELSE IF classify(m) = "negative" THEN <<m.soa, m.ns>>
               ELSE <<m.soa, m.ancestor>>
      first == {i \in DOMAIN shown :
                  shown[i] # None /\ \A j \in 1 .. i - 1 : shown[j] = None}
  IN  IF first = {} THEN m.qname ELSE shown[CHOOSE i \in first : TRUE]

bucketKey(s, m) == <<s, responseKeyName(m), classify(m)>>

Keys == Sources \cup Sources \X Zones \X Classes

LargestQps == CHOOSE q \in {ClassQps[c] : c \in Classes} : \A c \in Classes : ClassQps[c] <= q

\* The rate eviction takes a bucket to be refilled with.
EvictQps == IF kind = "rrl" THEN LargestQps ELSE Qps

RateOf(k) == IF kind = "rrl" THEN ClassQps[k[3]] ELSE Qps
-----------------------------------------------------------------------------
Init ==
  /\ kind \in {"ratelimit", "rrl", "upstream"} /\ clock = 0
  /\ buckets = [k \in {} |-> None]
  /\ call = [c \in Callers |-> None] /\ last = "none"
  /\ lost = {}

\* allow and Take begin: the clock is read, the lock is not held yet.
Ask(c, s) ==
  /\ kind # "rrl" /\ call[c] = None
  /\ call' = [call EXCEPT ![c] = [key |-> s, now |-> clock]]
  /\ UNCHANGED <<kind, clock, buckets, last, lost>>

\* rrlWriter.WriteMsg: a further message of one reply, a stream and an exempt
\* class pass; the others go to consume.
WriteMsg(c, s, m, datagram, first) ==
  /\ kind = "rrl" /\ call[c] = None
  /\ \/ /\ first /\ datagram /\ ClassQps[classify(m)] > 0
        /\ call' = [call EXCEPT ![c] = [key |-> bucketKey(s, m), now |-> clock]]
        /\ UNCHANGED last
     \/ /\ ~(first /\ datagram /\ ClassQps[classify(m)] > 0)
        /\ last' = "passed" /\ UNCHANGED call
  /\ UNCHANGED <<kind, clock, buckets, lost>>

\* updated.Before(now - (burst / rate + 1s)), without the division.
Idle(b, now) == EvictQps > 0 /\ (now - b.updated - 1) * EvictQps > Burst

Full(k, now) == buckets[k].tokens + RateOf(k) * (now - buckets[k].updated) >= Burst

\* The keys left after evictLocked: the idle ones go, and the oldest one if that
\* was not enough.
AtCap_Late(S) == MaxKeys > 0 /\ Cardinality(S) > MaxKeys
AtCap(S) == MaxKeys > 0 /\ Cardinality(S) >= MaxKeys

evictLocked(now) ==
  LET kept == {k \in DOMAIN buckets : ~Idle(buckets[k], now)}
      oldest == {k \in kept : \A j \in kept : buckets[k].updated <= buckets[j].updated}
  IN  IF AtCap(kept) THEN {kept \ {k} : k \in oldest} ELSE {kept}

\* The map a new key is added to.
Room(k, now) ==
  IF k \notin DOMAIN buckets /\ AtCap(DOMAIN buckets) THEN evictLocked(now)
  ELSE {DOMAIN buckets}

fresh(now) == [tokens |-> Burst, updated |-> now, slip |-> 0, born |-> now, passed |-> 0]

\* The upstream limiter ignores a clock that has gone back; the others follow it.
refill_Twice(k, b, now) == [b EXCEPT !.tokens = @ + RateOf(k) * (now - b.updated)]
refill(k, b, now) ==
  LET t == b.tokens + RateOf(k) * (now - b.updated)
  IN  IF kind = "upstream" /\ now <= b.updated THEN b
      ELSE [b EXCEPT !.tokens = IF t > Burst THEN Burst ELSE t, !.updated = now]

\* limiter.ServeDNS for what allow says, and rrlWriter.WriteMsg for consume.
ServeDNS(pass) == IF pass THEN "passed" ELSE "refused"
Limited(pass, slips) == IF pass THEN "passed" ELSE IF slips THEN "truncated" ELSE "dropped"

\* The bucket's part under the lock; born and passed are history.
Bucket(c) ==
  /\ call[c] # None
  /\ LET k == call[c].key
         now == call[c].now
         old == IF k \in DOMAIN buckets THEN buckets[k] ELSE fresh(now)
         b == refill(k, old, now)
         pass == b.tokens >= 1
         slips == Slip > 0 /\ b.slip + 1 >= Slip
         after == IF pass THEN [b EXCEPT !.tokens = @ - 1, !.passed = @ + 1]
                  ELSE IF kind = "rrl" /\ Slip > 0
                       THEN [b EXCEPT !.slip = IF slips THEN 0 ELSE @ + 1] ELSE b
     IN  \E kept \in Room(k, now) :
           /\ buckets' = [j \in kept \cup {k} |-> IF j = k THEN after ELSE buckets[j]]
           /\ lost' = IF k \in DOMAIN buckets \/ ~AtCap(DOMAIN buckets) THEN lost
                      ELSE lost \cup {j \in DOMAIN buckets :
                                        Idle(buckets[j], now) /\ ~Full(j, now)}
           /\ last' = IF kind = "rrl" THEN Limited(pass, slips) ELSE ServeDNS(pass)
  /\ call' = [call EXCEPT ![c] = None]
  /\ UNCHANGED <<kind, clock>>

allow(c) == kind = "ratelimit" /\ Bucket(c)
consume(c) == kind = "rrl" /\ Bucket(c)
Take(c) == kind = "upstream" /\ Bucket(c)

Tick ==
  /\ clock < MaxClock
  /\ \A c \in Callers : call[c] # None => clock - call[c].now < Skew
  /\ clock' = clock + 1
  /\ UNCHANGED <<kind, buckets, call, last, lost>>

Next ==
  \/ \E c \in Callers, s \in Sources :
       \/ Ask(c, s)
       \/ \E m \in Responses, d, f \in BOOLEAN : WriteMsg(c, s, m, d, f)
  \/ \E c \in Callers : allow(c) \/ consume(c) \/ Take(c)
  \/ Tick

Spec == Init /\ [][Next]_vars
-----------------------------------------------------------------------------
(* Properties. *)

\* The map stays within the cap, whatever keys arrive.
Bounded == MaxKeys > 0 => Cardinality(DOMAIN buckets) <= MaxKeys

\* As long as a bucket lives it lets no more messages pass than the burst and
\* the rate since it was made allow, even when callers get the lock in another
\* order than they read the clock.
RateHeld ==
  \A k \in DOMAIN buckets : LET b == buckets[k] IN
    b.passed + b.tokens <= Burst + RateOf(k) * (b.updated - b.born)

\* "those buckets are equivalent to a fresh allocation"
\* (middleware_ratelimit.go:185-187): the idle sweep drops a bucket only when it
\* is full again, so that its source gains nothing by it.  The response limiter
\* does not keep to it for every class, though it says so (middleware_rrl.go:107,
\* 374): evictLocked ages all of them by the largest rate, and a bucket of a class
\* with a lower rate may go before it is full.  Those of the fastest class do not.
IdleIsFull == \A k \in lost : kind = "rrl" /\ RateOf(k) < LargestQps
=============================================================================
