------------------------------- MODULE MCTables ------------------------------
(* Small instances of the tables that fill up and forget, for TLC: the token *)
(* buckets, the replay caches, the resolver's cache, its server statistics   *)
(* and its NSEC and NSEC3 indexes, the DNS cookies of a client and a server, *)
(* and the key material of a DNSCrypt server.  A behaviour takes the steps   *)
(* of one of them.                                                           *)
EXTENDS TokenBucket, Sequences, TLC

CONSTANTS NZones, NQNames,   \* NSECIndex: zones and names
          CookieServers,     \* PublicStack: the server's addresses
          zn, msg1, msg2, msg3, key1, key2, key3, srv1, srv2, srv3, w1, l1, l2

VARIABLES which,                                       \* the module that takes steps
          rkind, seen, lastSweep, firstAt, pushedOut, replayed,  \* ReplayCache
          entries, gpc, got, glast,                  \* MemoryCache
          zone, index, denied,                         \* NSECIndex
          params, zones, query, denied3,               \* NSEC3Index
          stat, roots, running, at, queue,             \* Upstreams
          addr, secrets, cookies, minted, pcall, queries, replies, slips, issued, passed, \* PublicStack
          ctx, socket, loop, material, worker, replay, cert, sent, sealed, answer, handled \* DNSCrypt

\* TokenBucket: an answer, and an error, whose class is exempt; and a denial, whose
\* class has a larger rate.
Answered == [rcode |-> "NoError", answers |-> TRUE, soa |-> None, ns |-> None, ancestor |-> zn, qname |-> zn]
Failed == [rcode |-> "ServFail", answers |-> FALSE, soa |-> None, ns |-> None, ancestor |-> None, qname |-> zn]
Denied == [rcode |-> "NXDomain", answers |-> FALSE, soa |-> zn, ns |-> None, ancestor |-> None, qname |-> zn]

MCResponses == {Answered, Failed}

MCClassQps == [positive |-> 1, negative |-> 2, error |-> 0]

\* Buckets that take longer to refill than the sweep allows the slower class.
S == INSTANCE TokenBucket WITH Sources <- {l1, l2}, Responses <- {Answered, Denied}, Skew <- 0,
       ClassQps <- [positive |-> 1, negative |-> 4, error |-> 0], Qps <- 2, Burst <- 3, MaxKeys <- 1

R == INSTANCE ReplayCache WITH kind <- rkind, Messages <- {msg1, msg2, msg3}, Fudge <- 2,
       SignedAt <- (msg1 :> 0 @@ msg2 :> 1 @@ msg3 :> 0), Window <- 2, Size <- 2

C == INSTANCE MemoryCache WITH Readers <- {w1}, Keys <- {key1, key2, key3}, Ttls <- {1, 2}, MaxClock <- 2,
       MaxSize <- 2, MaxRecords <- 2, pc <- gpc, last <- glast,
       Sections <- {[ans |-> 1, auth |-> 0, add |-> 0], [ans |-> 1, auth |-> 1, add |-> 2]}

U == INSTANCE Upstreams WITH Servers <- {srv1, srv2, srv3}, Hints <- {srv1}, Configured <- {},
       Walks <- {w1}, Loops <- {l1, l2}, MaxEntries <- 2, Batch <- 1, MaxStreak <- 1, Rtts <- {1},
       MaxClock <- 1,
       Answers <- [rcode : {"NoError", "ServFail"}, ns : {{1}}, glue : {{<<1, srv2>>, <<1, srv3>>}, {<<2, srv3>>}}]

\* NSECIndex: names are made of labels of one byte, except in MixedZones.
Star == <<1>>
Apex == <<<<6>>>>
Under(l) == <<<<6>>, l>>
Below(l, m) == <<<<6>>, m, l>>
Outside == {<<<<5>>, <<4>>>>, <<<<7>>, <<4>>>>}

\* A zone with an empty non-terminal, one with an alias, one with a wildcard at the
\* apex and one with a wildcard below an empty non-terminal.
PlainZones ==
  {(Apex :> {"SOA"}) @@ (Under(<<3>>) :> {"A"}) @@ (Below(<<3>>, <<5>>) :> {"A"}),
   (Apex :> {"SOA"}) @@ (Under(<<3>>) :> {"CNAME"}) @@ (Under(<<5>>) :> {"A"}),
   (Apex :> {"SOA"}) @@ (Under(Star) :> {"A"}) @@ (Below(<<3>>, <<3>>) :> {"A"}),
   (Apex :> {"SOA"}) @@ (Under(<<3>>) :> {"A"}) @@ (Below(Star, <<5>>) :> {"A"})}
PlainQNames == {Under(<<2>>), Under(<<3>>), Under(<<4>>), Under(<<5>>), Under(<<6>>),
                Below(<<2>>, <<3>>), Below(<<4>>, <<5>>)} \cup Outside

MixedZones == {(Apex :> {"SOA"}) @@ (Under(<<2, 2>>) :> {"A"}) @@ (Under(<<4>>) :> {"A"})
                 @@ (Under(<<5, 5>>) :> {"A"})}
MixedQNames == {Under(<<3>>), Under(<<5, 5>>)}

N == INSTANCE NSECIndex WITH Zones <- NZones, QNames <- NQNames, QTypes <- {"A", "MX"},
       Ttl <- 1, MaxLen <- 2, MaxClock <- 1

\* NSEC3Index: two zones side by side, one with opt-out and an unsigned delegation,
\* one with an empty non-terminal; names are sequences of numbers, 0 the wildcard
\* label.
N3Order == <<<<1, 1>>, <<2>>, <<0>>, <<1>>, <<1, 2>>, <<>>, <<2, 3>>, <<1, 3>>, <<2, 2, 1>>,
             <<1, 0>>, <<2, 2, 0>>, <<2, 0>>, <<2, 2, 2>>, <<2, 3, 0>>, <<2, 2>>, <<2, 3, 1>>>>
N3Names == {N3Order[i] : i \in DOMAIN N3Order}
N3Hash == [p \in {1, 2, 3} |->
             [n \in N3Names |->
                LET i == CHOOSE j \in DOMAIN N3Order : N3Order[j] = n
                IN  IF p = 1 THEN i ELSE Len(N3Order) - i]]

H == INSTANCE NSEC3Index WITH Apexes <- {<<1>>, <<2>>}, Params <- {1, 2}, BadParams <- {},
       Owners <- (<<1>> :> ((<<1>> :> {"SOA"}) @@ (<<1, 1>> :> {"A"}))
                  @@ <<2>> :> ((<<2>> :> {"SOA"}) @@ (<<2, 2, 1>> :> {"A"}))),
       Unsigned <- (<<1>> :> {<<1, 2>>} @@ <<2>> :> {}), Hash <- N3Hash, Star <- 0,
       denied <- denied3, QTypes <- {"A"},
       QNames <- {<<1, 2>>, <<1, 3>>, <<2, 2>>, <<2, 2, 2>>, <<2, 3, 1>>},
       Ttl <- 1, MaxLen <- 4, MaxClock <- 1

\* PublicStack: two addresses to come from and to ask, one name, one client cookie at
\* a time, two rotations.
P == INSTANCE PublicStack WITH Callers <- {w1}, Networks <- {"udp"}, QNames <- {key1},
       Servers <- CookieServers, Addrs <- {l1, l2}, Allow <- {l1, l2}, Deny <- {}, MaxEntries <- 1,
       MaxAge <- 0, FutureSkew <- 0, MaxBytes <- 2, Sizes <- {3}, CookieBytes <- 1, Qps <- 1,
       QueryBurst <- 2, Rated <- {"error"}, Burst <- 1, Slip <- 1, MaxClock <- 1, MaxSecret <- 3,
       MaxFresh <- 2, cache <- cookies, call <- pcall

\* PublicStack: an address that asks for two names.
Q == INSTANCE PublicStack WITH Callers <- {w1}, Networks <- {"udp"}, QNames <- {key1, key2},
       Servers <- CookieServers, Addrs <- {l1}, Allow <- {l1}, Deny <- {}, MaxEntries <- 1,
       MaxAge <- 0, FutureSkew <- 0, MaxBytes <- 2, Sizes <- {3}, CookieBytes <- 1, Qps <- 1,
       QueryBurst <- 3, Rated <- {"error"}, Burst <- 1, Slip <- 2, MaxClock <- 2, MaxSecret <- 1,
       MaxFresh <- 2, cache <- cookies, call <- pcall

\* DNSCrypt: two certificates with the same magic, the first of which expires.
D == INSTANCE DNSCrypt WITH Clients <- {key1}, Workers <- {l1, l2}, MaxInflight <- 2,
       ReplayWindow <- 1, ReplayMax <- 2, ClockSkew <- 0, MaxClock <- 1, replies <- sealed,
       Certs <- <<[magic |-> "m1", sk |-> "k1", from |-> 0, until |-> 0],
                  [magic |-> "m1", sk |-> "k2", from |-> 0, until |-> 1]>>

publicVars == <<addr, secrets, cookies, minted, pcall, queries, replies, slips, issued, passed>>
cryptVars == <<ctx, socket, loop, material, worker, replay, cert, sent, sealed, answer, handled>>
nsec3Vars == <<params, zones, query, denied3>>
nsecVars == <<zone, index, denied>>
bucketVars == <<kind, buckets, last, lost>>
replayVars == <<rkind, seen, lastSweep, firstAt, pushedOut, replayed>>
cacheVars == <<entries, gpc, got, glast>>
statVars == <<stat, roots, running, at, queue>>

MCInit ==
  /\ R!Init /\ C!Init /\ U!Init /\ N!Init /\ H!Init /\ D!Init
  /\ which \in {"TokenBucket", "SlowBucket", "ReplayCache", "MemoryCache", "Upstreams", "NSECIndex",
                "NSEC3Index", "PublicStack", "PublicNames", "DNSCrypt"}
  /\ IF which = "SlowBucket" THEN S!Init ELSE Init
  /\ IF which = "PublicNames" THEN Q!Init ELSE P!Init
  /\ which \notin {"TokenBucket", "SlowBucket"} => kind = "rrl"
  /\ which # "NSECIndex" => zone = CHOOSE z \in NZones : TRUE
  /\ params = [z \in DOMAIN params |-> 1]
  /\ which # "ReplayCache" => rkind = "tsig"
  /\ addr = l1
  /\ which # "DNSCrypt" => material = 1 /\ cert[key1] = 1

\* clock and call are shared: only one module takes steps.
MCNext ==
  /\ UNCHANGED which
  /\ \/ /\ which = "TokenBucket" /\ Next
        /\ UNCHANGED <<replayVars, cacheVars, statVars, nsecVars, nsec3Vars, publicVars, cryptVars>>
     \/ /\ which = "SlowBucket" /\ S!Next
        /\ UNCHANGED <<replayVars, cacheVars, statVars, nsecVars, nsec3Vars, publicVars, cryptVars>>
     \/ /\ which = "ReplayCache" /\ R!Next
        /\ UNCHANGED <<bucketVars, cacheVars, statVars, nsecVars, nsec3Vars, publicVars, cryptVars>>
     \/ /\ which = "MemoryCache" /\ C!Next
        /\ UNCHANGED <<call, bucketVars, replayVars, statVars, nsecVars, nsec3Vars, publicVars,
                       cryptVars>>
     \/ /\ which = "Upstreams" /\ U!Next
        /\ UNCHANGED <<call, bucketVars, replayVars, cacheVars, nsecVars, nsec3Vars, publicVars,
                       cryptVars>>
     \/ /\ which = "NSECIndex" /\ N!Next
        /\ UNCHANGED <<call, bucketVars, replayVars, cacheVars, statVars, nsec3Vars, publicVars,
                       cryptVars>>
     \/ /\ which = "NSEC3Index" /\ H!Next
        /\ UNCHANGED <<call, bucketVars, replayVars, cacheVars, statVars, nsecVars, publicVars,
                       cryptVars>>
     \/ /\ which = "PublicStack" /\ P!Next
        /\ UNCHANGED <<call, bucketVars, replayVars, cacheVars, statVars, nsecVars, nsec3Vars, cryptVars>>
     \/ /\ which = "PublicNames" /\ Q!Next
        /\ UNCHANGED <<call, bucketVars, replayVars, cacheVars, statVars, nsecVars, nsec3Vars, cryptVars>>
     \/ /\ which = "DNSCrypt" /\ D!Next
        /\ UNCHANGED <<call, bucketVars, replayVars, cacheVars, statVars, nsecVars, nsec3Vars,
                       publicVars>>

MCSpec ==
  MCInit /\ [][MCNext]_<<which, clock, call, bucketVars, replayVars, cacheVars, statVars, nsecVars,
                        nsec3Vars, publicVars, cryptVars>>

\* Every table stays within its cap: token buckets, replay caches, cache, statistics,
\* NSEC and NSEC3 indexes; and the statistics leave a walk a root to start from.
TablesBounded ==
  CASE which = "TokenBucket" -> Bounded
    [] which = "SlowBucket" -> S!Bounded
    [] which = "ReplayCache" -> R!Bounded
    [] which = "MemoryCache" -> C!Bounded
    [] which = "Upstreams" -> U!Bounded /\ U!AlwaysRoots
    [] which = "NSECIndex" -> N!IndexBounded
    [] which = "NSEC3Index" -> H!IndexBounded
    [] OTHER -> TRUE

\* TokenBucket: no source gets more than its burst and its rate allow, and a bucket
\* dropped as idle was full, unless it is one of the response limiter for a class
\* that has not the largest rate.
RatesHeld ==
  CASE which = "TokenBucket" -> RateHeld /\ IdleIsFull
    [] which = "SlowBucket" -> S!RateHeld /\ S!IdleIsFull
    [] OTHER -> TRUE

\* ReplayCache: no message is accepted twice within the window; and DNSCrypt: a
\* datagram the network repeats is handled once within it.
ReplaysCaught ==
  CASE which = "ReplayCache" -> R!ReplaysCaught [] which = "DNSCrypt" -> D!HandledOnce [] OTHER -> TRUE

\* MemoryCache: a Get deletes only what has expired.
FreshKept == C!FreshKept

\* NSECIndex and NSEC3Index: a denial made up from cached records is one the zone
\* would give, opt-out and a change of the NSEC3 parameters included.
DenialSound ==
  CASE which = "NSECIndex" -> N!DenialSound [] which = "NSEC3Index" -> H!DenialSound [] OTHER -> TRUE

\* PublicStack: a client that keeps its address is told BADCOOKIE only for a cookie
\* that is too old or made two rotations ago.
FreshCookieAccepted ==
  [][CASE which = "PublicStack" -> P!CookieAccepted [] which = "PublicNames" -> Q!CookieAccepted
       [] OTHER -> TRUE]_<<clock, publicVars>>

\* PublicStack: little goes out to an address that has shown nothing.
ReflectsLittle ==
  [][CASE which = "PublicStack" -> P!LittleReflected [] which = "PublicNames" -> Q!LittleReflected
       [] OTHER -> TRUE]_<<clock, publicVars>>

\* DNSCrypt: a reply opens with the certificate its client asked with, and nothing is
\* handled once Done is closed.
RepliesOpen == which = "DNSCrypt" => D!RepliesOpen /\ D!DoneIsFinal

\* NSECIndex on its own.
NSECSpec == MCSpec /\ which = "NSECIndex"

Symmetry == Permutations(Sources) \cup Permutations(CookieServers)
=============================================================================
