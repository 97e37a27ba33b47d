------------------------------- MODULE Walker -------------------------------
(* The DNSSEC validator (dnssec/validator/walker.go, nta.go): the walk from  *)
(* a trust anchor down to the question's name, one lookup per step, while    *)
(* an operator changes the negative trust anchors.  The signed and unsigned  *)
(* zones are the environment; on the way to the validator one response may   *)
(* lose a record or a signature, or have its response code changed.          *)
(*                                                                           *)
(* The first half is what the validator checks in one response               *)
(* (dnssec/verify.go, dnssec/canonical.go, walker.go and nsec3.go):          *)
(* signatures over RRsets, the DNSKEY RRset of a zone, and denials by NSEC   *)
(* and NSEC3.                                                                *)
(* A name is the sequence of its labels from the root, a label a number      *)
(* (Star, the lowest, for "*").  An RRset is [name, type, data, sigs], its   *)
(* data a set; a signature names its key, and what that key signed: the      *)
(* digital signatures and digests themselves are external.  A message is     *)
(* [rcode, ans, auth], its sections sets of RRsets.                          *)
EXTENDS Integers, Sequences, FiniteSets, SequencesExt

CONSTANTS
  Star,          \* the wildcard label
  Hash,          \* NSEC3's hash of each name: a distinct number
  Rejected,      \* signature algorithms that are refused
  MaxNSEC3Iterations,
  maxRRSIGsTry, maxKeys, maxAlgs,
  Skew, TimeMod, \* tolerated clock skew; the modulus of signature times
  None

Deepest(S) == CHOOSE n \in S : \A m \in S : Len(m) <= Len(n)
Ancestors(n) == {SubSeq(n, 1, i) : i \in 0 .. Len(n)}
-----------------------------------------------------------------------------
(* Names. *)

LongestCommonAncestor(a, b) == Deepest(Ancestors(a) \cap Ancestors(b))

CanonicalLess(a, b) ==
  LET n == Len(LongestCommonAncestor(a, b))
  IN  IF n < Len(a) /\ n < Len(b) THEN a[n + 1] < b[n + 1] ELSE Len(a) < Len(b)

NameCoveredBy(n, owner, next) ==
  IF CanonicalLess(owner, next)
    THEN CanonicalLess(owner, n) /\ CanonicalLess(n, next)
    ELSE CanonicalLess(owner, n) \/ CanonicalLess(n, next)

TruncateNameTo(n, k) == SubSeq(n, 1, k)
NextCloserName(n, e) == TruncateNameTo(n, Len(e) + 1)
WildcardOf(e) == Append(e, Star)
ProperlyBelow(n, a) == IsPrefix(a, n) /\ a # n
-----------------------------------------------------------------------------
(* Signatures. *)

serialLT(a, b) == (a - b) % TimeMod >= TimeMod \div 2

RRSIGValidNowWithSkew(s, now) ==
  /\ ~serialLT((now + Skew) % TimeMod, s.inception)
  /\ ~serialLT(s.expiration, (now - Skew) % TimeMod)

validateDNSKEY(k) == k.protocol = 3 /\ ~k.revoked /\ k.zoneKey

\* A signature with fewer labels than the owner was made over a wildcard.
canonicalOwner(n, labels) ==
  IF labels > 0 /\ labels < Len(n) THEN WildcardOf(TruncateNameTo(n, labels)) ELSE n

Verify(r, s, k) ==
  /\ validateDNSKEY(k)
  /\ s.alg \notin Rejected
  /\ s.alg = k.alg /\ s.tag = k.tag
  /\ s.by = k.id
  /\ s.over = <<canonicalOwner(r.name, s.labels), r.type, r.data>>

VerifyDS(ds, k) == validateDNSKEY(k) /\ ~ds.sha1 /\ ds.tag = k.tag /\ ds.alg = k.alg /\ ds.id = k.id

OfType(S, t) == {r \in S : r.type = t}
RecordsOfType(S, t, n) == {r \in S : r.type = t /\ r.name = n}

\* RRSIG records do not carry the owner they cover: every signature over a type
\* in the section is tried.
rrsigsForTypeAndOwner(S, t) == UNION {r.sigs : r \in OfType(S, t)}

\* The attempts made: the signatures that are in time, each with the keys whose
\* tag and algorithm it names; those of a section come in its order, which is
\* taken to be that of the owner names.
KeyAttempts(sigs, keys, now) ==
  {p \in sigs \X keys :
     RRSIGValidNowWithSkew(p[1], now) /\ p[1].tag = p[2].tag /\ p[1].alg = p[2].alg}

Before(p, q) ==
  \/ CanonicalLess(p[1].over[1], q[1].over[1])
  \/ p[1].over[1] = q[1].over[1] /\ p[1].by < q[1].by
  \/ p[1] = q[1] /\ p[2].id < q[2].id

verifyRRsetWithKeys(r, sigs, keys, now) ==
  LET at == KeyAttempts(sigs, keys, now)
  IN  \E p \in at : Verify(r, p[1], p[2]) /\ Cardinality({q \in at : Before(q, p)}) < maxRRSIGsTry

tryAlgorithm(r, sigs, keys, alg, now) ==
  verifyRRsetWithKeys(r, {s \in sigs : s.alg = alg}, keys, now)

verifyRRsetAllAlgs(r, sigs, keys, algs, now) ==
  IF algs = {} THEN verifyRRsetWithKeys(r, sigs, keys, now)
  ELSE \A a \in algs : tryAlgorithm(r, sigs, keys, a, now)

AllSigned(S, t, keys, now) ==
  \A r \in OfType(S, t) : verifyRRsetWithKeys(r, rrsigsForTypeAndOwner(S, t), keys, now)

AlgsOf(dss) == {d.alg : d \in dss}

\* The keys of a zone its DS records vouch for; {} when they do not.
fetchAndVerifyDNSKEY(zone, dss, m, now) ==
  LET sets == RecordsOfType(m.ans, "DNSKEY", zone)
      r == CHOOSE x \in sets : TRUE
      keys == {k \in r.data : validateDNSKEY(k)}
      \* each DS record picks at most one key that it matches
      sigs == rrsigsForTypeAndOwner(m.ans, "DNSKEY")
      trusted == {CHOOSE k \in keys : VerifyDS(d, k) : d \in {e \in dss : \E k \in keys : VerifyDS(e, k)}}
  IN  IF /\ sets # {}
         /\ Cardinality(r.data) <= maxKeys * 4 /\ Cardinality(keys) <= maxKeys
         /\ Cardinality(AlgsOf(dss)) <= maxAlgs
         /\ verifyRRsetWithKeys(r, sigs, trusted, now)
         /\ \A a \in AlgsOf(dss) : tryAlgorithm(r, sigs, keys, a, now)
        THEN keys ELSE {}
-----------------------------------------------------------------------------
(* NSEC.  The data of an NSEC RRset is {[next, types]}. *)

Nsec(r) == CHOOSE d \in r.data : TRUE

Covers(r, n) == NameCoveredBy(n, r.name, Nsec(r).next)

Absent(types, t) == types \cap {t, "CNAME"} = {}

validateNSECNXDomain_NoWildcard(q, keys, m, now) ==
  LET nsecs == OfType(m.auth, "NSEC")
  IN  AllSigned(m.auth, "NSEC", keys, now) /\ \E c \in nsecs : Covers(c, q)
validateNSECNXDomain(q, keys, m, now) ==
  LET nsecs == OfType(m.auth, "NSEC")
  IN  /\ AllSigned(m.auth, "NSEC", keys, now)
      /\ \E c \in nsecs :
           /\ Covers(c, q)
           /\ LET encloser == Deepest({LongestCommonAncestor(q, c.name),
                                       LongestCommonAncestor(q, Nsec(c).next)})
              IN  /\ \E r \in nsecs : Covers(r, WildcardOf(encloser))
                  /\ \A r \in nsecs : r.name # WildcardOf(encloser)

validateNoDataNSEC(q, t, keys, m, now) ==
  LET nsecs == OfType(m.auth, "NSEC")
  IN  /\ AllSigned(m.auth, "NSEC", keys, now)
      /\ \E r \in nsecs :
           \/ r.name = q /\ Absent(Nsec(r).types, t)
           \/ ProperlyBelow(q, r.name) /\ ProperlyBelow(Nsec(r).next, q)
-----------------------------------------------------------------------------
(* NSEC3.  The data of an NSEC3 RRset is                                     *)
(* {[hash, next, types, optOut, iterations]}.                                *)

HashIntervalContains(o, x, h) == IF o < x THEN o < h /\ h < x ELSE h > o \/ h < x

nsec3Match(n, S) == {Nsec(r) : r \in {x \in S : Nsec(x).hash = Hash[n]}}
nsec3Cover(n, S) == {Nsec(r) : r \in {x \in S : HashIntervalContains(Nsec(x).hash, Nsec(x).next, Hash[n])}}

\* One set of parameters for all records (the salt and the hash are the same).
extractNSEC3Params(S) == Cardinality({Nsec(r).iterations : r \in S}) = 1

\* The deepest proper ancestor, not above the zone, that a record matches.
findNSEC3ClosestEncloser(q, zone, S) ==
  LET matched == {a \in Ancestors(q) \ {q} : nsec3Match(a, S) # {} /\ (IsPrefix(zone, a) \/ ~ProperlyBelow(q, zone))}
  IN  IF matched = {} THEN None ELSE Deepest(matched)

nsec3ProveDenial(q, t, zone, S) ==
  LET params == {Nsec(r).iterations : r \in S}
      match == nsec3Match(q, S)
      encloser == findNSEC3ClosestEncloser(q, zone, S)
      nextCloser == nsec3Cover(NextCloserName(q, encloser), S)
      wild == nsec3Cover(WildcardOf(encloser), S)
      OptOut(C) == \E c \in C : c.optOut
  IN  IF ~extractNSEC3Params(S) THEN "none"
      ELSE IF \E i \in params : i > MaxNSEC3Iterations THEN "iterations"
      ELSE IF t = "DS" /\ \E x \in match : "NS" \in x.types /\ x.types \cap {"DS", "SOA"} = {}
        THEN "insecureDelegation"
      ELSE IF t = "DS" /\ \E x \in match : "DS" \notin x.types THEN "noData"
      ELSE IF t = "DS" /\ OptOut(nsec3Cover(q, S)) THEN "optOut"
      ELSE IF \E x \in match : Absent(x.types, t) THEN "noData"
      ELSE IF encloser = None THEN "none"
      ELSE IF nextCloser = {} THEN "none"
      ELSE IF OptOut(nextCloser) \/ OptOut(wild) THEN "optOut"
      ELSE IF wild # {} THEN "nxDomain"
      ELSE IF \E x \in nsec3Match(WildcardOf(encloser), S) : Absent(x.types, t) THEN "noData"
      ELSE "none"

\* Proven, or why it is not: "optOut" and "iterations" are the sentinels that
\* callers tell apart.
validateNXDomain(q, zone, keys, m, now) ==
  LET nsec3s == OfType(m.auth, "NSEC3")
      kind == nsec3ProveDenial(q, None, zone, nsec3s)
  IN  IF OfType(m.auth, "NSEC") # {}
        THEN IF validateNSECNXDomain(q, keys, m, now) THEN "nxDomain" ELSE "none"
      ELSE IF nsec3s # {} /\ AllSigned(m.auth, "NSEC3", keys, now) /\ kind \in {"nxDomain", "optOut", "iterations"}
        THEN kind ELSE "none"
-----------------------------------------------------------------------------

CONSTANTS
  Zones,         \* apex -> [keys, ds (the parent's records for it), names, denial, iterations]
  Anchors,       \* trust anchors: apex -> DS records
  Questions,     \* <<name, type>> pairs
  maxZoneCuts,
  MaxNTAEntries, DefaultNTATTL, MaxNTATTL,
  NTANames, NTATTLs,
  Signed,        \* the window of every signature: <<inception, expiration>>
  MaxClock       \* bound: the last moment

VARIABLES
  clock, ntas,   \* ntas: name -> when it expires
  pc, query,
  zone, keys, chain, dss,  \* walkChain's zone, parentKeys, chain; the DS records of a cut
  intact,        \* no response has been damaged
  answer

vars == <<clock, ntas, pc, query, zone, keys, chain, dss, intact, answer>>
walk == <<pc, query, zone, keys, chain, dss, intact, answer>>

Q == query[1]
T == query[2]
-----------------------------------------------------------------------------
(* The zones (external). *)

Cuts(z) == {c \in DOMAIN Zones : ProperlyBelow(c, z)
              /\ ~\E y \in DOMAIN Zones : ProperlyBelow(c, y) /\ ProperlyBelow(y, z)}

Owners(z) == {z} \cup DOMAIN Zones[z].names \cup Cuts(z)
Nodes(z) == {a \in UNION {Ancestors(n) : n \in Owners(z)} : IsPrefix(z, a)}

Types(z, n) ==
  IF n \in Cuts(z) THEN {"NS"} \cup (IF Zones[n].ds = {} THEN {} ELSE {"DS"})
  ELSE (IF n = z THEN {"SOA", "NS", "DNSKEY"} ELSE {})
       \cup (IF n \in DOMAIN Zones[z].names THEN DOMAIN Zones[z].names[n] ELSE {})

Data(z, n, t) ==
  CASE t = "DS" -> Zones[n].ds
    [] t = "DNSKEY" -> Zones[z].keys
    [] OTHER -> Zones[z].names[n][t]

\* The zone that answers: DS records are the parent's.
ZoneFor(q, t) == Deepest({z \in DOMAIN Zones : IsPrefix(z, q) /\ ~(t = "DS" /\ z = q)})

\* An RRset the zone signed at owner, as it appears at name n.
RRset(z, owner, n, t, data) ==
  [name |-> n, type |-> t, data |-> data,
   sigs |-> {[by |-> k.id, tag |-> k.tag, alg |-> k.alg, signer |-> z, over |-> <<owner, t, data>>,
              labels |-> Len(owner) - (IF owner # <<>> /\ Last(owner) = Star THEN 1 ELSE 0),
              inception |-> Signed[1], expiration |-> Signed[2]] : k \in Zones[z].keys}]

First(S) == CHOOSE n \in S : \A m \in S \ {n} : CanonicalLess(n, m)
Final(S) == CHOOSE n \in S : \A m \in S \ {n} : CanonicalLess(m, n)

NSECAt(z, n) ==
  LET o == Final({m \in Owners(z) : m = n \/ CanonicalLess(m, n)})
      after == {m \in Owners(z) : CanonicalLess(o, m)}
  IN  RRset(z, o, o, "NSEC", {[next |-> IF after = {} THEN z ELSE First(after), types |-> Types(z, o)]})

NSEC3At(z, n) ==
  LET optOut == Zones[z].denial = "optOut"
      hs == {Hash[m] : m \in {x \in Nodes(z) : ~(optOut /\ x \in Cuts(z) /\ Zones[x].ds = {})}}
      Low(S) == CHOOSE h \in S : \A g \in S : h <= g
      High(S) == CHOOSE h \in S : \A g \in S : h >= g
      upto == {h \in hs : h <= Hash[n]}
      o == IF upto = {} THEN High(hs) ELSE High(upto)
      after == {h \in hs : h > o}
      owner == CHOOSE m \in Nodes(z) : Hash[m] = o
  IN  RRset(z, Append(z, 100 + o), Append(z, 100 + o), "NSEC3",
            {[hash |-> o, next |-> IF after = {} THEN Low(hs) ELSE Low(after), types |-> Types(z, owner),
              optOut |-> optOut, iterations |-> Zones[z].iterations]})

Denial(z, names) ==
  IF Zones[z].keys = {} THEN {}
  ELSE {IF Zones[z].denial = "nsec" THEN NSECAt(z, n) ELSE NSEC3At(z, n) : n \in names}

Respond(q, t) ==
  LET z == ZoneFor(q, t)
      hidden == Zones[z].denial = "optOut" /\ q \in Cuts(z) /\ t = "DS" /\ Zones[q].ds = {}
      e == Deepest(Ancestors(q) \cap (IF hidden THEN Nodes(z) \ {q} ELSE Nodes(z)))
      w == WildcardOf(e)
      nextCloser == IF Zones[z].denial = "nsec" THEN {q} ELSE {NextCloserName(q, e)}
      encloser == IF Zones[z].denial = "nsec" THEN {} ELSE {e}
      M(rcode, ans, names) == [rcode |-> rcode, ans |-> ans, auth |-> Denial(z, names)]
  IN  IF q \in Nodes(z) /\ t \in Types(z, q) THEN M("NoError", {RRset(z, q, q, t, Data(z, q, t))}, {})
      ELSE IF hidden THEN M("NoError", {}, encloser \cup nextCloser)
      ELSE IF q \in Nodes(z) THEN M("NoError", {}, {q})
      ELSE IF w \in Owners(z) /\ t \in Types(z, w)
        THEN M("NoError", {RRset(z, w, q, t, Data(z, w, t))}, nextCloser)
      ELSE IF w \in Owners(z) THEN M("NoError", {}, nextCloser \cup encloser \cup {w})
      ELSE M("NXDomain", {}, nextCloser \cup encloser \cup {w})

Without(S) ==
  {S \ {r} : r \in S}
  \cup UNION {{(S \ {r}) \cup {[r EXCEPT !.sigs = @ \ {s}]} : s \in r.sigs} : r \in S}
  \cup UNION {{(S \ {r}) \cup {[r EXCEPT !.data = @ \ {d}]} : d \in r.data} : r \in {x \in S : Cardinality(x.data) > 1}}

Damaged(m) ==
  {[m EXCEPT !.ans = S] : S \in Without(m.ans)} \cup {[m EXCEPT !.auth = S] : S \in Without(m.auth)}
  \cup {[m EXCEPT !.rcode = IF @ = "NoError" THEN "NXDomain" ELSE "NoError"]}

\* What may reach the validator when it looks up t at q: the response, if any,
\* and whether all of them are still intact.
Lookup(q, t) ==
  {<<Respond(q, t), intact>>}
  \cup (IF intact THEN (Damaged(Respond(q, t)) \cup {None}) \X {FALSE} ELSE {})
-----------------------------------------------------------------------------
(* Negative trust anchors. *)

Live(now) == {n \in DOMAIN ntas : ntas[n] > now}
Keep(S) == [n \in S |-> ntas[n]]

Covered(n) == Ancestors(n) \cap Live(clock) # {}

\* Covers and Names look at live entries only; seeing an expired one makes them
\* sweep.
Sweep == ntas' = Keep(Live(clock))

AddNTA(n, ttl) ==
  LET life == IF ttl <= 0 THEN DefaultNTATTL ELSE IF ttl > MaxNTATTL THEN MaxNTATTL ELSE ttl
      full == n \notin DOMAIN ntas /\ Cardinality(DOMAIN ntas) >= MaxNTAEntries
      soonest == {v \in DOMAIN ntas : \A m \in DOMAIN ntas : ntas[v] <= ntas[m]}
  IN  \E S \in IF full THEN {DOMAIN ntas \ {v} : v \in soonest} ELSE {DOMAIN ntas} :
        ntas' = [m \in S \cup {n} |-> IF m = n THEN clock + life ELSE ntas[m]]

RemoveNTA(n) == n \in DOMAIN ntas /\ ntas' = Keep(DOMAIN ntas \ {n})
-----------------------------------------------------------------------------
(* The walk. *)

Done(result, rcode, records, reason) ==
  /\ pc' = "done"
  /\ answer' = [result |-> result, rcode |-> rcode, records |-> records, reason |-> reason]

bogus(reason) == Done("Bogus", None, {}, reason)

Step(z, dsRRs, res) == [zone |-> z, dss |-> dsRRs, res |-> res]

closestAnchor(q) ==
  LET above == {a \in DOMAIN Anchors : IsPrefix(a, q)}
  IN  IF above = {} THEN None ELSE Deepest(above)

Resolve ==
  /\ pc = "idle"
  /\ Sweep
  /\ IF Covered(Q) THEN Done("Indeterminate", None, {}, "nta") /\ UNCHANGED <<zone, dss>>
     ELSE IF closestAnchor(Q) = None
       THEN Done("Indeterminate", None, {}, "noAnchor") /\ UNCHANGED <<zone, dss>>
     ELSE /\ pc' = "keys" /\ zone' = closestAnchor(Q) /\ dss' = Anchors[closestAnchor(Q)]
          /\ UNCHANGED answer
  /\ UNCHANGED <<query, keys, chain, intact>>

\* The top of walkChain's loop, from zone z with chain c.
Continue(z, c) ==
  LET candidate == TruncateNameTo(Q, Len(z) + 1)
  IN  IF z = Q THEN pc' = "answer" /\ UNCHANGED <<answer, ntas>>
      ELSE IF Len(c) > maxZoneCuts THEN bogus("limit") /\ UNCHANGED ntas
      ELSE /\ Sweep
           /\ pc' = IF Covered(candidate) THEN "ntaAnswer" ELSE "ds"
           /\ UNCHANGED answer

\* fetchAndVerifyDNSKEY at the anchor or at a cut.
FetchKeys ==
  /\ pc = "keys"
  /\ \E d \in Lookup(zone, "DNSKEY") :
       LET m == d[1]
           found == IF m = None THEN {} ELSE fetchAndVerifyDNSKEY(zone, dss, m, clock)
       IN  /\ intact' = d[2]
           /\ IF found = {} THEN bogus("keys") /\ UNCHANGED <<keys, chain, ntas>>
              ELSE /\ keys' = found
                   /\ chain' = Append(chain, Step(zone, dss, "Secure"))
                   /\ Continue(zone, chain')
  /\ UNCHANGED <<query, zone, dss>>

classifyDSViaNSEC(c, m) ==
  LET nsecs == RecordsOfType(m.auth, "NSEC", c)
      types == Nsec(CHOOSE r \in nsecs : TRUE).types
  IN  IF ~\A r \in nsecs : verifyRRsetWithKeys(r, rrsigsForTypeAndOwner(m.auth, "NSEC"), keys, clock)
        THEN "unknown"
      ELSE IF "DS" \in types THEN "unknown"
      ELSE IF "NS" \in types /\ "SOA" \notin types THEN "insecure" ELSE "nonCut"

classifyDSViaNSEC3(c, m) ==
  LET nsec3s == OfType(m.auth, "NSEC3")
      kind == nsec3ProveDenial(c, "DS", zone, nsec3s)
  IN  IF ~AllSigned(m.auth, "NSEC3", keys, clock) THEN "unknown"
      ELSE IF kind \in {"insecureDelegation", "optOut", "iterations"} THEN "insecure"
      ELSE IF kind = "noData" THEN "nonCut" ELSE "unknown"

classifyDSResponse(c, m) ==
  LET ds == RecordsOfType(m.ans, "DS", c)
      denied == validateNXDomain(c, zone, keys, m, clock)
  IN  IF m.rcode = "NXDomain" THEN IF denied = "nxDomain" THEN "nxdomain" ELSE denied
      ELSE IF ds # {} THEN IF AllSigned(ds, "DS", keys, clock) THEN "cut" ELSE "unknown"
      ELSE IF RecordsOfType(m.auth, "NSEC", c) # {} THEN classifyDSViaNSEC(c, m)
      ELSE IF OfType(m.auth, "NSEC3") # {} THEN classifyDSViaNSEC3(c, m)
      ELSE "unknown"

DSResponse ==
  LET c == TruncateNameTo(Q, Len(zone) + 1)
  IN  /\ pc = "ds"
      /\ \E d \in Lookup(c, "DS") :
           LET m == d[1]
               outcome == IF m = None THEN "unknown" ELSE classifyDSResponse(c, m)
           IN  /\ intact' = d[2]
               /\ CASE outcome = "cut" ->
                         /\ zone' = c /\ pc' = "keys"
                         /\ dss' = (CHOOSE r \in RecordsOfType(m.ans, "DS", c) : TRUE).data
                         /\ UNCHANGED <<chain, answer, ntas>>
                    [] outcome = "insecure" ->
                         /\ chain' = Append(chain, Step(c, {}, "Insecure"))
                         /\ pc' = "insecureAnswer"
                         /\ UNCHANGED <<zone, dss, answer, ntas>>
                    [] outcome = "nonCut" -> zone' = c /\ Continue(c, chain) /\ UNCHANGED <<chain, dss>>
                    [] outcome = "nxdomain" /\ c = Q ->
                         /\ chain' = Append(chain, Step(c, {}, "Secure"))
                         /\ Done("Secure", "NXDomain", {}, None)
                         /\ UNCHANGED <<zone, dss, ntas>>
                    [] OTHER -> bogus(outcome) /\ UNCHANGED <<zone, chain, dss, ntas>>
      /\ UNCHANGED <<query, keys>>

\* The subtree is unsigned, or a trust anchor was added during the walk.
InsecureAnswer ==
  /\ pc \in {"insecureAnswer", "ntaAnswer"}
  /\ \E d \in Lookup(Q, T) :
       /\ intact' = d[2]
       /\ IF d[1] = None THEN bogus("lookup") ELSE Done("Insecure", d[1].rcode, d[1].ans, pc)
  /\ UNCHANGED <<query, zone, keys, chain, dss, ntas>>
-----------------------------------------------------------------------------
(* The answer. *)

deepestSecureZone == SelectLastInSeq(chain, LAMBDA s : s.res = "Secure")

\* RFC 6840 5.11: every algorithm the parent's DS records name must sign.
signingAlgorithms == AlgsOf(chain[SelectLastInSeq(chain, LAMBDA s : s.res = "Secure" /\ s.dss # {})].dss)

wildcardSynthLabels(sigs) == {s.labels : s \in {x \in sigs : x.labels < Len(Q)}}

\* "ok", "optOut" or "none".
validateWildcardNextCloser(labels, m) ==
  LET nsec3s == OfType(m.auth, "NSEC3")
      cover == nsec3Cover(TruncateNameTo(Q, labels + 1), nsec3s)
  IN  IF OfType(m.auth, "NSEC") # {}
        THEN IF /\ AllSigned(m.auth, "NSEC", keys, clock)
                /\ \E r \in OfType(m.auth, "NSEC") : Covers(r, Q)
               THEN "ok" ELSE "none"
      ELSE IF nsec3s = {} \/ ~AllSigned(m.auth, "NSEC3", keys, clock) THEN "none"
      ELSE IF ~extractNSEC3Params(nsec3s) \/ cover = {} THEN "none"
      ELSE IF \E c \in cover : c.optOut THEN "optOut" ELSE "ok"

ValidatePositive(r, m) ==
  LET sigs == rrsigsForTypeAndOwner(m.ans, T)
      labels == wildcardSynthLabels(sigs)
      proof == IF labels = {} THEN "ok"
               ELSE validateWildcardNextCloser(CHOOSE l \in labels : \A k \in labels : l <= k, m)
  IN  IF ~verifyRRsetAllAlgs(r, sigs, keys, signingAlgorithms, clock) THEN bogus("unsigned")
      ELSE IF proof = "ok" THEN Done("Secure", m.rcode, r.data, None)
      ELSE IF proof = "optOut" THEN Done("Insecure", m.rcode, r.data, "optOut")
      ELSE bogus("wildcard")

\* The signer of the response is the zone of the chain or above it.
SignerInChain(m) ==
  \A r \in m.auth : r.sigs = {} \/ \E s \in r.sigs : IsPrefix(s.signer, chain[deepestSecureZone].zone)

validateNoData(m) ==
  LET nsec3s == OfType(m.auth, "NSEC3")
      kind == nsec3ProveDenial(Q, T, chain[deepestSecureZone].zone, nsec3s)
  IN  IF OfType(m.auth, "NSEC") # {} /\ validateNoDataNSEC(Q, T, keys, m, clock)
        THEN Done("Secure", "NoError", {}, None)
      ELSE IF nsec3s = {} \/ ~AllSigned(m.auth, "NSEC3", keys, clock) \/ ~SignerInChain(m) THEN bogus("none")
      ELSE IF kind = "noData" THEN Done("Secure", "NoError", {}, None)
      ELSE IF kind = "iterations" THEN Done("Insecure", "NoError", m.ans, kind)
      ELSE bogus(kind)

validateNegative(m) ==
  LET kind == validateNXDomain(Q, chain[deepestSecureZone].zone, keys, m, clock)
  IN  IF m.rcode # "NXDomain" THEN validateNoData(m)
      ELSE IF ~SignerInChain(m) THEN bogus("signer")
      ELSE IF kind = "nxDomain" THEN Done("Secure", "NXDomain", {}, None)
      ELSE IF kind \in {"optOut", "iterations"} THEN Done("Insecure", "NXDomain", {}, kind)
      ELSE bogus("none")

AnswerResponse ==
  /\ pc = "answer"
  /\ \E d \in Lookup(Q, T) :
       LET m == d[1]
           matching == RecordsOfType(m.ans, T, Q)
       IN  /\ intact' = d[2]
           /\ IF m = None THEN bogus("lookup")
              ELSE IF m.rcode = "NoError" /\ m.ans # {}
                THEN IF matching = {} THEN validateNoData(m) ELSE \E r \in matching : ValidatePositive(r, m)
              ELSE validateNegative(m)
  /\ UNCHANGED <<query, zone, keys, chain, dss, ntas>>
-----------------------------------------------------------------------------
(* The validator's stand-alone checks of one RRset and one delegation. *)

ValidateRRset(r, sigs, ks) ==
  IF Covered(r.name) THEN "Indeterminate"
  ELSE IF \E p \in KeyAttempts(sigs, ks, clock) : Verify(r, p[1], p[2]) THEN "Secure" ELSE "Bogus"

VerifyDelegation(owner, dsRecords, ks) ==
  IF Covered(owner) THEN "Indeterminate"
  ELSE IF dsRecords = {} THEN "Insecure"
  ELSE IF \E d \in dsRecords, k \in ks : VerifyDS(d, k) THEN "Secure" ELSE "Bogus"
-----------------------------------------------------------------------------
Operator ==
  /\ \E n \in NTANames : RemoveNTA(n) \/ \E ttl \in NTATTLs : AddNTA(n, ttl)
  /\ UNCHANGED <<clock, walk>>

Names == Sweep /\ UNCHANGED <<clock, walk>>

Tick == clock < MaxClock /\ clock' = clock + 1 /\ UNCHANGED <<ntas, walk>>

Init ==
  /\ clock = 0 /\ ntas = << >> /\ pc = "idle" /\ query \in Questions
  /\ zone = None /\ keys = {} /\ chain = << >> /\ dss = {} /\ intact = TRUE /\ answer = None

Next ==
  \/ (Resolve \/ FetchKeys \/ DSResponse \/ InsecureAnswer \/ AnswerResponse) /\ UNCHANGED clock
  \/ Operator \/ Names \/ Tick

Spec == Init /\ [][Next]_vars
-----------------------------------------------------------------------------
\* A zone on the way to the question that promises no signature for it.
NotSigned ==
  \E z \in DOMAIN Zones :
    IsPrefix(z, Q) /\ (Zones[z].keys = {} \/ Zones[z].denial = "optOut" \/ Zones[z].iterations > MaxNSEC3Iterations)

Plain == \A a \in Ancestors(Q) : \E z \in DOMAIN Zones : a \in Owners(z)

\* Whatever the responses lost on the way (Resolve, walkChain): an answer called
\* Secure is what the zone says, be it records, no such type or no such name,
\* and an answer is called Insecure only below a zone that is not signed, or
\* whose denials prove nothing, or under a negative trust anchor; and records
\* that arrive whole and in time are not called Bogus, if every name above them
\* owns records.  The stand-alone checks do not contradict a Secure walk.
VerdictTrue ==
  pc = "done" =>
    LET m == Respond(Q, T) IN
    /\ answer.result = "Secure" =>
         answer.rcode = m.rcode /\ answer.records = UNION {r.data : r \in m.ans}
    /\ answer.result = "Insecure" => NotSigned \/ answer.reason = "ntaAnswer"
    /\ answer.result = "Bogus" /\ intact /\ clock <= Signed[2] /\ Plain => m.ans = {}
    /\ answer.result = "Secure" /\ clock <= Signed[2] /\ zone \in DOMAIN Zones =>
         /\ \A r \in m.ans : ValidateRRset(r, r.sigs, keys) # "Bogus"
         /\ VerifyDelegation(zone, dss, keys) # "Bogus"
=============================================================================
