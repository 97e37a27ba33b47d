------------------------------ MODULE Bailiwick ------------------------------
(* What the resolver and the forwarder keep of a response: the filters of    *)
(* recursive/recursive.go and forward/bailiwick.go, the servers a referral   *)
(* gives, and the records the stub resolver takes for an answer              *)
(* (resolver.go, MatchAnswers).  A name is its sequence of labels from the   *)
(* root, a record its owner, type and, for CNAME and NS, its target.         *)
EXTENDS Integers, FiniteSets, Sequences, SequencesExt

IsRoot(n) == n = <<>>
inBailiwick(ancestor, n) == IsPrefix(ancestor, n)
isAtOrAbove(ancestor, n) == IsPrefix(ancestor, n)

Owned(recs, n, types) == SelectSeq(recs, LAMBDA r : r.name = n /\ r.type \in types)
Targets(recs, type) == {recs[i].target : i \in {j \in DOMAIN recs : recs[j].type = type}}
-----------------------------------------------------------------------------
(* Aliases in an answer section. *)

\* The names reachable from q through the section's CNAMEs.
Chain(q, ans) ==
  LET reach[n \in 0 .. Len(ans)] ==
        IF n = 0 THEN {q}
        ELSE reach[n - 1] \cup
             {ans[i].target : i \in {j \in DOMAIN ans : ans[j].type = "CNAME"
                                                        /\ ans[j].name \in reach[n - 1]}}
  IN  reach[Len(ans)]

pickCNAMETarget(ans, n) ==
  LET c == Owned(ans, n, {"CNAME"}) IN IF c = <<>> THEN n ELSE c[1].target

maxHops == 8

\* MatchAnswers: the first CNAME of each name is followed, maxHops times at most.
MatchAnswers(ans, q, t) ==
  LET at[n \in 0 .. maxHops] ==
        IF n = 0 \/ t = "CNAME" THEN q ELSE pickCNAMETarget(ans, at[n - 1])
  IN  Owned(ans, at[maxHops], {t})

hasAnswerFor(ans, n, t) == Owned(ans, n, {t, "CNAME"}) # <<>>
-----------------------------------------------------------------------------
(* The forwarder's filter. *)

Referenced(ans, auth) == Targets(ans, "CNAME") \cup Targets(auth, "NS")

filterBailiwick(q, m) ==
  LET ans == SelectSeq(m.ans, LAMBDA r : r.name \in Chain(q, m.ans))
      auth == SelectSeq(m.auth, LAMBDA r : isAtOrAbove(r.name, q) /\ (IsRoot(r.name) => IsRoot(q)))
      add == SelectSeq(m.add, LAMBDA r : r.type = "OPT" \/ r.name \in Referenced(ans, auth))
  IN  [ans |-> ans, auth |-> auth, add |-> add]
-----------------------------------------------------------------------------
(* The resolver's filter. *)

isDNSSECDenialType(t) == t \in {"NSEC", "NSEC3", "RRSIG"}

\* The zones whose denials are let in: the owner of the first SOA, if it encloses q.
SoaOwner(q, auth) ==
  LET soa == SelectSeq(auth, LAMBDA r : r.type = "SOA")
  IN  {soa[i].name : i \in {j \in DOMAIN soa : j = 1 /\ inBailiwick(soa[1].name, q)
                                               /\ (IsRoot(soa[1].name) => IsRoot(q))}}

\* deepestAncestor: the deepest owner of the section at or above q; none: {}.
deepestAncestor(auth, q) ==
  LET up == {auth[i].name : i \in {j \in DOMAIN auth : inBailiwick(auth[j].name, q)}}
  IN  {n \in up : \A m \in up : Len(m) <= Len(n)}

bailiwickFilter(q, m) ==
  LET ans == SelectSeq(m.ans, LAMBDA r : r.name \in Chain(q, m.ans))
      auth == SelectSeq(m.auth, LAMBDA r :
                /\ IsRoot(r.name) => IsRoot(q)
                /\ \/ inBailiwick(r.name, q)
                   \/ \E z \in SoaOwner(q, m.auth) : isDNSSECDenialType(r.type) /\ inBailiwick(z, r.name))
      add == SelectSeq(m.add, LAMBDA r :
               r.type = "OPT" \/ (/\ r.name \in Referenced(ans, auth)
                                  /\ \A z \in deepestAncestor(auth, q) : inBailiwick(z, r.name)))
  IN  [ans |-> ans, auth |-> auth, add |-> add]
-----------------------------------------------------------------------------
(* Referrals. *)

\* referralZone: the owner of the first NS record; none: {}.
referralZone(auth) ==
  LET ns == SelectSeq(auth, LAMBDA r : r.type = "NS") IN IF ns = <<>> THEN {} ELSE {ns[1].name}

glueFor(target, add, zone) ==
  SelectSeq(Owned(add, target, {"A", "AAAA"}), LAMBDA r : inBailiwick(zone, r.name))

\* serversFromReferral: the glue, or the nameservers that have to be resolved.
serversFromReferral(m) ==
  LET zone == referralZone(m.auth)
      targets == UNION {Targets(Owned(m.auth, z, {"NS"}), "NS") : z \in zone}
      Glued(n) == UNION {IF inBailiwick(z, n) THEN ToSet(glueFor(n, m.add, z)) ELSE {} : z \in zone}
      glued == UNION {Glued(n) : n \in targets}
  IN  IF glued # {} THEN [glue |-> glued, chase |-> {}]
      ELSE [glue |-> {}, chase |-> targets]
-----------------------------------------------------------------------------
(* Properties, of a question q and a response m. *)

\* The filters drop nothing an answer needs and settle at once: the stub resolver
\* matches the same records before and after, both keep the same answers, of the
\* authority section the forwarder keeps what the resolver does but for denials
\* owned aside, and a filtered response is left alone by its filter.
FilteredAlike(q, t, m) ==
  LET f == filterBailiwick(q, m)
      r == bailiwickFilter(q, m)
  IN  /\ f.ans = r.ans /\ MatchAnswers(f.ans, q, t) = MatchAnswers(m.ans, q, t)
      /\ f.auth = SelectSeq(r.auth, LAMBDA x : isAtOrAbove(x.name, q))
      /\ filterBailiwick(q, f) = f /\ bailiwickFilter(q, r) = r
      /\ hasAnswerFor(f.ans, q, t) <=> hasAnswerFor(m.ans, q, t)

\* An address of a referral is asked only for a nameserver the delegation names,
\* within the zone it delegates; a nameserver with such an address is not chased.
ReferralSafe(m) ==
  LET s == serversFromReferral(m)
      NamedBy(n) == {i \in DOMAIN m.auth : m.auth[i].type = "NS" /\ m.auth[i].target = n}
  IN  /\ \A g \in s.glue : \E i \in NamedBy(g.name) : inBailiwick(m.auth[i].name, g.name)
      /\ s.glue # {} => s.chase = {}
=============================================================================
