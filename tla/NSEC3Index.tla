----------------------------- MODULE NSEC3Index -----------------------------
(* Aggressive use of validated NSEC3 records                                 *)
(* (recursive/aggressive_nsec3.go).  The hash is a constant function (SHA-1  *)
(* is external) for each set of parameters; the signed zone is the           *)
(* environment and may change its parameters.  A name is the sequence of its *)
(* labels from the root.                                                     *)
EXTENDS Integers, Sequences, FiniteSets, SequencesExt

CONSTANTS
  Apexes,      \* zone apexes; one may lie below another
  Owners,      \* of each zone, the types at its names
  Unsigned,    \* of each zone, insecure delegations left out of its chain
  Params,      \* NSEC3 parameters; BadParams of them have too many iterations
  BadParams,
  Hash,        \* Hash[p][n]: a distinct number for every name
  QNames, QTypes,
  Ttl, MaxLen,
  MaxClock,    \* bound: the last moment
  Star, None

VARIABLES clock, params, zones, query, denied

vars == <<clock, params, zones, query, denied>>

Ancestors(n) == {SubSeq(n, 1, i) : i \in 0 .. Len(n)}
Deepest(S) == CHOOSE n \in S : \A m \in S : Len(m) <= Len(n)
-----------------------------------------------------------------------------
(* The zones (external). *)

Nodes(z) == UNION {{a \in Ancestors(n) : IsPrefix(z, a)} : n \in DOMAIN Owners[z]}

ZoneOf(q) == Deepest({z \in Apexes : IsPrefix(z, q)})

Exists(q) ==
  LET z == ZoneOf(q)
      e == Deepest(Ancestors(q) \cap Nodes(z))
  IN  \/ q \in Nodes(z) \/ Append(e, Star) \in DOMAIN Owners[z]
      \/ \E u \in Unsigned[z] : IsPrefix(u, q)

\* The chain's record that matches a name or covers it.
RecordFor(z, n) ==
  LET H(m) == Hash[params[z]][m]
      upto == {m \in Nodes(z) : H(m) <= H(n)}
      last(S) == CHOOSE m \in S : \A k \in S : H(k) <= H(m)
      owner == IF upto = {} THEN last(Nodes(z)) ELSE last(upto)
      after == {m \in Nodes(z) : H(m) > H(owner)}
      first(S) == CHOOSE m \in S : \A k \in S : H(m) <= H(k)
  IN  [ownerHash |-> H(owner), nextHash |-> H(IF after = {} THEN first(Nodes(z)) ELSE first(after)),
       types |-> IF owner \in DOMAIN Owners[z] THEN Owners[z][owner] ELSE {},
       optOut |-> Unsigned[z] # {}, expiresAt |-> clock + Ttl]

Longer(q, e) == SubSeq(q, 1, Len(e) + 1)

\* A denial shows the closest encloser, the next closer name and the wildcard.
Proof(z, q) ==
  LET e == Deepest(Ancestors(q) \cap Nodes(z))
  IN  {RecordFor(z, e), RecordFor(z, Longer(q, e)), RecordFor(z, Append(e, Star))}
-----------------------------------------------------------------------------
(* The index. *)

HashIntervalContains(o, x, h) == IF o < x THEN o < h /\ h < x ELSE h > o \/ h < x

Alive(e) == e.expiresAt > clock

Total(Z) == Cardinality(UNION {{<<z, e>> : e \in Z[z].entries} : z \in DOMAIN Z})

\* Zones with no entry left are dropped.
Nonempty(Z) == [z \in {y \in DOMAIN Z : Z[y].entries # {}} |-> Z[z]]

sweepExpiredLocked(Z) ==
  Nonempty([z \in DOMAIN Z |-> [Z[z] EXCEPT !.entries = {e \in @ : Alive(e)}]])

evictSoonestLocked(Z) ==
  LET all == UNION {{<<z, e>> : e \in Z[z].entries} : z \in DOMAIN Z}
      soonest == {p \in all : \A r \in all : p[2].expiresAt <= r[2].expiresAt}
  IN  IF all = {} THEN {Z}
      ELSE {Nonempty([Z EXCEPT ![p[1]].entries = @ \ {p[2]}]) : p \in soonest}

Entries(Z, z) == IF z \in DOMAIN Z THEN Z[z].entries ELSE {}

Put(Z, z, p, e) ==
  [y \in DOMAIN Z \cup {z} |->
     IF y = z THEN [params |-> p, entries |-> Entries(Z, z) \cup {e}] ELSE Z[y]]

\* Insert: other parameters reset the zone's bucket; at the cap the expired go,
\* then the entry that expires first.
Reset(Z, z, p) ==
  IF (IF z \in DOMAIN Z THEN Z[z].params = p ELSE FALSE) THEN Z
  ELSE [y \in DOMAIN Z \cup {z} |-> IF y = z THEN [params |-> p, entries |-> {}] ELSE Z[y]]

\* The sweep drops a bucket that was only just made; what is then added to it is
\* lost, unless the sweep did not suffice.
Insert(Z, z, p, e) ==
  LET Z0 == Reset(Z, z, p)
      same == {f \in Z0[z].entries : f.ownerHash = e.ownerHash}
      full(Y) == MaxLen > 0 /\ Total(Y) >= MaxLen
      Z1 == sweepExpiredLocked(Z0)
  IN  IF p \in BadParams THEN {Z}
      ELSE IF same # {} THEN {Put([Z0 EXCEPT ![z].entries = @ \ same], z, p, e)}
      ELSE IF ~full(Z0) THEN {Put(Z0, z, p, e)}
      ELSE IF full(Z1) THEN {Put(Y, z, p, e) : Y \in evictSoonestLocked(Z1)}
      ELSE IF z \in DOMAIN Z1 THEN {Put(Z1, z, p, e)} ELSE {Z1}

RECURSIVE InsertAll(_, _, _, _)
InsertAll(Zs, z, p, es) ==
  IF es = <<>> THEN Zs
  ELSE InsertAll(UNION {Insert(Z, z, p, Head(es)) : Z \in Zs}, z, p, Tail(es))

match(z, n) ==
  {e \in zones[z].entries : e.ownerHash = Hash[zones[z].params][n] /\ Alive(e)}

cover(z, n) ==
  {e \in zones[z].entries :
     Alive(e) /\ ~e.optOut
       /\ HashIntervalContains(e.ownerHash, e.nextHash, Hash[zones[z].params][n])}

closestEncloserProof(z, q) ==
  LET matched == {a \in Ancestors(q) : match(z, a) # {}}
      e == Deepest(matched)
  IN  /\ matched # {}
      /\ IF matched = {} THEN FALSE
         ELSE e # q /\ cover(z, Longer(q, e)) # {} /\ cover(z, Append(e, Star)) # {}

Lookup(z, q, t) ==
  IF z \notin DOMAIN zones THEN "none"
  ELSE IF \E e \in match(z, q) : e.types \cap {t, "CNAME"} = {} THEN "NoData"
  ELSE IF closestEncloserProof(z, q) THEN "NXDOMAIN" ELSE "none"
-----------------------------------------------------------------------------
Init ==
  /\ clock = 0 /\ params \in [Apexes -> Params]
  /\ zones = [z \in {} |-> None] /\ query = None /\ denied = None

\* extractValidatedNSEC3s and Insert, for a validated denial.
Harvest(q) ==
  /\ ~Exists(q)
  /\ LET z == ZoneOf(q)
     IN  zones' \in InsertAll({zones}, z, params[z], SetToSeq(Proof(z, q)))
  /\ UNCHANGED <<clock, params, query, denied>>

\* synthesiseFromNSEC3, under the read lock: the deepest zone above the name with
\* records.
FindZone(q, t) ==
  /\ query = None
  /\ LET known == {a \in Ancestors(q) : a \in DOMAIN zones}
     IN  known # {} /\ query' = [at |-> "found", zone |-> Deepest(known), name |-> q, type |-> t]
  /\ UNCHANGED <<clock, params, zones, denied>>

\* Lookup, under the read lock again.
Prove ==
  /\ query # None /\ query.at = "found"
  /\ LET kind == Lookup(query.zone, query.name, query.type)
     IN  query' = IF kind = "none" THEN None
                  ELSE [at |-> "proved", zone |-> query.zone, name |-> query.name,
                        type |-> query.type, kind |-> kind]
  /\ UNCHANGED <<clock, params, zones, denied>>

\* The answer is built from the zone's parameters, read without the lock; the zone
\* may have been dropped.
Build ==
  /\ query # None /\ query.at = "proved"
  /\ denied' = [name |-> query.name, type |-> query.type,
                kind |-> IF query.zone \in DOMAIN zones THEN query.kind ELSE "panic"]
  /\ query' = None
  /\ UNCHANGED <<clock, params, zones>>

SweepExpired ==
  /\ zones' = sweepExpiredLocked(zones)
  /\ UNCHANGED <<clock, params, query, denied>>

\* A zone is signed anew with other parameters.
Resign(z, p) ==
  /\ params[z] # p /\ params' = [params EXCEPT ![z] = p]
  /\ UNCHANGED <<clock, zones, query, denied>>

Tick ==
  /\ clock < MaxClock /\ clock' = clock + 1
  /\ UNCHANGED <<params, zones, query, denied>>

Next ==
  \/ \E q \in QNames : Harvest(q) \/ \E t \in QTypes : FindZone(q, t)
  \/ Prove \/ Build \/ SweepExpired \/ Tick
  \/ \E z \in Apexes, p \in Params : Resign(z, p)

Spec == Init /\ [][Next]_vars
-----------------------------------------------------------------------------
(* Properties. *)

\* A denial made up from cached NSEC3 records is one the zone would give, also
\* after it changed its parameters; an opt-out interval denies nothing.
DenialSound ==
  denied # None =>
    /\ denied.kind = "NXDOMAIN" => ~Exists(denied.name)
    /\ denied.kind = "NoData" =>
         LET z == ZoneOf(denied.name) IN
           denied.name \in Nodes(z)
             /\ (denied.name \in DOMAIN Owners[z] => denied.type \notin Owners[z][denied.name])

\* The index stays within its cap, and a bucket's entries have one owner hash each.
IndexBounded ==
  /\ MaxLen > 0 => Total(zones) <= MaxLen
  /\ \A z \in DOMAIN zones : \A e, f \in zones[z].entries : e.ownerHash = f.ownerHash => e = f
=============================================================================
