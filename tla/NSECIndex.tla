------------------------------ MODULE NSECIndex ------------------------------
(* Aggressive use of validated NSEC records (recursive/aggressive_nsec.go):  *)
(* the index, its eviction, its lookup, and the answers made from it.  The   *)
(* zone that signed the records is the environment: it stays as it is, so    *)
(* every answer made from its records should be one it would give.           *)
(* A label is a sequence of byte values, a name the sequence of its labels   *)
(* from the root down.                                                       *)
EXTENDS Integers, Sequences, FiniteSets, SequencesExt

CONSTANTS
  Apex,      \* the zone's name
  Zones,     \* the zones to check against: the types present at each owner name
  QNames, QTypes, \* what is asked for
  Ttl, MaxLen,
  MaxClock,  \* bound: the last moment
  Star,      \* the wildcard label
  None

VARIABLES zone, clock, index,
          denied     \* the last answer made up: name, type, kind, the wildcards denied

vars == <<zone, clock, index, denied>>

LexLess(s, t) ==
  \E i \in 1 .. Len(t) :
    /\ \A j \in 1 .. i - 1 : j <= Len(s) /\ s[j] = t[j]
    /\ IF i > Len(s) THEN TRUE ELSE s[i] < t[i]

Owners == DOMAIN zone
Ancestors(n) == {SubSeq(n, 1, i) : i \in 0 .. Len(n)}
-----------------------------------------------------------------------------
(* The zone (external): RFC 4034's order and what its server proves. *)

CanonicalLess(m, n) ==
  \E i \in 1 .. Len(n) :
    /\ \A j \in 1 .. i - 1 : j <= Len(m) /\ m[j] = n[j]
    /\ IF i > Len(m) THEN TRUE ELSE LexLess(m[i], n[i])

\* Owners and the empty non-terminals above them.
Nodes == UNION {Ancestors(n) : n \in Owners}

Encloser(q) ==
  CHOOSE e \in Ancestors(q) \cap Nodes : \A a \in Ancestors(q) \cap Nodes : Len(a) <= Len(e)

InZone(q) == IsPrefix(Apex, q)

Wildcard(q) == Append(Encloser(q), Star)

\* Whether the zone, or another one, may have an answer to the question.
MayAnswer(q, t) ==
  LET n == IF q \in Nodes THEN q ELSE Wildcard(q)
  IN  ~InZone(q) \/ (n \in Owners /\ zone[n] \cap {t, "CNAME"} # {})

\* The NSEC record at or before a name.
NSECAt(n) ==
  LET before == {o \in Owners : o = n \/ CanonicalLess(o, n)}
      owner == CHOOSE o \in before : \A p \in before : p = o \/ CanonicalLess(p, o)
      after == {o \in Owners : CanonicalLess(owner, o)}
  IN  [owner |-> owner, types |-> zone[owner],
       next |-> IF after = {} THEN Apex
                ELSE CHOOSE o \in after : \A p \in after : p = o \/ CanonicalLess(o, p)]

\* A validated denial: the record at the name or that covers it and, when there is
\* no such name, the one at the wildcard or that denies it.
Proof(q) == {NSECAt(q)} \cup IF q \in Nodes THEN {} ELSE {NSECAt(Wildcard(q))}
-----------------------------------------------------------------------------
(* The index. *)

canonicalKey(n) == FlattenSeq([i \in DOMAIN n |-> <<Len(n[i])>> \o n[i]]) \o <<0>>

Before(m, n) == LexLess(canonicalKey(m), canonicalKey(n))

nsecCovers(o, x, q) ==
  IF Before(o, x) THEN Before(o, q) /\ Before(q, x)
  ELSE Before(o, q) \/ Before(q, x)

Alive(e) == e.expiresAt > clock

\* The index after room was made at the cap: expired entries, then the one that
\* expires first.
Room(S) ==
  LET kept == {e \in S : Alive(e)}
      soonest == {e \in kept : \A f \in kept : e.expiresAt <= f.expiresAt}
  IN  IF MaxLen = 0 \/ Cardinality(S) < MaxLen THEN {S}
      ELSE IF Cardinality(kept) < MaxLen THEN {kept}
      ELSE {kept \ {e} : e \in soonest}

Insert(S, r) ==
  LET same == {e \in S : e.owner = r.owner}
  IN  IF same # {} THEN {(S \ same) \cup {r}} ELSE {T \cup {r} : T \in Room(S)}

\* Lookup: the last entry whose owner does not come after the name.
Candidate(q) ==
  LET upto == {e \in index : ~Before(q, e.owner)}
  IN  IF upto = {} THEN None
      ELSE CHOOSE e \in upto : \A f \in upto : f = e \/ Before(f.owner, e.owner)
Lookup_Anywhere(q, t) ==
  LET e == Candidate(q)
  IN  IF e = None THEN "none"
      ELSE IF ~Alive(e) THEN "none"
      ELSE IF e.owner = q THEN (IF e.types \cap {t, "CNAME"} = {} THEN "NoData" ELSE "none")
      ELSE IF nsecCovers(e.owner, e.next, q) THEN "NXDOMAIN" ELSE "none"
Lookup(q, t) ==
  LET e == Candidate(q)
  IN  IF e = None THEN "none"
      ELSE IF ~Alive(e) \/ ~IsPrefix(e.issuingZone, q) THEN "none"
      ELSE IF e.owner = q THEN (IF e.types \cap {t, "CNAME"} = {} THEN "NoData" ELSE "none")
      ELSE IF nsecCovers(e.owner, e.next, q) THEN "NXDOMAIN" ELSE "none"

\* The ancestors, the root excepted, whose wildcard the index denies: one is enough.
WildcardsDenied(q) ==
  {i \in 1 .. Len(q) - 1 : Lookup(Append(SubSeq(q, 1, i), Star), "ANY") = "NXDOMAIN"}

hasWildcardDenial(q) == WildcardsDenied(q) # {}
-----------------------------------------------------------------------------
Init == zone \in Zones /\ clock = 0 /\ index = {} /\ denied = None

\* extractValidatedNSECs and Insert, for the NSEC records of a negative answer
\* that was validated.
Harvest(q) ==
  /\ \E t \in QTypes : ~MayAnswer(q, t)
  /\ LET all == {[owner |-> e.owner, next |-> e.next, types |-> e.types, issuingZone |-> Apex,
                  expiresAt |-> clock + Ttl] : e \in Proof(q)}
     IN  \E e, f \in all : \E I1 \in Insert(index, e) :
           {e, f} = all /\ index' \in Insert(I1, f)
  /\ UNCHANGED <<zone, clock, denied>>

\* synthesiseFromNSEC: the denial the index supports.
synthesiseFromNSEC(q, t) ==
  /\ Lookup(q, t) # "none" /\ hasWildcardDenial(q)
  /\ denied' = [name |-> q, type |-> t, kind |-> Lookup(q, t), wildcards |-> WildcardsDenied(q)]
  /\ UNCHANGED <<zone, clock, index>>

\* RunMaintenance's sweep.
SweepExpired ==
  /\ index' = {e \in index : Alive(e)}
  /\ UNCHANGED <<zone, clock, denied>>

Tick ==
  /\ clock < MaxClock /\ clock' = clock + 1
  /\ UNCHANGED <<zone, index, denied>>

Next ==
  \/ \E q \in QNames : Harvest(q) \/ \E t \in QTypes : synthesiseFromNSEC(q, t)
  \/ SweepExpired
  \/ Tick

Spec == Init /\ [][Next]_vars
-----------------------------------------------------------------------------
(* Properties. *)

\* An answer the resolver makes up is one the zone would give: a name it denies
\* (NXDOMAIN) owns no record and no wildcard answers for it, a type it denies
\* (NoData) is not there.  Two things it does not look at (aggressive_nsec.go:190,
\* 298-315), so that lines 16-19 say too much: an empty non-terminal, which exists,
\* is denied because an interval covers it; and the wildcard whose absence it found
\* may be that of another ancestor than the closest one there is.
DenialSound ==
  denied # None =>
    IF denied.kind = "NoData" THEN ~MayAnswer(denied.name, denied.type)
    ELSE /\ InZone(denied.name) /\ denied.name \notin Owners
         /\ denied.name \notin Nodes /\ denied.wildcards \subseteq {Len(Encloser(denied.name))} =>
              Wildcard(denied.name) \notin Owners

\* The index stays within its cap and holds one record per owner.
IndexBounded ==
  /\ MaxLen > 0 => Cardinality(index) <= MaxLen
  /\ \A e, f \in index : e.owner = f.owner => e = f
=============================================================================
