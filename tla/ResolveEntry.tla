----------------------------- MODULE ResolveEntry -----------------------------
(* What clients of the recursive resolver get, recursive/recursive.go:       *)
(* ServeDNS, ResolveEntry and the CNAME chase of resolveDepthFollow over a   *)
(* shared cache.  The type of a query stays the same along its chase and the *)
(* class is IN, so a name is a cache key; the type is not CNAME, for which   *)
(* nothing is chased.  A leg ends with what resolveDepth returns; the walks  *)
(* behind it are the subject of Recursive.                                   *)
EXTENDS Integers, Sequences

CONSTANTS
  Clients,        \* ServeDNS goroutines, one query at a time each
  QNames,         \* names, in the one type asked for
  Answers,        \* the terminal answers authoritative servers may give
  MaxCNAMEs,      \* config.maxCNAMEs
  AggressiveNSEC, \* config.aggressiveNSEC
  AllowNoRD,      \* config.allowNoRD
  None

\* An answer has records of the asked type at the owner, a CNAME there (with or
\* without records further along), or nothing; ad is the AD bit it came with.
Kinds == {"data", "alias", "absent"}
AnswerType == [kind : Kinds, to : QNames \cup {None}, ad : BOOLEAN]
EntryType == [kind : Kinds, to : QNames \cup {None}, ad : BOOLEAN, q : QNames]

ASSUME ResolveEntryAssumption ==
  /\ None \notin QNames /\ Answers \subseteq AnswerType
  /\ \A a \in Answers : a.kind = "alias" <=> a.to # None
  /\ MaxCNAMEs \in Nat \ {0}
  /\ AggressiveNSEC \in BOOLEAN /\ AllowNoRD \in BOOLEAN

VARIABLES
  validating,  \* WithValidator was given
  pc,     \* each client: idle, follow, validate, done
  asked,  \* the name it asks for
  cur,    \* the name of the leg under way
  legs,   \* aggregated: the entries of the legs so far
  reply,  \* the response ServeDNS writes
  cache,  \* Recursive.cache
  denied  \* names that nsecIdx and nsec3Idx prove absent

clientVars == <<pc, asked, cur, legs, reply>>
vars == <<validating, clientVars, cache, denied>>

\* What ServeDNS answers: an error, or the entries with an AD bit; hit tells a
\* response straight from the cache.
ReplyType ==
  [rcode : {"FormErr", "NotImp", "Refused", "ServFail"}] \cup
  [rcode : {"entry"}, ans : Seq(EntryType), ad : BOOLEAN, hit : BOOLEAN]

Init ==
  /\ validating \in BOOLEAN
  /\ pc = [r \in Clients |-> "idle"]
  /\ asked = [r \in Clients |-> None]
  /\ cur = [r \in Clients |-> None]
  /\ legs = [r \in Clients |-> <<>>]
  /\ reply = [r \in Clients |-> None]
  /\ cache = [n \in QNames |-> None]
  /\ denied = {}
-----------------------------------------------------------------------------
Write(r, m) ==
  /\ pc' = [pc EXCEPT ![r] = "done"]
  /\ reply' = [reply EXCEPT ![r] = m]

\* The gates of ServeDNS before it resolves.
Gate(q) ==
  IF ~q.question THEN "FormErr"
  ELSE IF ~q.in THEN "NotImp"
  ELSE IF ~q.rd /\ ~AllowNoRD THEN "Refused" ELSE "ok"

Queries == [question : BOOLEAN, in : BOOLEAN, rd : BOOLEAN]

Refuse(r, q) ==
  /\ pc[r] = "idle" /\ Gate(q) # "ok"
  /\ Write(r, [rcode |-> Gate(q)])
  /\ UNCHANGED <<asked, cur, legs, cache, denied>>

\* A cached entry is returned as it is.
ResolveHit(r, q, n) ==
  /\ pc[r] = "idle" /\ Gate(q) = "ok" /\ cache[n] # None
  /\ asked' = [asked EXCEPT ![r] = n]
  /\ Write(r, [rcode |-> "entry", ans |-> <<cache[n]>>, ad |-> cache[n].ad,
               hit |-> TRUE])
  /\ UNCHANGED <<cur, legs, cache, denied>>

ResolveMiss(r, q, n) ==
  /\ pc[r] = "idle" /\ Gate(q) = "ok" /\ cache[n] = None
  /\ asked' = [asked EXCEPT ![r] = n]
  /\ cur' = [cur EXCEPT ![r] = n]
  /\ pc' = [pc EXCEPT ![r] = "follow"]
  /\ UNCHANGED <<legs, reply, cache, denied>>
-----------------------------------------------------------------------------
(* resolveDepthFollow: what it does with the entry of a leg. *)

\* pickCNAMETarget finds a target and hasTypeAt no record of the type.
HasTarget(e) == e.kind = "alias"

\* cnameSeen or maxCNAMEs stops the chase.
Loops_Unseen(s, n) == Len(s) >= MaxCNAMEs
Loops(s, n) == Len(s) >= MaxCNAMEs \/ \E i \in 1 .. Len(s) : s[i].q = n

\* recordsAt keeps what the leg says of its own name; an alias sends the chase
\* to its target, whose records are resolved afresh.
Follow(r, e) ==
  LET s == Append(legs[r], e)
  IN  /\ pc[r] = "follow"
      /\ \/ /\ HasTarget(e) /\ Loops(s, e.to)
            /\ Write(r, [rcode |-> "ServFail"])
            /\ UNCHANGED <<cur, legs>>
         \/ /\ HasTarget(e) /\ ~Loops(s, e.to)
            /\ legs' = [legs EXCEPT ![r] = s]
            /\ cur' = [cur EXCEPT ![r] = e.to]
            /\ UNCHANGED <<pc, reply>>
         \/ /\ ~HasTarget(e) /\ validating
            /\ legs' = [legs EXCEPT ![r] = s]
            /\ pc' = [pc EXCEPT ![r] = "validate"]
            /\ UNCHANGED <<cur, reply>>
         \/ /\ ~HasTarget(e) /\ ~validating
            /\ legs' = [legs EXCEPT ![r] = s]
            /\ Write(r, [rcode |-> "entry", ans |-> s, ad |-> s[1].ad,
                         hit |-> FALSE])
            /\ UNCHANGED cur
      /\ UNCHANGED asked

\* MemoryCache.Put.
Put(n, e) == cache' = [cache EXCEPT ![n] = e]

\* entryFromResponse: AD is kept only with a validator.
entryFromResponse(n, a) ==
  [kind |-> a.kind, to |-> a.to, ad |-> a.ad /\ validating, q |-> n]

LegCached(r) ==
  /\ cur[r] # None /\ cache[cur[r]] # None
  /\ Follow(r, cache[cur[r]])
  /\ UNCHANGED <<cache, denied>>

\* synthesiseFromNSEC, synthesiseFromNSEC3.
LegDenied(r) ==
  LET e == [kind |-> "absent", to |-> None, ad |-> TRUE, q |-> cur[r]]
  IN  /\ cur[r] # None /\ cache[cur[r]] = None /\ cur[r] \in denied
      /\ Put(cur[r], e)
      /\ Follow(r, e)
      /\ UNCHANGED denied

\* A walk ends and puts its entry; the client receives it then, or later, when
\* other walks have put others.
LegWalked(r, a, now) ==
  /\ cur[r] # None
  /\ IF now THEN Put(cur[r], entryFromResponse(cur[r], a)) ELSE UNCHANGED cache
  /\ Follow(r, entryFromResponse(cur[r], a))
  /\ UNCHANGED denied

\* The walk fails or the client's context ends.
LegFails(r) ==
  /\ pc[r] = "follow"
  /\ Write(r, [rcode |-> "ServFail"])
  /\ UNCHANGED <<asked, cur, legs, cache, denied>>

\* A walk no client waits for any more, or one for a nameserver.
WalkElsewhere(n, a) ==
  /\ Put(n, entryFromResponse(n, a))
  /\ UNCHANGED <<clientVars, denied>>
-----------------------------------------------------------------------------
\* The validator resolves the name by itself and reports; a validated denial is
\* harvested.  An error has the effect of Bogus.
\* New refuses aggressive NSEC without a validator.
Harvest(r, ad) == AggressiveNSEC /\ validating /\ ad /\ legs[r][1].kind = "absent"

Validate(r, status) ==
  LET ad == status = "Secure" \/ legs[r][1].ad
  IN  /\ pc[r] = "validate"
      /\ \/ /\ status = "Bogus"
            /\ Write(r, [rcode |-> "ServFail"])
            /\ UNCHANGED denied
         \/ /\ status # "Bogus"
            /\ Write(r, [rcode |-> "entry", ans |-> legs[r], ad |-> ad,
                         hit |-> FALSE])
            /\ denied' = IF Harvest(r, ad) THEN denied \cup {asked[r]} ELSE denied
      /\ UNCHANGED <<asked, cur, legs, cache>>

Return(r) ==
  /\ pc[r] = "done"
  /\ pc' = [pc EXCEPT ![r] = "idle"]
  /\ asked' = [asked EXCEPT ![r] = None]
  /\ cur' = [cur EXCEPT ![r] = None]
  /\ legs' = [legs EXCEPT ![r] = <<>>]
  /\ reply' = [reply EXCEPT ![r] = None]
  /\ UNCHANGED <<cache, denied>>

\* TTLs run out; the cache and the indexes evict.
Expire(n) ==
  \/ cache' = [cache EXCEPT ![n] = None] /\ UNCHANGED <<clientVars, denied>>
  \/ denied' = denied \ {n} /\ UNCHANGED <<clientVars, cache>>

ClientStep(r) ==
  \/ \E q \in Queries :
       Refuse(r, q) \/ \E n \in QNames : ResolveHit(r, q, n) \/ ResolveMiss(r, q, n)
  \/ LegCached(r) \/ LegDenied(r) \/ LegFails(r)
  \/ \E a \in Answers, now \in BOOLEAN : LegWalked(r, a, now)
  \/ \E s \in {"Secure", "Insecure", "Bogus"} : Validate(r, s)
  \/ Return(r)

Next ==
  /\ \/ \E r \in Clients : ClientStep(r)
     \/ \E n \in QNames : Expire(n) \/ \E a \in Answers : WalkElsewhere(n, a)
  /\ UNCHANGED validating

Spec == Init /\ [][Next]_vars
-----------------------------------------------------------------------------
(* Properties. *)

\* Every variable has the type of the field it models, and a leg has a name.
TypeOK ==
  /\ validating \in BOOLEAN
  /\ pc \in [Clients -> {"idle", "follow", "validate", "done"}]
  /\ asked \in [Clients -> QNames \cup {None}]
  /\ cur \in [Clients -> QNames \cup {None}]
  /\ \A r \in Clients : pc[r] = "follow" => cur[r] \in QNames
  /\ \A r \in Clients : legs[r] \in Seq(EntryType)
  /\ \A r \in Clients : reply[r] # None => reply[r] \in ReplyType
  /\ cache \in [QNames -> EntryType \cup {None}]
  /\ denied \in SUBSET QNames

Served(r) == pc[r] = "done" /\ reply[r].rcode = "entry"

\* A resolved reply is one chain: it starts at the name asked for, each leg
\* answers the name the leg before points to, no name comes twice, it has at
\* most maxCNAMEs legs and the last is no alias, however the cache changed
\* between the legs.
ChainIntact ==
  \A r \in Clients : Served(r) /\ ~reply[r].hit =>
    LET s == reply[r].ans IN
    /\ s[1].q = asked[r] /\ Len(s) <= MaxCNAMEs /\ s[Len(s)].kind # "alias"
    /\ \A i \in 2 .. Len(s) : s[i].q = s[i - 1].to
    /\ \A i, j \in 1 .. Len(s) : i # j => s[i].q # s[j].q

\* Without a validator no reply claims authenticated data: the AD bits that
\* servers send are dropped on the way into the cache.
NoADWithoutValidator ==
  \A r \in Clients : Served(r) /\ reply[r].ad => validating

\* The legs of a chase that was served are a chain from the name asked for to an
\* answer (resolveDepthFollow), and without a validator no reply claims authenticated
\* data (entryFromResponse).
RepliesWhole == ChainIntact /\ NoADWithoutValidator

\* The entry behind a reply straight from the cache is a whole answer: CNAME
\* chains are followed for it as they are for a fresh resolution.
HitsChased ==
  \A r \in Clients : Served(r) /\ reply[r].hit => reply[r].ans[1].kind # "alias"
=============================================================================
