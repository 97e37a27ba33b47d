-------------------------- MODULE ResolutionProofs --------------------------
(* What the recursive resolver does for a query: the chains of entries that  *)
(* its clients get, for any number of clients, names and answers and any     *)
(* limit on aliases; and the walk down the tree, for any servers and depth.  *)
EXTENDS ResolveEntry, TLAPS

\* An entry is about its own name, an alias has a target, and only a validating
\* resolver keeps an AD bit.
Sound(e, n) ==
  /\ e \in EntryType /\ e.q = n /\ (e.kind = "alias" => e.to \in QNames)
  /\ e.ad => validating

\* Legs that follow one another from a name.
Linked(s, n) ==
  /\ s \in Seq(EntryType) /\ (s # <<>> => s[1].q = n) /\ Len(s) <= MaxCNAMEs
  /\ \A i \in 2 .. Len(s) : s[i].q = s[i - 1].to
  /\ \A i, j \in 1 .. Len(s) : i # j => s[i].q # s[j].q
  /\ \A i \in 1 .. Len(s) : s[i].ad => validating

Whole(s, n) == Linked(s, n) /\ s # <<>> /\ s[Len(s)].kind # "alias"

\* Legs that lead from a name to the next one to resolve, which none was about.
Leads(s, n, c) ==
  /\ Linked(s, n) /\ Len(s) < MaxCNAMEs /\ c \in QNames
  /\ (s = <<>> => c = n) /\ (s # <<>> => s[Len(s)].to = c)
  /\ \A i \in 1 .. Len(s) : s[i].q # c

\* Where a client's query stands.
ClientInv(r) ==
  /\ pc[r] = "idle" => legs[r] = <<>>
  /\ pc[r] = "follow" => Leads(legs[r], asked[r], cur[r])
  /\ pc[r] = "validate" => validating /\ Whole(legs[r], asked[r])
  /\ Served(r) => /\ reply[r].ad => validating
                  /\ ~reply[r].hit => Whole(reply[r].ans, asked[r])

\* The cache and the denials that queries share.
SharedInv ==
  /\ validating \in BOOLEAN /\ cache \in [QNames -> EntryType \cup {None}]
  /\ \A n \in QNames : cache[n] # None => Sound(cache[n], n)
  /\ ~validating => denied = {}

ClientTypes ==
  /\ pc \in [Clients -> {"idle", "follow", "validate", "done"}]
  /\ asked = [r \in Clients |-> asked[r]] /\ cur = [r \in Clients |-> cur[r]]
  /\ legs = [r \in Clients |-> legs[r]] /\ reply = [r \in Clients |-> reply[r]]

EntryInv == SharedInv /\ ClientTypes /\ \A r \in Clients : ClientInv(r)

\* A resolver starts with nothing cached and nobody served.
LEMMA EntryInit == Init => EntryInv
BY DEF Init, EntryInv, SharedInv, ClientTypes, ClientInv, Served

\* One more leg about the name the chase has come to.
LEMMA OneMoreLeg ==
  ASSUME NEW s, NEW n, NEW c, NEW e, Leads(s, n, c), Sound(e, c)
  PROVE  /\ Linked(Append(s, e), n) /\ Append(s, e) # <<>> /\ Len(Append(s, e)) = Len(s) + 1
         /\ Append(s, e)[Len(s) + 1] = e
<1> DEFINE a == Append(s, e)
<1>1. s \in Seq(EntryType) /\ e \in EntryType /\ Len(s) \in Nat /\ MaxCNAMEs \in Nat
  BY ResolveEntryAssumption DEF Leads, Linked, Sound
<1>2. /\ a \in Seq(EntryType) /\ Len(a) = Len(s) + 1 /\ a[Len(s) + 1] = e
      /\ \A i \in 1 .. Len(s) : a[i] = s[i]
  BY <1>1
<1>3. a # <<>> /\ Len(a) <= MaxCNAMEs
  BY <1>1, <1>2 DEF Leads
<1>4. a[1].q = n
  <2>1. CASE s = <<>>
    BY <1>1, <1>2, <2>1 DEF Leads, Sound
  <2>2. CASE s # <<>>
    <3>1. Len(s) >= 1
      BY <1>1, <2>2
    <3>. QED BY <1>1, <1>2, <2>2, <3>1 DEF Leads, Linked
  <2>. QED BY <2>1, <2>2
<1>5. ASSUME NEW i \in 2 .. Len(a) PROVE a[i].q = a[i - 1].to
  <2>1. CASE i <= Len(s)
    <3>1. a[i] = s[i] /\ a[i - 1] = s[i - 1]
      BY <1>1, <1>2, <2>1
    <3>. QED BY <1>1, <2>1, <3>1 DEF Leads, Linked
  <2>2. CASE i = Len(s) + 1
    <3>1. s # <<>> /\ a[i] = e /\ a[i - 1] = s[Len(s)]
      BY <1>1, <1>2, <2>2
    <3>. QED BY <3>1 DEF Leads, Sound
  <2>. QED BY <1>1, <1>2, <2>1, <2>2
<1>6. ASSUME NEW i \in 1 .. Len(a), NEW j \in 1 .. Len(a), i # j PROVE a[i].q # a[j].q
  BY <1>1, <1>2, <1>6 DEF Leads, Linked, Sound
<1>7. ASSUME NEW i \in 1 .. Len(a) PROVE a[i].ad => validating
  BY <1>1, <1>2 DEF Leads, Linked, Sound
<1>8. Linked(a, n)
  BY <1>2, <1>3, <1>4, <1>5, <1>6, <1>7 DEF Linked
<1>. QED BY <1>2, <1>3, <1>8

\* A query's step leaves the other queries alone.
ClientFrame(r) ==
  /\ pc' = [pc EXCEPT ![r] = pc'[r]] /\ asked' = [asked EXCEPT ![r] = asked'[r]]
  /\ cur' = [cur EXCEPT ![r] = cur'[r]] /\ legs' = [legs EXCEPT ![r] = legs'[r]]
  /\ reply' = [reply EXCEPT ![r] = reply'[r]]
  /\ UNCHANGED validating

LEMMA ClientMoves ==
  ASSUME EntryInv, NEW r \in Clients, ClientFrame(r), SharedInv', ClientInv(r)',
         pc'[r] \in {"idle", "follow", "validate", "done"}
  PROVE  EntryInv'
<1>1. ClientTypes'
  BY DEF EntryInv, ClientTypes, ClientFrame
<1>2. ASSUME NEW u \in Clients, u # r PROVE ClientInv(u)'
  <2>1. /\ pc'[u] = pc[u] /\ asked'[u] = asked[u] /\ cur'[u] = cur[u] /\ legs'[u] = legs[u]
        /\ reply'[u] = reply[u] /\ validating' = validating
    BY <1>2 DEF EntryInv, ClientTypes, ClientFrame
  <2>2. ClientInv(u)
    BY DEF EntryInv
  <2>3. Linked(legs[u], asked[u]) => Linked(legs[u], asked[u])'
    BY <2>1 DEF Linked
  <2>4. Leads(legs[u], asked[u], cur[u]) => Leads(legs[u], asked[u], cur[u])'
    BY <2>1, <2>3 DEF Leads
  <2>5. Whole(legs[u], asked[u]) => Whole(legs[u], asked[u])'
    BY <2>1, <2>3 DEF Whole
  <2>6. Whole(reply[u].ans, asked[u]) => Whole(reply[u].ans, asked[u])'
    BY <2>1 DEF Whole, Linked
  <2>. QED BY <2>1, <2>2, <2>4, <2>5, <2>6 DEF ClientInv, Served
<1>. QED BY <1>1, <1>2 DEF EntryInv

\* What a leg's entry does to the query that waits for it.
LEMMA Follows ==
  ASSUME EntryInv, NEW r \in Clients, NEW e, Sound(e, cur[r]), Follow(r, e), SharedInv',
         UNCHANGED validating
  PROVE  EntryInv'
<1> DEFINE s == Append(legs[r], e)
<1>1. ClientTypes /\ ClientInv(r) /\ pc[r] = "follow" /\ Leads(legs[r], asked[r], cur[r])
  BY DEF EntryInv, ClientInv, Follow
<1>2. Linked(s, asked[r]) /\ s # <<>> /\ Len(s) \in Nat /\ s[Len(s)] = e
  <2>1. /\ Linked(s, asked[r]) /\ s # <<>> /\ Len(s) = Len(legs[r]) + 1
        /\ s[Len(legs[r]) + 1] = e
    BY SMTT(30), <1>1, OneMoreLeg
  <2>2. Len(s) \in Nat
    BY <2>1 DEF Linked
  <2>. QED BY <2>1, <2>2
<1>3. UNCHANGED asked /\ asked' = [asked EXCEPT ![r] = asked'[r]]
  BY <1>1 DEF Follow, ClientTypes
<1>4. CASE HasTarget(e) /\ Loops(s, e.to)
  <2>1. Write(r, [rcode |-> "ServFail"]) /\ UNCHANGED <<cur, legs>>
    BY <1>4 DEF Follow
  <2>2. ClientFrame(r) /\ pc'[r] = "done" /\ reply'[r] = [rcode |-> "ServFail"]
    BY <1>1, <1>3, <2>1 DEF ClientTypes, ClientFrame, Write
  <2>3. ClientInv(r)'
    BY <2>2 DEF ClientInv, Served
  <2>. QED BY <2>2, <2>3, ClientMoves
<1>5. CASE HasTarget(e) /\ ~Loops(s, e.to)
  <2>1. /\ legs' = [legs EXCEPT ![r] = s] /\ cur' = [cur EXCEPT ![r] = e.to]
        /\ UNCHANGED <<pc, reply>>
    BY <1>5 DEF Follow
  <2>2. /\ ClientFrame(r) /\ pc'[r] = "follow" /\ legs'[r] = s /\ cur'[r] = e.to
        /\ asked'[r] = asked[r]
    BY <1>1, <1>3, <2>1 DEF ClientTypes, ClientFrame
  <2>3. Len(s) < MaxCNAMEs /\ (\A i \in 1 .. Len(s) : s[i].q # e.to)
    BY <1>2, <1>5, ResolveEntryAssumption DEF Loops
  <2>4. Leads(s, asked[r], e.to)
    BY <1>2, <1>5, <2>3 DEF Leads, Sound, HasTarget
  <2>5. Leads(legs[r], asked[r], cur[r])'
    BY <2>2, <2>4 DEF Leads, Linked
  <2>6. ClientInv(r)'
    BY <2>2, <2>5 DEF ClientInv, Served
  <2>. QED BY <2>2, <2>6, ClientMoves
<1>6. CASE ~HasTarget(e) /\ validating
  <2>1. /\ legs' = [legs EXCEPT ![r] = s] /\ pc' = [pc EXCEPT ![r] = "validate"]
        /\ UNCHANGED <<cur, reply>>
    BY <1>6 DEF Follow
  <2>2. ClientFrame(r) /\ pc'[r] = "validate" /\ legs'[r] = s /\ asked'[r] = asked[r]
    BY <1>1, <1>3, <2>1 DEF ClientTypes, ClientFrame
  <2>3. ClientInv(r)'
    BY <1>2, <1>6, <2>2 DEF ClientInv, Served, Whole, Linked, HasTarget
  <2>. QED BY <2>2, <2>3, ClientMoves
<1>7. CASE ~HasTarget(e) /\ ~validating
  <2>1. /\ legs' = [legs EXCEPT ![r] = s] /\ UNCHANGED cur
        /\ Write(r, [rcode |-> "entry", ans |-> s, ad |-> s[1].ad, hit |-> FALSE])
    BY <1>7 DEF Follow
  <2>2. /\ ClientFrame(r) /\ pc'[r] = "done" /\ legs'[r] = s /\ asked'[r] = asked[r]
        /\ reply'[r] = [rcode |-> "entry", ans |-> s, ad |-> s[1].ad, hit |-> FALSE]
    BY <1>1, <1>3, <2>1 DEF ClientTypes, ClientFrame, Write
  <2>3. reply'[r].ans = s /\ ~reply'[r].ad
    BY <1>2, <1>7, <2>2 DEF Linked
  <2>4. ClientInv(r)'
    BY <1>2, <1>7, <2>2, <2>3 DEF ClientInv, Served, Whole, Linked, HasTarget
  <2>. QED BY <2>2, <2>4, ClientMoves
<1>. QED BY <1>4, <1>5, <1>6, <1>7

\* The steps before a query resolves, and after it was answered.
LEMMA QueryStep ==
  ASSUME EntryInv, NEW r \in Clients, UNCHANGED validating,
         \/ \E q \in Queries :
              Refuse(r, q) \/ \E n \in QNames : ResolveHit(r, q, n) \/ ResolveMiss(r, q, n)
         \/ LegFails(r) \/ Return(r)
  PROVE  EntryInv'
<1>1. ClientTypes /\ ClientInv(r) /\ SharedInv
  BY DEF EntryInv
<1>2. UNCHANGED <<cache, denied>>
  BY DEF Refuse, ResolveHit, ResolveMiss, LegFails, Return
<1>3. SharedInv'
  BY <1>1, <1>2 DEF SharedInv, Sound
<1>4. ASSUME NEW x, x # "entry", Write(r, [rcode |-> x]), UNCHANGED <<asked, cur, legs>>
      PROVE  EntryInv'
  <2>1. ClientFrame(r) /\ pc'[r] = "done" /\ reply'[r] = [rcode |-> x]
    BY <1>1, <1>4 DEF ClientTypes, ClientFrame, Write
  <2>2. ClientInv(r)'
    BY <1>4, <2>1 DEF ClientInv, Served
  <2>. QED BY <1>3, <2>1, <2>2, ClientMoves
<1>5. CASE \E q \in Queries : Refuse(r, q)
  BY <1>4, <1>5 DEF Refuse, Gate
<1>6. CASE LegFails(r)
  BY <1>4, <1>6 DEF LegFails
<1>7. ASSUME NEW q \in Queries, NEW n \in QNames, ResolveHit(r, q, n) PROVE EntryInv'
  <2>1. /\ ClientFrame(r) /\ pc'[r] = "done"
        /\ reply'[r] = [rcode |-> "entry", ans |-> <<cache[n]>>, ad |-> cache[n].ad, hit |-> TRUE]
    BY <1>1, <1>7 DEF ClientTypes, ClientFrame, ResolveHit, Write
  <2>2. reply'[r].ad = cache[n].ad /\ reply'[r].hit /\ (cache[n].ad => validating)
    BY <1>1, <1>7, <2>1 DEF SharedInv, Sound, ResolveHit
  <2>3. ClientInv(r)'
    BY <2>1, <2>2 DEF ClientInv, Served
  <2>. QED BY <1>3, <2>1, <2>3, ClientMoves
<1>8. ASSUME NEW q \in Queries, NEW n \in QNames, ResolveMiss(r, q, n) PROVE EntryInv'
  <2>1. /\ ClientFrame(r) /\ pc'[r] = "follow" /\ asked'[r] = n /\ cur'[r] = n
        /\ legs'[r] = legs[r] /\ legs[r] = <<>>
    BY <1>1, <1>8 DEF ClientTypes, ClientFrame, ClientInv, ResolveMiss
  <2>2. Leads(<<>>, n, n)
    BY SMTT(30), ResolveEntryAssumption DEF Leads, Linked
  <2>3. Leads(legs[r], asked[r], cur[r])'
    BY <1>8, <2>1, <2>2 DEF Leads, Linked
  <2>4. ClientInv(r)'
    BY <2>1, <2>3 DEF ClientInv, Served
  <2>. QED BY <1>3, <2>1, <2>4, ClientMoves
<1>9. CASE Return(r)
  <2>1. ClientFrame(r) /\ pc'[r] = "idle" /\ legs'[r] = <<>>
    BY <1>1, <1>9 DEF ClientTypes, ClientFrame, Return
  <2>2. ClientInv(r)'
    BY <2>1 DEF ClientInv, Served
  <2>. QED BY <1>3, <2>1, <2>2, ClientMoves
<1>. QED BY <1>5, <1>6, <1>7, <1>8, <1>9

\* An entry made from a server's response is sound.
LEMMA EntriesSound ==
  ASSUME validating \in BOOLEAN, NEW n \in QNames, NEW a \in Answers
  PROVE  Sound(entryFromResponse(n, a), n)
<1>1. /\ a \in AnswerType /\ (a.kind = "alias" => a.to # None) /\ a.ad \in BOOLEAN
      /\ (a.ad /\ validating) \in BOOLEAN
  BY ResolveEntryAssumption DEF AnswerType
<1>. QED BY <1>1 DEF Sound, entryFromResponse, EntryType, AnswerType

\* A sound entry may be put in the cache.
LEMMA PutsSound ==
  ASSUME SharedInv, NEW n \in QNames, NEW e, Sound(e, n), Put(n, e), UNCHANGED <<validating, denied>>
  PROVE  SharedInv'
BY DEF SharedInv, Sound, Put

\* The end of a leg.
LEMMA LegStep ==
  ASSUME EntryInv, NEW r \in Clients, UNCHANGED validating,
         \/ LegCached(r) \/ LegDenied(r)
         \/ \E a \in Answers, now \in BOOLEAN : LegWalked(r, a, now)
  PROVE  EntryInv'
<1>1. ClientInv(r) /\ SharedInv /\ pc[r] = "follow" /\ cur[r] \in QNames /\ UNCHANGED denied
  BY DEF EntryInv, ClientInv, Leads, LegCached, LegDenied, LegWalked, Follow
<1>2. CASE LegCached(r)
  <2>1. Sound(cache[cur[r]], cur[r]) /\ Follow(r, cache[cur[r]]) /\ UNCHANGED cache
    BY <1>1, <1>2 DEF LegCached, SharedInv
  <2>2. SharedInv'
    BY <1>1, <2>1 DEF SharedInv, Sound
  <2>. QED BY <2>1, <2>2, Follows
<1>3. CASE LegDenied(r)
  <2> DEFINE e == [kind |-> "absent", to |-> None, ad |-> TRUE, q |-> cur[r]]
  <2>1. Put(cur[r], e) /\ Follow(r, e) /\ validating
    BY <1>1, <1>3 DEF LegDenied, SharedInv
  <2>2. Sound(e, cur[r])
    BY <1>1, <2>1 DEF Sound, EntryType, Kinds
  <2>3. SharedInv'
    BY <1>1, <2>1, <2>2, PutsSound
  <2>. QED BY <2>1, <2>2, <2>3, Follows
<1>4. ASSUME NEW a \in Answers, NEW now \in BOOLEAN, LegWalked(r, a, now) PROVE EntryInv'
  <2> DEFINE e == entryFromResponse(cur[r], a)
  <2>1. /\ Follow(r, e) /\ (Put(cur[r], e) \/ UNCHANGED cache)
    BY <1>4 DEF LegWalked
  <2>2. Sound(e, cur[r])
    BY <1>1, EntriesSound DEF SharedInv
  <2>3. SharedInv'
    <3>1. CASE Put(cur[r], e)
      BY <1>1, <2>2, <3>1, PutsSound
    <3>2. CASE UNCHANGED cache
      BY <1>1, <3>2 DEF SharedInv, Sound
    <3>. QED BY <2>1, <3>1, <3>2
  <2>. QED BY <2>1, <2>2, <2>3, Follows
<1>. QED BY <1>2, <1>3, <1>4

\* A validator's verdict.
LEMMA ValidateStep ==
  ASSUME EntryInv, NEW r \in Clients, UNCHANGED validating,
         NEW st \in {"Secure", "Insecure", "Bogus"}, Validate(r, st)
  PROVE  EntryInv'
<1>1. ClientTypes /\ ClientInv(r) /\ SharedInv /\ validating /\ Whole(legs[r], asked[r])
  BY DEF EntryInv, ClientInv, Validate
<1>2. SharedInv' /\ UNCHANGED <<asked, cur, legs>>
  BY <1>1 DEF SharedInv, Sound, Validate
<1>3. CASE st = "Bogus"
  <2>1. ClientFrame(r) /\ pc'[r] = "done" /\ reply'[r] = [rcode |-> "ServFail"]
    BY <1>1, <1>3 DEF ClientTypes, ClientFrame, Validate, Write
  <2>2. ClientInv(r)'
    BY <2>1 DEF ClientInv, Served
  <2>. QED BY <1>2, <2>1, <2>2, ClientMoves
<1>4. CASE st # "Bogus"
  <2>1. /\ ClientFrame(r) /\ pc'[r] = "done"
        /\ reply'[r] = [rcode |-> "entry", ans |-> legs[r],
                        ad |-> st = "Secure" \/ legs[r][1].ad, hit |-> FALSE]
    BY <1>1, <1>4 DEF ClientTypes, ClientFrame, Validate, Write
  <2>2. reply'[r].ans = legs[r] /\ asked'[r] = asked[r] /\ validating'
    BY <1>1, <1>2, <2>1
  <2>3. Whole(reply[r].ans, asked[r])'
    BY <1>1, <2>2 DEF Whole, Linked
  <2>4. ClientInv(r)'
    BY <2>1, <2>2, <2>3 DEF ClientInv, Served
  <2>. QED BY <1>2, <2>1, <2>4, ClientMoves
<1>. QED BY <1>3, <1>4

\* Every step keeps the invariant.
LEMMA EntryStep == EntryInv /\ [Next]_vars => EntryInv'
<1>1. ASSUME EntryInv, NEW r \in Clients, ClientStep(r), UNCHANGED validating PROVE EntryInv'
  BY <1>1, QueryStep, LegStep, ValidateStep DEF ClientStep
<1>2. ASSUME EntryInv, UNCHANGED <<validating, clientVars>>, SharedInv' PROVE EntryInv'
  BY SMTT(30), <1>2 DEF clientVars, EntryInv, ClientTypes, ClientInv, Served, Leads, Whole, Linked
<1>3. ASSUME EntryInv, NEW n \in QNames, Expire(n) \/ \E a \in Answers : WalkElsewhere(n, a),
             UNCHANGED validating
      PROVE  EntryInv'
  <2>1. UNCHANGED clientVars /\ SharedInv
    BY <1>3 DEF Expire, WalkElsewhere, EntryInv
  <2>2. CASE Expire(n)
    BY <1>2, <1>3, <2>1, <2>2 DEF Expire, SharedInv, Sound
  <2>3. ASSUME NEW a \in Answers, WalkElsewhere(n, a) PROVE EntryInv'
    <3>1. Sound(entryFromResponse(n, a), n)
      BY <2>1, EntriesSound DEF SharedInv
    <3>2. SharedInv'
      BY <1>3, <2>1, <2>3, <3>1, PutsSound DEF WalkElsewhere
    <3>. QED BY <1>2, <1>3, <2>1, <3>2
  <2>. QED BY <1>3, <2>2, <2>3
<1>4. ASSUME EntryInv, UNCHANGED vars PROVE EntryInv'
  <2>1. SharedInv'
    BY <1>4 DEF vars, EntryInv, SharedInv, Sound
  <2>. QED BY <1>2, <1>4, <2>1 DEF vars
<1>. QED BY <1>1, <1>3, <1>4 DEF Next

\* resolveDepthFollow and entryFromResponse: the answer of a chase is one chain from
\* the name asked for to a name with no further alias, no longer than maxCNAMEs, and
\* without a validator no reply claims authenticated data, for any clients, names,
\* answers and changes of the cache between the legs.
THEOREM RepliesAreWhole == Spec => []RepliesWhole
<1>1. EntryInv => RepliesWhole
  BY DEF EntryInv, ClientInv, Whole, Linked, RepliesWhole, ChainIntact, NoADWithoutValidator
<1>. QED BY <1>1, EntryInit, EntryStep, PTL DEF Spec
-----------------------------------------------------------------------------
(* The walk down the tree. *)

CONSTANTS Servers, Roots, Labels, MaxIterations
VARIABLES servers, zone, fell, iter, lame, res, list, shown, known

I == INSTANCE IterativeWalk

\* Where the walk stands, and that each server it has dropped from the list was lame.
WalkInv ==
  /\ servers \subseteq list /\ zone \in 0 .. Labels /\ zone <= known
  /\ known \in 0 .. Labels /\ shown \in 0 .. Labels
  /\ lame \in Seq(Servers \X (0 .. Labels)) /\ list \subseteq Servers
  /\ \A s \in list \ servers : \E i \in 1 .. Len(lame) : lame[i][1] = s
  /\ I!ShowsOneLabelMore /\ I!LameMeansAll

\* A walk that has the roots to ask.
LEMMA WalkInit == I!WalkAssumption /\ I!Init => WalkInv
BY DEF I!WalkAssumption, I!Init, WalkInv, I!ShowsOneLabelMore, I!LameMeansAll

\* What one more query shows its server.
LEMMA WalkShows ==
  ASSUME I!WalkAssumption, WalkInv, NEW s, I!Response(s)
  PROVE  /\ shown' \in 0 .. Labels /\ (~fell => shown' <= known + 1)
         /\ (fell => shown' = Labels) /\ s \in servers /\ res = "running"
         /\ I!queryName \in 0 .. Labels
<1>1. I!queryName \in 0 .. Labels /\ (~fell => I!queryName <= zone + 1) /\ (fell => I!queryName = Labels)
  BY DEF I!WalkAssumption, WalkInv, I!queryName, I!minimisedQName
<1>2. shown' = I!Larger(shown, I!queryName) /\ s \in servers /\ res = "running"
  BY DEF I!Response
<1>. QED BY <1>1, <1>2 DEF I!WalkAssumption, WalkInv, I!ShowsOneLabelMore, I!Larger

\* A lame server is noted, and dropped unless it is the last one.
LEMMA WalkLame ==
  ASSUME I!WalkAssumption, WalkInv, NEW s, I!Lame(s)
  PROVE  WalkInv'
<1>1. I!Response(s)
  BY DEF I!Lame
<1>2. /\ shown' \in 0 .. Labels /\ (~fell => shown' <= known + 1) /\ (fell => shown' = Labels)
      /\ s \in servers /\ res = "running" /\ I!queryName \in 0 .. Labels
  BY <1>1, WalkShows
<1>3. /\ lame' = Append(lame, <<s, I!queryName>>) /\ lame \in Seq(Servers \X (0 .. Labels))
      /\ <<s, I!queryName>> \in Servers \X (0 .. Labels)
  BY <1>2 DEF I!Lame, WalkInv
<1>4. /\ lame' \in Seq(Servers \X (0 .. Labels)) /\ Len(lame') = Len(lame) + 1 /\ Len(lame) \in Nat
      /\ lame'[Len(lame) + 1] = <<s, I!queryName>>
      /\ \A i \in 1 .. Len(lame) : lame'[i] = lame[i]
  BY <1>3
<1>5. \A x : x = s \/ (\E i \in 1 .. Len(lame) : lame[i][1] = x)
             => \E i \in 1 .. Len(lame') : lame'[i][1] = x
  <2>1. Len(lame) + 1 \in 1 .. Len(lame') /\ lame'[Len(lame) + 1][1] = s
    BY <1>4
  <2>2. 1 .. Len(lame) \subseteq 1 .. Len(lame')
    BY <1>4
  <2>. QED BY <1>4, <2>1, <2>2
<1>6. UNCHANGED <<zone, list, known>> /\ fell' \in {fell, TRUE}
  BY DEF I!Lame, I!Ends
<1>7. I!ShowsOneLabelMore'
  BY <1>2, <1>6 DEF I!ShowsOneLabelMore
<1>8. CASE ~I!Exhausted(s)
  <2>1. servers' = servers \ {s} /\ res' = res
    BY <1>8 DEF I!Lame, I!removeServer
  <2>2. \A x \in list' \ servers' : \E i \in 1 .. Len(lame') : lame'[i][1] = x
    BY <1>5, <1>6, <2>1 DEF WalkInv
  <2>. QED BY <1>2, <1>4, <1>6, <1>7, <2>1, <2>2 DEF WalkInv, I!LameMeansAll
<1>9. CASE I!Exhausted(s)
  <2>1. servers' = servers /\ servers = {s}
    BY <1>2, <1>9 DEF I!Lame, I!Ends, I!Exhausted, I!removeServer
  <2>2. \A x \in list' : \E i \in 1 .. Len(lame') : lame'[i][1] = x
    BY <1>5, <1>6, <2>1 DEF WalkInv
  <2>3. res' = "lame" => fell
    BY <1>2, <1>9 DEF I!Lame, I!Ends
  <2>. QED BY <1>2, <1>4, <1>6, <1>7, <2>1, <2>2, <2>3 DEF WalkInv, I!LameMeansAll
<1>. QED BY <1>8, <1>9

\* Answers, referrals and failures.
LEMMA WalkOther ==
  ASSUME I!WalkAssumption, WalkInv, NEW s,
         \/ I!WalkFails \/ I!Answer(s) \/ I!Advance(s) \/ I!FallBack(s) \/ I!EmptyReferral(s)
         \/ \E S0 \in SUBSET Servers \ {{}}, z \in 0 .. Labels : I!Referral(s, S0, z)
  PROVE  WalkInv'
<1>1. CASE I!WalkFails
  BY <1>1 DEF I!WalkFails, I!Ends, WalkInv, I!ShowsOneLabelMore, I!LameMeansAll
<1>2. CASE I!Answer(s) \/ I!FallBack(s) \/ I!EmptyReferral(s)
  <2>1. I!Response(s) /\ UNCHANGED <<servers, zone, list, known, lame>>
        /\ res' # "lame" /\ fell' \in {fell, TRUE}
    BY <1>2, WalkShows DEF I!Answer, I!FallBack, I!EmptyReferral, I!Ends
  <2>2. shown' \in 0 .. Labels /\ (~fell => shown' <= known + 1)
    BY <2>1, WalkShows
  <2>3. I!ShowsOneLabelMore'
    <3>1. CASE fell' = TRUE
      BY <3>1 DEF I!ShowsOneLabelMore
    <3>2. CASE fell' = fell
      BY <2>1, <2>2, <3>2 DEF I!ShowsOneLabelMore
    <3>. QED BY <2>1, <3>1, <3>2
  <2>. QED BY <2>1, <2>2, <2>3 DEF WalkInv, I!LameMeansAll
<1>3. CASE I!Advance(s)
  <2>1. I!Response(s) /\ UNCHANGED <<servers, list, lame, fell, res>> /\ zone' = I!queryName
        /\ known' = I!Larger(known, I!queryName)
    BY <1>3 DEF I!Advance
  <2>2. zone' \in 0 .. Labels /\ zone' <= known' /\ known <= known' /\ known' \in 0 .. Labels
    BY <2>1, WalkShows DEF I!WalkAssumption, WalkInv, I!Larger
  <2>3. I!ShowsOneLabelMore'
    BY <2>1, <2>2, WalkShows DEF I!WalkAssumption, WalkInv, I!ShowsOneLabelMore
  <2>. QED BY <2>1, <2>2, <2>3, WalkShows DEF WalkInv, I!LameMeansAll
<1>4. ASSUME NEW S0 \in SUBSET Servers, NEW z \in 0 .. Labels, I!Referral(s, S0, z)
      PROVE  WalkInv'
  <2>1. I!Response(s) /\ UNCHANGED <<lame, fell, res>> /\ zone' = z
        /\ known' = I!Larger(known, z) /\ servers' = S0 /\ list' = S0
    BY <1>4 DEF I!Referral
  <2>2. zone' \in 0 .. Labels /\ zone' <= known' /\ known <= known' /\ known' \in 0 .. Labels
    BY <2>1 DEF I!WalkAssumption, WalkInv, I!Larger
  <2>3. I!ShowsOneLabelMore'
    BY SMTT(30), <2>1, <2>2, WalkShows DEF I!WalkAssumption, WalkInv, I!ShowsOneLabelMore
  <2>. QED BY <2>1, <2>2, <2>3, WalkShows DEF WalkInv, I!LameMeansAll
<1>. QED BY <1>1, <1>2, <1>3, <1>4

\* The walk keeps its invariant.
LEMMA WalkStep == I!WalkAssumption /\ WalkInv /\ [I!Next]_(I!vars) => WalkInv'
<1>. SUFFICES ASSUME I!WalkAssumption, WalkInv, [I!Next]_(I!vars) PROVE WalkInv'
  OBVIOUS
<1>1. CASE UNCHANGED I!vars
  BY <1>1 DEF I!vars, WalkInv, I!ShowsOneLabelMore, I!LameMeansAll
<1>. QED BY <1>1, WalkLame, WalkOther DEF I!Next

\* resolveDepthInner: names are shown to servers one label at a time until the walk
\* falls back, and AllServersLameError means that every server of the list was
\* asked and proved lame, with the whole target asked for, for any servers,
\* referrals and depth.
THEOREM WalksAreSound == I!WalkAssumption /\ I!Spec => []I!WalkSound
<1>. SUFFICES ASSUME I!WalkAssumption PROVE I!Spec => []I!WalkSound
  OBVIOUS
<1>2. I!Init => WalkInv
  BY WalkInit
<1>3. WalkInv /\ [I!Next]_(I!vars) => WalkInv'
  BY WalkStep
<1>4. WalkInv => I!WalkSound
  BY DEF WalkInv, I!WalkSound
<1>. QED BY <1>2, <1>3, <1>4, PTL DEF I!Spec
=============================================================================
