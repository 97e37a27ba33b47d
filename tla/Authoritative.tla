--------------------------- MODULE Authoritative ---------------------------
(* The authoritative server's zones: how it answers from them                *)
(* (authoritative/authoritative.go), dynamic updates and NOTIFYs             *)
(* (authoritative/update.go, notify.go).  Names are Bailiwick's; a zone is   *)
(* its origin, its records in order of insertion, the SOA it answers with    *)
(* and the names that exist.  An update scans its prerequisites under the    *)
(* read lock, again under the write lock, applies its records to a clone of  *)
(* the zone and publishes it; other updates and reloads come in between.     *)
EXTENDS Bailiwick

CONSTANTS
  None,
  Updaters, Origin,
  Files,       \* zone files the server loads: sequences of records
  Requests,    \* updates: [shape, zone, prereqs, updates]; shape: one question, of type SOA
  MaxRecords,  \* WithMaxUpdateRecords; 0: no cap
  MaxLabels,   \* how long a name may be
  MaxNotify,   \* WithMaxNotifyInflight; 0: no cap
  MaxSerial    \* bound: serials are taken modulo this, as the code's modulo 2^32

RecordsAt(z, n) == SelectSeq(z.recs, LAMBDA r : r.name = n)
HasRecords(z, n) == \E i \in DOMAIN z.recs : z.recs[i].name = n

\* A name and those above it, up to the origin of the zone.
UpTo(origin, n) == {SubSeq(n, 1, k) : k \in (IF IsPrefix(origin, n) THEN Len(origin) ELSE 0) .. Len(n)}
Existing(origin, recs) == UNION {UpTo(origin, recs[i].name) : i \in DOMAIN recs}

\* AddZone and ReloadZone: the index of a zone file, None if it is refused.
AddZone(origin, recs) ==
  LET soas == SelectSeq(recs, LAMBDA r : r.type = "SOA" /\ r.name = origin)
  IN  IF soas = <<>> \/ Owned(recs, origin, {"CNAME", "DNAME"}) # <<>> THEN None
      ELSE [origin |-> origin, recs |-> recs, soaRec |-> soas[1],
            namesExist |-> Existing(origin, recs)]

\* findZone: the deepest zone at or above a name.
findZone(zones, n) ==
  LET above == {z \in zones : IsPrefix(z.origin, n)}
  IN  IF above = {} THEN None ELSE CHOOSE z \in above : \A y \in above : Len(y.origin) <= Len(z.origin)
-----------------------------------------------------------------------------
(* Delegations. *)

\* The cuts at or above n, below the apex; the deepest one answers.
findDelegation(z, n) ==
  LET cuts == {c \in UpTo(z.origin, n) \ {z.origin} : Owned(z.recs, c, {"NS"}) # <<>>}
  IN  IF cuts = {} THEN <<>>
      ELSE Owned(z.recs, CHOOSE c \in cuts : \A d \in cuts : Len(d) <= Len(c), {"NS"})

collectGlue(z, ns) == FlattenSeq([i \in DOMAIN ns |-> Owned(z.recs, ns[i].target, {"A", "AAAA"})])
-----------------------------------------------------------------------------
(* One name of a lookup. *)

\* matchRRSet: the records of the type, else the first CNAME, which is followed.
matchRRSet(recs, t) ==
  LET hit == SelectSeq(recs, LAMBDA r : r.type = t)
      alias == SelectSeq(recs, LAMBDA r : r.type = "CNAME")
  IN  IF hit = <<>> /\ t # "CNAME" /\ alias # <<>>
      THEN [ans |-> <<alias[1]>>, follow |-> alias[1].target]
      ELSE [ans |-> hit, follow |-> None]

\* The strict ancestors of n, the deepest first.
Ancestors(n) == [i \in 1 .. Len(n) |-> SubSeq(n, 1, Len(n) - i)]

\* None if the name would be too long.
substituteSuffix(n, owner, target) ==
  LET combined == target \o SubSeq(n, Len(owner) + 1, Len(n))
  IN  IF Len(combined) > MaxLabels THEN None ELSE combined

\* findDNAMEAncestor: the DNAME that redirects n, and where to; one that makes too
\* long a name is passed over, and the lookup goes on as if there were none.
findDNAMEAncestor(z, n) ==
  LET with == SelectSeq(Ancestors(n), LAMBDA a : Owned(z.recs, a, {"DNAME"}) # <<>>)
      d == Owned(z.recs, with[1], {"DNAME"})[1]
      synth == substituteSuffix(n, with[1], d.target)
  IN  IF with = <<>> THEN None
      ELSE IF synth = None THEN None ELSE [rec |-> d, synth |-> synth]

\* closestEncloser: the deepest existing strict ancestor, None if there is none.
closestEncloser(z, n) ==
  LET up == SelectSeq(Ancestors(n), LAMBDA a : a \in z.namesExist)
  IN  IF up = <<>> THEN None ELSE up[1]

wildcardKey(encloser) == Append(encloser, "*")

rewriteOwners_Kept(recs, owner) == recs
rewriteOwners(recs, owner) == [i \in DOMAIN recs |-> [recs[i] EXCEPT !.name = owner]]
-----------------------------------------------------------------------------
(* The lookup. *)

maxCNAMEChain == 8

\* What the name n gives on the way from the question: records to add and a name to
\* follow, or the end of the lookup ("found", "nodata", "nxdomain").
Hop(z, n, t) ==
  LET Found(recs) ==
        LET m == matchRRSet(recs, t)
        IN  [ans |-> m.ans, follow |-> m.follow,
             end |-> IF m.follow # None THEN None ELSE IF m.ans = <<>> THEN "nodata" ELSE "found"]
      dname == findDNAMEAncestor(z, n)
      encloser == closestEncloser(z, n)
      wild == IF encloser = None THEN <<>> ELSE RecordsAt(z, wildcardKey(encloser))
  IN  IF HasRecords(z, n) THEN Found(RecordsAt(z, n))
      ELSE IF n \in z.namesExist THEN [ans |-> <<>>, follow |-> None, end |-> "nodata"]
      ELSE IF dname # None
      THEN [ans |-> <<dname.rec, [dname.rec EXCEPT !.name = n, !.type = "CNAME", !.target = dname.synth]>>,
            follow |-> dname.synth, end |-> None]
      ELSE IF wild # <<>> THEN LET f == Found(wild) IN [f EXCEPT !.ans = rewriteOwners(f.ans, n)]
      ELSE [ans |-> <<>>, follow |-> None, end |-> "nxdomain"]

\* lookupAuthoritative: hops from the question; the SOA only when nothing was followed.
lookupAuthoritative(z, q, t) ==
  LET at[k \in 0 .. maxCNAMEChain] ==
        IF k = 0 THEN [name |-> q, ans |-> <<>>, end |-> None, hops |-> 0]
        ELSE LET p == at[k - 1]
                 h == Hop(z, p.name, t)
             IN  IF p.end # None THEN p
                 ELSE [name |-> IF h.end = None THEN h.follow ELSE p.name,
                       ans |-> p.ans \o h.ans, end |-> h.end,
                       hops |-> IF h.end = None THEN k ELSE k - 1]
      last == at[maxCNAMEChain]
      first == last.hops = 0
  IN  [ans |-> last.ans, add |-> <<>>, aa |-> TRUE,
       auth |-> IF first /\ last.end \in {"nodata", "nxdomain"} THEN <<z.soaRec>> ELSE <<>>,
       rcode |-> IF last.end = None THEN "ServFail"
                 ELSE IF first /\ last.end = "nxdomain" THEN "NXDomain" ELSE "NoError"]

lookup(z, q, t) ==
  LET ns == findDelegation(z, q)
  IN  IF ns # <<>> THEN [ans |-> <<>>, auth |-> ns, add |-> collectGlue(z, ns), aa |-> FALSE, rcode |-> "NoError"]
      ELSE lookupAuthoritative(z, q, t)

\* buildRFC8482HINFO: the one record an ANY question gets.
buildRFC8482HINFO(q) == [name |-> q, type |-> "HINFO", target |-> None]

answer(zones, q, t) ==
  LET z == findZone(zones, q)
      none == [ans |-> <<>>, auth |-> <<>>, add |-> <<>>, aa |-> FALSE, rcode |-> "Refused"]
  IN  IF z = None THEN none
      ELSE IF t = "ANY" /\ findDelegation(z, q) = <<>>
      THEN [none EXCEPT !.ans = <<buildRFC8482HINFO(q)>>, !.aa = TRUE, !.rcode = "NoError"]
      ELSE lookup(z, q, t)
-----------------------------------------------------------------------------
(* Properties, of a zone z and a question (q, t). *)

\* What a name means in a zone: itself if it exists, else a wildcard's stand-in.
Meaning(z, n) ==
  IF n \in z.namesExist THEN n
  ELSE LET e == closestEncloser(z, n) IN IF e = None THEN n ELSE wildcardKey(e)

\* The answer the server gives reaches the client: the resolver's and the
\* forwarder's filters and the stub resolver's MatchAnswers leave, of an
\* authoritative answer, exactly the zone's records of the type at the end of the
\* alias chain, under the name the chain leads to; NXDOMAIN is given only for a name
\* that is not in the zone; and the addresses of a referral are all usable.
ReachesClient(z, q, t) ==
  LET Held(n) == {[r EXCEPT !.name = n] : r \in ToSet(Owned(z.recs, Meaning(z, n), {t}))}
      Aliased(m, n) == \E i \in DOMAIN m.ans : m.ans[i].type = "CNAME" /\ m.ans[i].name = n
      Final(m) == UNION {Held(n) : n \in {x \in Chain(q, m.ans) : ~Aliased(m, x)}}
      Passes(m, kept) == /\ ToSet(MatchAnswers(kept, q, t)) = Final(m)
                         /\ filterBailiwick(q, m).ans = kept
      Right(m) ==
        /\ m.rcode = "NXDomain" => q \notin z.namesExist /\ ~HasRecords(z, q)
        /\ m.aa /\ t \notin {"ANY", "CNAME"} /\ m.rcode # "ServFail" => Passes(m, bailiwickFilter(q, m).ans)
        /\ ~m.aa /\ m.rcode = "NoError"
             => \A r \in ToSet(m.add) : \E i \in DOMAIN m.auth : m.auth[i].target = r.name
  IN  Right(answer({z}, q, t))
-----------------------------------------------------------------------------
(* The server with its updates. *)

VARIABLES
  zone,      \* the published zone
  pc, req,   \* each updater: where serveUpdate stands, its request
  serials,   \* each updater: the serials its callback is told
  rcode,     \* each updater: the response sent
  onUpdate,  \* the last call of the OnUpdate callback: [old, new], or None
  handlers,  \* NOTIFY handlers running
  notified,  \* the last response to a NOTIFY
  replaced   \* history: the zone the last update was applied to, and by which

vars == <<zone, pc, req, serials, rcode, onUpdate, handlers, notified, replaced>>

Init ==
  /\ zone \in {AddZone(Origin, f) : f \in Files} \ {None}
  /\ pc = [u \in Updaters |-> "idle"] /\ req = [u \in Updaters |-> None]
  /\ serials = [u \in Updaters |-> None]
  /\ rcode = [u \in Updaters |-> None] /\ onUpdate = None
  /\ handlers = 0 /\ notified = None /\ replaced = None
-----------------------------------------------------------------------------
(* The client's builder (update/update.go). *)

Entry(n, c, t, d, g) == [name |-> n, class |-> c, type |-> t, data |-> d, target |-> g, ttl |-> 0, ok |-> TRUE]

NewBuilder(z) == [zone |-> z, prereqs |-> <<>>, updates |-> <<>>]
AddRRset(b, r) == [b EXCEPT !.updates = Append(@, [Entry(r.name, "IN", r.type, r.data, r.target) EXCEPT !.ttl = r.ttl])]
DeleteRRset(b, n, t) == [b EXCEPT !.updates = Append(@, Entry(n, "ANY", t, None, None))]
DeleteAll(b, n) == DeleteRRset(b, n, "ANY")
DeleteRecord(b, r) == [b EXCEPT !.updates = Append(@, Entry(r.name, "NONE", r.type, r.data, r.target))]
PrereqRRsetExists(b, n, t) == [b EXCEPT !.prereqs = Append(@, Entry(n, "ANY", t, None, None))]
PrereqRRsetAbsent(b, n, t) == [b EXCEPT !.prereqs = Append(@, Entry(n, "NONE", t, None, None))]
PrereqNameInUse(b, n) == PrereqRRsetExists(b, n, "ANY")
PrereqNameNotInUse(b, n) == PrereqRRsetAbsent(b, n, "ANY")
Build(b) == [shape |-> TRUE, zone |-> b.zone, prereqs |-> b.prereqs, updates |-> b.updates]
-----------------------------------------------------------------------------
(* Checks. *)

hasName(z, n) == HasRecords(z, n)
hasType(z, n, t) == Owned(z.recs, n, {t}) # <<>>

\* One prerequisite: the code that refuses it, or None.  ok says that the TTL is 0
\* and that there is rdata or not as its class wants (hasRData).
PrereqError(z, p) ==
  CASE ~p.ok \/ p.class \notin {"ANY", "NONE", "IN"} -> "FormErr"
    [] p.class = "ANY" ->
         IF p.type = "ANY" THEN IF hasName(z, p.name) THEN None ELSE "NXDomain"
         ELSE IF hasType(z, p.name, p.type) THEN None ELSE "NXRRSet"
    [] p.class = "NONE" ->
         IF p.type = "ANY" THEN IF hasName(z, p.name) THEN "YXDomain" ELSE None
         ELSE IF hasType(z, p.name, p.type) THEN "YXRRSet" ELSE None
    [] OTHER -> None

Values(recs, n, t) == {recs[i].data : i \in {j \in DOMAIN recs : recs[j].name = n /\ recs[j].type = t}}

\* evaluatePrereqs: the first that fails; then the RRsets named with their values.
evaluatePrereqs(z, prereqs) ==
  LET bad == SelectSeq(prereqs, LAMBDA p : PrereqError(z, p) # None)
      valued == SelectSeq(prereqs, LAMBDA p : p.class = "IN")
  IN  IF bad # <<>> THEN PrereqError(z, bad[1])
      ELSE IF \E i \in DOMAIN valued :
                Values(valued, valued[i].name, valued[i].type)
                  # Values(z.recs, valued[i].name, valued[i].type)
      THEN "NXRRSet" ELSE "NoError"

\* validateUpdates: records of the right shape, and no alias at the apex.
validateUpdates(z, us) ==
  IF \E i \in DOMAIN us :
       \/ us[i].class \notin {"ANY", "NONE", "IN"} \/ (us[i].class # "IN" /\ ~us[i].ok)
       \/ us[i].class = "IN" /\ us[i].name = z.origin /\ us[i].type \in {"CNAME", "DNAME"}
  THEN "FormErr" ELSE "NoError"

Verdict(z, r) ==
  IF z.origin # r.zone THEN "NotAuth"
  ELSE IF evaluatePrereqs(z, r.prereqs) # "NoError" THEN evaluatePrereqs(z, r.prereqs)
  ELSE validateUpdates(z, r.updates)

\* What is decided before a lock is taken; the policy is the operator's.
Screen(r, allowed) ==
  IF ~r.shape THEN "FormErr"
  ELSE IF MaxRecords > 0 /\ Len(r.prereqs) + Len(r.updates) > MaxRecords THEN "FormErr"
  ELSE IF ~allowed THEN "Refused"
  ELSE IF \E x \in ToSet(r.prereqs) \cup ToSet(r.updates) : ~inBailiwick(r.zone, x.name) THEN "NotZone"
  ELSE "NoError"
-----------------------------------------------------------------------------
(* Changes. *)

\* The records a deletion takes away; SOA and NS stay at the apex.
Deleted(z, u) ==
  {i \in DOMAIN z.recs :
     /\ z.recs[i].name = u.name
     /\ u.type \in {"ANY", z.recs[i].type}
     /\ u.class = "NONE" => z.recs[i].type = u.type /\ z.recs[i].data = u.data
     /\ ~(u.name = z.origin /\ z.recs[i].type \in {"SOA", "NS"})}

Without(recs, gone) ==
  LET left == SelectSeq([i \in DOMAIN recs |-> i], LAMBDA i : i \notin gone)
  IN  [k \in DOMAIN left |-> recs[left[k]]]

Stored(u) == [name |-> u.name, type |-> u.type, data |-> u.data, target |-> u.target, ttl |-> u.ttl]

markExists(z, n) == [z EXCEPT !.namesExist = @ \cup UpTo(z.origin, n)]

\* applyUpdate: the zone after one record of the update section.
applyUpdate(z, u) ==
  LET rec == Stored(u)
      apexSOA == u.type = "SOA" /\ u.name = z.origin
      base == IF apexSOA THEN SelectSeq(z.recs, LAMBDA r : ~(r.name = z.origin /\ r.type = "SOA")) ELSE z.recs
  IN  IF u.class # "IN" THEN [z EXCEPT !.recs = Without(z.recs, Deleted(z, u))]
      ELSE IF rec \in ToSet(z.recs) THEN z
      ELSE markExists([z EXCEPT !.recs = Append(base, rec), !.soaRec = IF apexSOA THEN rec ELSE @], u.name)

ApplyAll(z, us) ==
  LET at[k \in 0 .. Len(us)] == IF k = 0 THEN z ELSE applyUpdate(at[k - 1], us[k]) IN at[Len(us)]

\* Whether some record changed the zone when its turn came.
Changed(z, us) == \E k \in 1 .. Len(us) :
                    ApplyAll(z, SubSeq(us, 1, k)).recs # ApplyAll(z, SubSeq(us, 1, k - 1)).recs

bumpSOA(z) ==
  LET bumped == [z.soaRec EXCEPT !.data = (@ + 1) % MaxSerial]
  IN  [z EXCEPT !.soaRec = bumped,
                !.recs = [i \in DOMAIN z.recs |->
                            IF z.recs[i].name = z.origin /\ z.recs[i].type = "SOA" THEN bumped ELSE z.recs[i]]]

rebuildNamesExist(z) == [z EXCEPT !.namesExist = {z.origin} \cup Existing(z.origin, z.recs)]

Updated(z, us) ==
  IF Changed(z, us) THEN rebuildNamesExist(bumpSOA(ApplyAll(z, us))) ELSE ApplyAll(z, us)
-----------------------------------------------------------------------------
(* serveUpdate, ReloadZone, serveNotify. *)

Respond(u, c) == rcode' = [rcode EXCEPT ![u] = c] /\ pc' = [pc EXCEPT ![u] = "done"]

serveUpdate(u, r) ==
  /\ pc[u] = "idle"
  /\ req' = [req EXCEPT ![u] = r]
  /\ \E allowed \in BOOLEAN :
       IF Screen(r, allowed) # "NoError" THEN Respond(u, Screen(r, allowed))
       ELSE pc' = [pc EXCEPT ![u] = "scan"] /\ UNCHANGED rcode
  /\ UNCHANGED <<zone, serials, onUpdate, handlers, notified, replaced>>

\* Under the read lock.
Scan(u) ==
  /\ pc[u] = "scan"
  /\ IF Verdict(zone, req[u]) # "NoError" THEN Respond(u, Verdict(zone, req[u]))
     ELSE pc' = [pc EXCEPT ![u] = "apply"] /\ UNCHANGED rcode
  /\ UNCHANGED <<zone, req, serials, onUpdate, handlers, notified, replaced>>

\* Under the write lock: the zone may be another than the one scanned.
Recheck_Skipped(u) == "NoError"
Recheck(u) == Verdict(zone, req[u])

Apply(u) ==
  /\ pc[u] = "apply"
  /\ IF Recheck(u) # "NoError" THEN Respond(u, Recheck(u)) /\ UNCHANGED <<zone, serials, replaced>>
     ELSE /\ zone' = Updated(zone, req[u].updates) /\ replaced' = [zone |-> zone, by |-> u]
          /\ serials' = [serials EXCEPT ![u] = [old |-> ApplyAll(zone, req[u].updates).soaRec.data,
                                                new |-> zone'.soaRec.data]]
          /\ pc' = [pc EXCEPT ![u] = IF Changed(zone, req[u].updates) THEN "report" ELSE "done"]
          /\ rcode' = [rcode EXCEPT ![u] = "NoError"]
  /\ UNCHANGED <<req, onUpdate, handlers, notified>>

\* The callback runs after the response, under no lock.
Report(u) ==
  /\ pc[u] = "report" /\ pc' = [pc EXCEPT ![u] = "done"]
  /\ onUpdate' = serials[u]
  /\ UNCHANGED <<zone, req, serials, rcode, handlers, notified, replaced>>

ReloadZone(f) ==
  /\ AddZone(Origin, f) # None /\ zone' = AddZone(Origin, f) /\ replaced' = None
  /\ UNCHANGED <<pc, req, serials, rcode, onUpdate, handlers, notified>>

\* A NOTIFY for a zone of the server's that the policy lets in is acknowledged, and
\* then handled, by a handler of its own, unless too many run.
serveNotify(questions, allowed, installed) ==
  /\ notified' = IF questions = <<>> THEN "FormErr"
                 ELSE IF questions[1] # zone.origin THEN "NotAuth"
                 ELSE IF ~allowed THEN "Refused" ELSE "NoError"
  /\ handlers' = IF notified' = "NoError" /\ installed /\ (MaxNotify = 0 \/ handlers < MaxNotify)
                 THEN handlers + 1 ELSE handlers
  /\ UNCHANGED <<zone, pc, req, serials, rcode, onUpdate, replaced>>

NotifyHandled ==
  /\ handlers > 0 /\ handlers' = handlers - 1
  /\ UNCHANGED <<zone, pc, req, serials, rcode, onUpdate, notified, replaced>>

Next ==
  \/ \E u \in Updaters : Scan(u) \/ Apply(u) \/ Report(u) \/ \E r \in Requests : serveUpdate(u, r)
  \/ \E f \in Files : ReloadZone(f)
  \/ \E qs \in {<<>>, <<Origin>>, <<Front(Origin)>>}, allowed, installed \in BOOLEAN :
       serveNotify(qs, allowed, installed)
  \/ NotifyHandled

Spec == Init /\ [][Next]_vars
-----------------------------------------------------------------------------
(* Properties. *)

\* Whatever updates and reloads were applied, the published zone is as AddZone would
\* have indexed it: one SOA at the apex, the one it answers with, and exactly the
\* names that own records or are above one; and a zone keeps a nameserver.
ZoneConsistent ==
  /\ zone.namesExist = Existing(zone.origin, zone.recs)
  /\ Owned(zone.recs, zone.origin, {"SOA"}) = <<zone.soaRec>>
  /\ Owned(zone.recs, zone.origin, {"NS"}) # <<>>

\* "Without the recheck, a racing UPDATE that satisfied or invalidated a
\* prerequisite could be papered over" (update.go:101-103): an update is applied to
\* a zone in which its prerequisites hold, and none whose prerequisite another
\* update took away succeeds.
PrereqsHeld ==
  replaced # None => evaluatePrereqs(replaced.zone, req[replaced.by].prereqs) = "NoError"
=============================================================================
