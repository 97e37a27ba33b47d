-------------------------------- MODULE Mdns --------------------------------
(* Multicast DNS (mdns/): announcers that probe for a name, announce their    *)
(* records and withdraw them (publish.go), and a browser that collects what   *)
(* it hears until its context ends (mdns.go).  A message sent reaches any     *)
(* subset of the others, at any later time while they listen.  A record is    *)
(* <<owner, type, rdata>> with numbers for types and rdata, in the order of   *)
(* their bytes; an encoding whose order Go's maps leave open is a choice.     *)
EXTENDS Integers, FiniteSets, Sequences

CONSTANTS
  Announcers,
  Publications,  \* what the announcers may publish: [instance, host, port, texts, addrs],
                 \* texts being the encodings its TXT strings may come in
  ProbeCount, AnnounceCount,
  Typ,           \* the service type
  None

VARIABLES
  pubs,          \* each announcer's publication
  pc, n,         \* each announcer: where it is; probes or announcements sent
  ctx,           \* each announcer's context
  inbox,         \* messages that can still reach each listener
  current,       \* a.current
  reason,        \* why an announcer gave up
  heard,         \* history: whose probe each has heard while it listened
  bctx, merged,  \* the browser: its context and services
  found          \* what Browse returned

vars == <<pubs, pc, n, ctx, inbox, current, reason, heard, bctx, merged, found>>

A == 1
PTR == 12
TXT == 16
SRV == 33
-----------------------------------------------------------------------------
(* Records and messages. *)

\* The record sets one publication can be built into: the strings of its TXT are
\* in any order.
publicationRecords(p) ==
  LET fixed == {<<p.instance, SRV, <<p.port, p.host>>>>, <<Typ, PTR, <<p.instance>>>>}
               \cup {<<p.host, A, <<a>>>> : a \in p.addrs}
  IN  IF p.texts = {} THEN {fixed}
      ELSE {fixed \cup {<<p.instance, TXT, <<t>>>>} : t \in p.texts}

buildProbe(a) == {[from |-> a, kind |-> "probe", ttl |-> 1, rs |-> R] : R \in publicationRecords(pubs[a])}
buildAnnouncement(a) == {[from |-> a, kind |-> "announce", ttl |-> 1, rs |-> R] : R \in publicationRecords(pubs[a])}
buildGoodbye(a) == {[m EXCEPT !.ttl = 0] : m \in buildAnnouncement(a)}

pertinentRecords(R, p) == {r \in R : r[1] \in {p.instance, p.host}}

\* What canonicalSetBytes sorts: type and rdata, without the owner.
Body(R) == {<<r[2], r[3]>> : r \in R}
setsAreEquivalent(R, S) == Cardinality(R) = Cardinality(S) /\ Body(R) = Body(S)

SeqLess(s, t) ==
  \/ \E i \in DOMAIN s \cap DOMAIN t : s[i] < t[i] /\ \A j \in 1 .. i - 1 : s[j] = t[j]
  \/ Len(s) < Len(t) /\ \A j \in DOMAIN s : s[j] = t[j]
Less(x, y) == x[1] < y[1] \/ (x[1] = y[1] /\ SeqLess(x[2], y[2]))


\* bytes.Compare of the two sorted sets: the least element that only one of them
\* has decides, unless the other ends before it.
proberWinsTiebreak(theirs, ours) ==
  LET T == Body(theirs)
      O == Body(ours)
      least(x) == \A y \in (T \ O) \cup (O \ T) : x = y \/ Less(x, y)
  IN  \/ \E x \in O \ T : least(x) /\ \E y \in T : Less(x, y)
      \/ \E x \in T \ O : least(x) /\ ~\E y \in O : Less(x, y)

conflictsWith(R, p) ==
  \E r \in R :
    \/ r[2] = SRV /\ r[1] = p.instance /\ r[3] # <<p.port, p.host>>
    \/ r[2] = A /\ r[1] = p.host /\ r[3][1] \notin p.addrs
-----------------------------------------------------------------------------
(* The announcer. *)

Init ==
  /\ pubs \in Publications
  /\ pc = [a \in Announcers |-> "idle"] /\ n = [a \in Announcers |-> 0]
  /\ ctx = [a \in Announcers |-> "live"] /\ inbox = [a \in Announcers \cup {"browser"} |-> {}]
  /\ current = [a \in Announcers |-> None] /\ reason = [a \in Announcers |-> None]
  /\ heard = [a \in Announcers |-> {}]
  /\ bctx = "live" /\ merged = [k \in {} |-> None] /\ found = None

\* A probe has no answers and is nothing to a browser.
Send(m) ==
  inbox' = [l \in DOMAIN inbox |->
              IF l = m.from \/ (l = "browser" /\ m.kind = "probe") THEN inbox[l] ELSE inbox[l] \cup {m}]

Announce(a) ==
  /\ pc[a] = "idle" /\ pc' = [pc EXCEPT ![a] = IF ProbeCount > 0 THEN "probe" ELSE "announce"]
  /\ n' = [n EXCEPT ![a] = 0]
  /\ UNCHANGED <<pubs, ctx, inbox, current, reason, heard, bctx, merged, found>>

SendProbe(a) ==
  /\ pc[a] = "probe" /\ \E m \in buildProbe(a) : Send(m)
  /\ pc' = [pc EXCEPT ![a] = "listen"] /\ n' = [n EXCEPT ![a] = @ + 1]
  /\ UNCHANGED <<pubs, ctx, current, reason, heard, bctx, merged, found>>

\* listenForConflict, for one message: the answer section of an announcement, the
\* authority section of a probe.
Loses(a, m, ours) ==
  LET p == pubs[a]
      theirs == pertinentRecords(m.rs, p)
  IN  IF m.kind = "announce" THEN conflictsWith(m.rs, p)
      ELSE /\ theirs # {}
           /\ ~setsAreEquivalent(theirs, pertinentRecords(ours, p))
           /\ proberWinsTiebreak(theirs, pertinentRecords(ours, p))

Recv(a, m) ==
  /\ pc[a] = "listen" /\ m \in inbox[a]
  /\ inbox' = [inbox EXCEPT ![a] = @ \ {m}]
  /\ heard' = IF m.kind = "probe" THEN [heard EXCEPT ![a] = @ \cup {m.from}] ELSE heard
  /\ \E ours \in publicationRecords(pubs[a]) :
       IF Loses(a, m, ours)
       THEN pc' = [pc EXCEPT ![a] = "conflict"] /\ reason' = [reason EXCEPT ![a] = m.kind]
       ELSE UNCHANGED <<pc, reason>>
  /\ UNCHANGED <<pubs, n, ctx, current, bctx, merged, found>>

\* The transport fails while it listens.
RecvFails(a) ==
  /\ pc[a] = "listen" /\ pc' = [pc EXCEPT ![a] = "failed"]
  /\ UNCHANGED <<pubs, n, ctx, inbox, current, reason, heard, bctx, merged, found>>

\* The window ends, with the probe's wait or with the caller's context.
ListenEnds(a) ==
  /\ pc[a] = "listen"
  /\ pc' = [pc EXCEPT ![a] = IF n[a] < ProbeCount THEN "probe" ELSE "announce"]
  /\ n' = [n EXCEPT ![a] = IF @ < ProbeCount THEN @ ELSE 0]
  /\ UNCHANGED <<pubs, ctx, inbox, current, reason, heard, bctx, merged, found>>

SendAnnouncement(a) ==
  /\ pc[a] = "announce" /\ \E m \in buildAnnouncement(a) : Send(m)
  /\ n' = [n EXCEPT ![a] = @ + 1]
  /\ IF n[a] + 1 < AnnounceCount
     THEN pc' = [pc EXCEPT ![a] = "wait"] /\ UNCHANGED current
     ELSE pc' = [pc EXCEPT ![a] = "published"] /\ current' = [current EXCEPT ![a] = pubs[a]]
  /\ UNCHANGED <<pubs, ctx, reason, heard, bctx, merged, found>>

AnnounceWait(a) ==
  /\ pc[a] = "wait"
  /\ \/ pc' = [pc EXCEPT ![a] = "announce"]
     \/ ctx[a] = "done" /\ pc' = [pc EXCEPT ![a] = "cancelled"]
  /\ UNCHANGED <<pubs, n, ctx, inbox, current, reason, heard, bctx, merged, found>>

\* A send fails, in Announce or in Withdraw.
SendFails(a) ==
  /\ pc[a] \in {"probe", "announce"} /\ pc' = [pc EXCEPT ![a] = "failed"]
  /\ UNCHANGED <<pubs, n, ctx, inbox, current, reason, heard, bctx, merged, found>>

Withdraw(a, sent) ==
  /\ pc[a] \in {"published", "conflict", "cancelled", "failed"}
  /\ pc' = [pc EXCEPT ![a] = "withdrawn"] /\ current' = [current EXCEPT ![a] = None]
  /\ IF current[a] # None /\ sent
     THEN \E m \in buildGoodbye(a) : Send(m)
     ELSE UNCHANGED inbox
  /\ UNCHANGED <<pubs, n, ctx, reason, heard, bctx, merged, found>>

ContextEnds(a) ==
  /\ ctx[a] = "live" /\ pc[a] \in {"idle", "probe", "listen", "announce", "wait"}
  /\ ctx' = [ctx EXCEPT ![a] = "done"]
  /\ UNCHANGED <<pubs, pc, n, inbox, current, reason, heard, bctx, merged, found>>
-----------------------------------------------------------------------------
(* Browse. *)

\* The services of a response: each PTR whose instance has an SRV.
ParseBrowseResponse(m) ==
  {[instance |-> r[3][1], host |-> s[3][2], port |-> s[3][1],
    addrs |-> {x[3][1] : x \in {y \in m.rs : y[2] = A /\ y[1] = s[3][2]}}] :
     <<r, s>> \in {<<x, y>> \in m.rs \X m.rs :
                     x[2] = PTR /\ y[2] = SRV /\ y[1] = x[3][1]}}

BrowseRecv(m) ==
  /\ found = None /\ m \in inbox["browser"]
  /\ inbox' = [inbox EXCEPT !["browser"] = @ \ {m}]
  /\ LET S == ParseBrowseResponse(m)
     IN  merged' = [k \in DOMAIN merged \cup {s.instance : s \in S} |->
                      IF \E s \in S : s.instance = k THEN CHOOSE s \in S : s.instance = k
                      ELSE merged[k]]
  /\ UNCHANGED <<pubs, pc, n, ctx, current, reason, heard, bctx, found>>

BrowserDone ==
  /\ bctx = "live" /\ bctx' = "done"
  /\ UNCHANGED <<pubs, pc, n, ctx, inbox, current, reason, heard, merged, found>>

\* The watcher has moved the deadline to now, or the socket failed.
BrowseReturns ==
  /\ found = None /\ bctx = "done"
  /\ found' = [k \in DOMAIN merged |-> merged[k]]
  /\ UNCHANGED <<pubs, pc, n, ctx, inbox, current, reason, heard, bctx, merged>>

Next ==
  \/ \E a \in Announcers :
       \/ Announce(a) \/ SendProbe(a) \/ ListenEnds(a) \/ SendAnnouncement(a)
       \/ AnnounceWait(a) \/ SendFails(a) \/ RecvFails(a) \/ ContextEnds(a)
       \/ \E m \in inbox[a] : Recv(a, m)
       \/ \E sent \in BOOLEAN : Withdraw(a, sent)
  \/ \E m \in inbox["browser"] : BrowseRecv(m)
  \/ BrowserDone \/ BrowseReturns

Spec == Init /\ [][Next]_vars
-----------------------------------------------------------------------------
(* Properties. *)

\* A set of records that canonicalSetBytes encodes in one way only.
Fixed(a) == Cardinality(publicationRecords(pubs[a])) = 1

\* "only the loser of the compare aborts" (publish.go:294-295): of two announcers
\* that hear each other's probes, one is not made to give up by the other.  That is
\* so for two that claim the same names: when they share the instance and not the
\* host, each compares the other's SRV and TXT with its own SRV, TXT and addresses
\* and loses; and when one has several TXT strings, it puts them in another order
\* each time (publish.go:484-489).
OneLoses ==
  \A a, b \in Announcers :
    a # b /\ pubs[a].instance = pubs[b].instance /\ pubs[a].host = pubs[b].host /\ Fixed(a) /\ Fixed(b) =>
      ~(reason[a] = "probe" /\ reason[b] = "probe" /\ heard[a] = {b} /\ heard[b] = {a})

\* Two announcers that both heard the other's probe, and claim the same name with
\* different records, are never both published; but for the order of TXT strings.
NoTwoOwners ==
  \A a, b \in Announcers :
    /\ a # b /\ Fixed(a) /\ Fixed(b)
    /\ pubs[a].instance = pubs[b].instance \/ pubs[a].host = pubs[b].host
    /\ \A R \in publicationRecords(pubs[a]), S \in publicationRecords(pubs[b]) : Body(R) # Body(S)
    /\ b \in heard[a] /\ a \in heard[b]
    => current[a] = None \/ current[b] = None
=============================================================================
