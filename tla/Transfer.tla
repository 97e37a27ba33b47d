------------------------------ MODULE Transfer ------------------------------
(* A zone transfer: the authoritative server's StreamAXFR                    *)
(* (authoritative/authoritative.go), or a server that sends differences, and *)
(* the clients axfr and ixfr, which read the envelopes of the response       *)
(* record by record, verifying the chain of their TSIGs when the request     *)
(* was signed (axfr/tsig.go, ixfr/tsig.go).                                  *)
EXTENDS TransactionAuth, FiniteSets

CONSTANTS
  Histories,    \* zones: sequences of versions, each [serial, recs], recs a sequence
  ChunkBudget,  \* AXFRChunkBudget, a record counting 1
  SerialMod,    \* serials are taken modulo this; 2^32 in the code
  MaxUnsigned,  \* maxUnsignedAXFREnvelopes; 99 in the code
  Key,          \* the TSIG key of a signed transfer
  SignEvery     \* how often such a server signs: set of n, every n-th envelope

VARIABLES
  hist, proto, tsigKey,  \* the zone's versions, "axfr" or "ixfr", the key or NoTSIG
  whole, change,         \* the records the server sent, what happened to them on the way
  reader,                \* recReader: [input, end, cur, pushback, msgEOF, verifier]
  pc, kind, newSOA, emittedFirstSOA, done,
  events,                \* what Next returned
  outcome                \* the error that ended it

vars == <<hist, proto, tsigKey, whole, change, reader, pc, kind, newSOA, emittedFirstSOA, done, events, outcome>>
-----------------------------------------------------------------------------
(* The server. *)

SOA(serial) == [type |-> "SOA", serial |-> serial]
Data(r) == [type |-> "A", serial |-> r]
Records(s) == [i \in DOMAIN s |-> Data(s[i])]

\* StreamAXFR: the records in envelopes, the SOA at both ends.
StreamAXFR_Drops(soa, body) ==
  LET Add(st, r) ==
        IF st.used > 0 /\ st.used + 2 > ChunkBudget
        THEN [out |-> Append(st.out, st.b), b |-> <<>>, used |-> 0]
        ELSE [st EXCEPT !.b = Append(@, r), !.used = @ + 1]
      end == FoldLeft(Add, [out |-> <<>>, b |-> <<soa>>, used |-> 1], body)
  IN  Append(end.out, Append(end.b, soa))

StreamAXFR(soa, body) ==
  LET Flush(st) == [out |-> Append(st.out, st.b), b |-> <<>>, used |-> 0]
      Put(st, r) == [st EXCEPT !.b = Append(@, r), !.used = @ + 1]
      Add(st, r) == Put(IF st.used > 0 /\ st.used + 2 > ChunkBudget THEN Flush(st) ELSE st, r)
      body1 == FoldLeft(Add, [out |-> <<>>, b |-> <<soa>>, used |-> 1],
                        SelectSeq(body, LAMBDA r : r.type # "SOA"))
      end == IF body1.used + 1 > ChunkBudget THEN Flush(body1) ELSE body1
  IN  Append(end.out, Append(end.b, soa))

\* serveAXFR: who asks over a datagram, for a zone that is not here or a name within
\* one, or without the operator's leave, gets an error; zone is the origin findZone gave.
serveAXFR(network, zone, asked, allowed, soa, body) ==
  LET refuse(code) == [rcode |-> code, chunks |-> <<<<>>>>]
  IN  IF network # "tcp" \/ zone = "none" THEN refuse("Refused")
      ELSE IF zone # asked THEN refuse("NotAuth")
      ELSE IF ~allowed THEN refuse("Refused")
      ELSE [rcode |-> "NoError", chunks |-> StreamAXFR(soa, body)]

\* A server of differences, which this repository has not got: the steps from the
\* client's version, the first, to the last one.
Difference(a, b) ==
  <<SOA(a.serial)>> \o Records(SelectSeq(a.recs, LAMBDA r : r \notin ToSet(b.recs)))
    \o <<SOA(b.serial)>> \o Records(SelectSeq(b.recs, LAMBDA r : r \notin ToSet(a.recs)))
Differences(h) ==
  <<SOA(h[Len(h)].serial)>>
    \o (IF Len(h) = 1 THEN <<>>
        ELSE FlattenSeq([i \in 1 .. Len(h) - 1 |-> Difference(h[i], h[i + 1])]) \o <<SOA(h[Len(h)].serial)>>)
InChunks(s, n) ==
  [i \in 1 .. (Len(s) + n - 1) \div n |-> SubSeq(s, (i - 1) * n + 1, IF i * n < Len(s) THEN i * n ELSE Len(s))]

\* Such a server signs the first envelope and every n-th after it.
Plain(id, rcode, body) == [id |-> id, rcode |-> rcode, body |-> body, extra |-> <<>>]
Request == Sign(Plain(1, "NoError", <<>>), Key, 0, MaxFudge)
Envelopes(answer, key, n) ==
  LET chunks == answer.chunks
      plain(i) == Plain(1, answer.rcode, chunks[i])
      at[i \in 0 .. Len(chunks)] ==
        IF i = 0 THEN Request
        ELSE IF (i - 1) % n # 0 THEN [msg |-> plain(i), mac |-> at[i - 1].mac]
        ELSE IF i = 1 THEN SignResponse(plain(i), Key, at[0].mac, 0, MaxFudge)
        ELSE SignAXFRChunk(plain(i), Key, at[i - 1].mac, 0, MaxFudge)
  IN  [i \in DOMAIN chunks |-> IF key = NoTSIG THEN plain(i) ELSE at[i].msg]

\* What may arrive, and what was done to it: all of it; a part; the envelope of
\* another transfer within; and of a signed stream one envelope lost, repeated, or
\* one too many.  "unvouched" is a change that no signature shows: of an unsigned
\* envelope, or a loss that no signed one follows.
Stray(id) == Plain(id, "NoError", <<Data(99)>>)
Signed(envs) == {i \in DOMAIN envs : messageHasTSIG(envs[i])}
Arrivals(envs) ==
  LET as(input, what) == [input |-> input, change |-> what]
      With(x, n) == SubSeq(envs, 1, n) \o <<x>> \o SubSeq(envs, n + 1, Len(envs))
      vouched(yes) == IF yes THEN "vouched" ELSE "unvouched"
  IN  {as(envs, "none")}
        \cup {as(SubSeq(envs, 1, n), "cut") : n \in 0 .. Len(envs) - 1}
        \cup {as(With(Stray(2), n), "vouched") : n \in 0 .. Len(envs)}
        \cup IF Signed(envs) = {} THEN {}
             ELSE {as(RemoveAt(envs, n), vouched(n \in Signed(envs) /\ \E k \in Signed(envs) : n < k)) :
                     n \in DOMAIN envs}
                  \cup {as(InsertAt(envs, n, envs[n]), vouched(n \in Signed(envs))) : n \in DOMAIN envs}
                  \cup {as(With(Stray(1), n), vouched(n = 0)) : n \in 0 .. Len(envs)}
-----------------------------------------------------------------------------
(* recReader and tsigVerifier. *)

newTSIGVerifier(key) ==
  IF key = NoTSIG THEN NoTSIG ELSE [priorMAC |-> Request.mac, first |-> TRUE, unsignedRun |-> 0]

\* verify: the verifier after a message, or the error.
verify(v, m) ==
  LET failed == [err |-> "TSIG", v |-> v]
      After(res) == IF res.err # "none" THEN failed
                    ELSE [err |-> "none", v |-> [priorMAC |-> res.mac, first |-> FALSE, unsignedRun |-> 0]]
  IN  IF messageHasTSIG(m)
      THEN After(IF v.first THEN VerifyResponse(m, Key, v.priorMAC, 0, MaxFudge)
                 ELSE VerifyAXFRChunk(m, Key, v.priorMAC, 0, MaxFudge))
      ELSE IF v.first \/ v.unsignedRun + 1 > MaxUnsigned THEN failed
      ELSE [err |-> "none", v |-> [v EXCEPT !.unsignedRun = @ + 1]]

\* One message of the stream; its ID stands for its question, too.
NextMessage(r) ==
  LET m == r.input[1]
      Taken(checked) ==
        IF checked.err # "none" THEN [err |-> checked.err, r |-> r]
        ELSE [err |-> "none", r |-> [r EXCEPT !.input = Tail(@), !.cur = m.body, !.verifier = checked.v]]
  IN  IF r.input = <<>> THEN [err |-> r.end, r |-> [r EXCEPT !.msgEOF = r.end = "EOF"]]
      ELSE IF m.id # 1 THEN [err |-> "mismatch", r |-> r]
      ELSE IF m.rcode # "NoError" THEN [err |-> "rcode", r |-> r]
      ELSE Taken(IF r.verifier = NoTSIG THEN [err |-> "none", v |-> NoTSIG] ELSE verify(r.verifier, m))

\* Read: the next record, from as many messages as it takes.
Read(r) ==
  LET More(p) == IF p.err # "none" \/ p.r.cur # <<>> THEN p
                 ELSE IF p.r.msgEOF THEN [p EXCEPT !.err = "EOF"] ELSE NextMessage(p.r)
      at[k \in 0 .. Len(r.input) + 1] == IF k = 0 THEN [err |-> "none", r |-> r] ELSE More(at[k - 1])
      Popped(got) == IF got.err # "none" THEN [err |-> got.err, rec |-> NoTSIG, r |-> got.r]
                     ELSE [err |-> "none", rec |-> Head(got.r.cur), r |-> [got.r EXCEPT !.cur = Tail(@)]]
  IN  IF r.pushback # <<>>
      THEN [err |-> "none", rec |-> Head(r.pushback), r |-> [r EXCEPT !.pushback = Tail(@)]]
      ELSE Popped(at[Len(r.input) + 1])

Push(r, recs) == [r EXCEPT !.pushback = @ \o recs]

\* The records up to the next SOA, and that; the error if there is none.
ReadToSOA(r) ==
  LET Keep(p, x) == IF x.err # "none" THEN [p EXCEPT !.err = x.err, !.r = x.r]
                    ELSE IF x.rec.type = "SOA" THEN [p EXCEPT !.soa = x.rec, !.r = x.r]
                    ELSE [p EXCEPT !.recs = Append(@, x.rec), !.r = x.r]
      More(p) == IF p.err # "none" \/ p.soa # NoTSIG THEN p ELSE Keep(p, Read(p.r))
      at[k \in 0 .. Len(whole) + ChunkBudget + 2] ==
        IF k = 0 THEN [err |-> "none", recs |-> <<>>, soa |-> NoTSIG, r |-> r] ELSE More(at[k - 1])
  IN  at[Len(whole) + ChunkBudget + 2]
-----------------------------------------------------------------------------
(* The clients. *)

Init ==
  /\ hist \in Histories /\ proto \in {"axfr", "ixfr"} /\ tsigKey \in {Key, NoTSIG}
  /\ \E n \in SignEvery, incremental \in BOOLEAN, size \in 1 .. ChunkBudget, end \in {"EOF", "error"} :
       LET new == hist[Len(hist)]
           answers == IF proto = "ixfr" /\ incremental
                      THEN {[rcode |-> "NoError", chunks |-> InChunks(Differences(hist), size)]}
                      ELSE {serveAXFR(net, z, asked, allowed, SOA(new.serial), Records(new.recs)) :
                              net \in {"tcp", "udp"}, z \in {"none", "apex"}, asked \in {"apex", "below"},
                              allowed \in BOOLEAN}
       IN  \E answer \in answers :
           /\ whole = FlattenSeq(answer.chunks)
           /\ \E arrival \in Arrivals(Envelopes(answer, tsigKey, n)) :
                /\ change = arrival.change
                /\ reader = [input |-> arrival.input, end |-> end, cur |-> <<>>, pushback |-> <<>>,
                             msgEOF |-> FALSE, verifier |-> newTSIGVerifier(tsigKey)]
  /\ pc = "start" /\ kind = NoTSIG /\ newSOA = NoTSIG /\ emittedFirstSOA = FALSE /\ done = FALSE
  /\ events = <<>> /\ outcome = "none"

Ends(e) == outcome' = e /\ pc' = "ended"

serialIsOlder(a, b) == a # b /\ (b - a) % SerialMod < SerialMod \div 2

\* init of axfr: a SOA comes first.
StartAXFR ==
  /\ pc = "start" /\ proto = "axfr"
  /\ \E x \in {Read(reader)} :
     LET Failed(e) == Ends(e) /\ UNCHANGED <<reader, kind, newSOA>>
     IN  IF x.err # "none" THEN Failed(IF x.err = "EOF" THEN "empty" ELSE x.err)
         ELSE IF x.rec.type # "SOA" THEN Failed("leading")
         ELSE /\ kind' = "axfr" /\ newSOA' = x.rec /\ reader' = Push(x.r, <<x.rec>>)
              /\ pc' = "next" /\ UNCHANGED outcome
  /\ UNCHANGED <<hist, proto, tsigKey, whole, change, emittedFirstSOA, done, events>>

\* init of ixfr: a second record tells the kinds apart.
StartIXFR ==
  /\ pc = "start" /\ proto = "ixfr"
  /\ \E x \in {Read(reader)} : \E y \in {Read(x.r)} :
     LET Failed(e) == Ends(e) /\ UNCHANGED <<reader, kind, newSOA>>
         Of(k, r) == kind' = k /\ reader' = r /\ newSOA' = x.rec /\ pc' = "next" /\ UNCHANGED outcome
     IN  IF x.err # "none" THEN Failed(IF x.err = "EOF" THEN "empty" ELSE x.err)
         ELSE IF x.rec.type # "SOA" THEN Failed("leading")
         ELSE IF y.err = "EOF" THEN Of("uptodate", y.r)
         ELSE IF y.err # "none" THEN Failed(y.err)
         ELSE IF y.rec.type # "SOA" THEN Of("axfr", Push(y.r, <<x.rec, y.rec>>))
         ELSE IF serialIsOlder(y.rec.serial, x.rec.serial) THEN Of("incremental", Push(y.r, <<y.rec>>))
         ELSE IF y.rec.serial # x.rec.serial THEN Failed("pair")
         ELSE IF x.rec.serial = hist[1].serial THEN Of("uptodate", y.r)
         ELSE Of("axfr", Push(y.r, <<x.rec, y.rec>>))
  /\ UNCHANGED <<hist, proto, tsigKey, whole, change, emittedFirstSOA, done, events>>

\* Next of axfr and nextAXFR of ixfr.
nextAXFR ==
  /\ pc = "next" /\ kind = "axfr"
  /\ \E x \in {Read(reader)} :
     LET closing == x.rec.type = "SOA" /\ x.rec.serial = newSOA.serial
     IN  IF done \/ x.err # "none"
         THEN Ends(IF done THEN "EOF" ELSE x.err) /\ UNCHANGED <<reader, emittedFirstSOA, done, events>>
         ELSE /\ reader' = x.r /\ events' = Append(events, x.rec)
              /\ emittedFirstSOA' = (emittedFirstSOA \/ closing)
              /\ done' = (done \/ (closing /\ emittedFirstSOA))
              /\ UNCHANGED <<pc, outcome>>
  /\ UNCHANGED <<hist, proto, tsigKey, whole, change, kind, newSOA>>

\* nextIncremental: a difference, or the closing SOA, which nothing may follow.
nextIncremental ==
  /\ pc = "next" /\ kind = "incremental"
  /\ \E x \in {Read(reader)} : \E after \in {Read(x.r)}, removed \in {ReadToSOA(x.r)} :
     \E added \in {ReadToSOA(removed.r)} :
     LET Failed(e) == Ends(e) /\ UNCHANGED <<reader, done, events>>
         Wrapped(e) == IF e = "EOF" THEN "unexpectedEOF" ELSE e
     IN  IF done THEN Failed("EOF")
         ELSE IF x.err # "none" THEN Failed(Wrapped(x.err))
         ELSE IF x.rec.type # "SOA" THEN Failed("boundary")
         ELSE IF x.rec.serial = newSOA.serial
         THEN IF after.err = "EOF"
              THEN Ends("EOF") /\ done' = TRUE /\ reader' = after.r /\ UNCHANGED events
              ELSE Failed(IF after.err = "none" THEN "unexpected" ELSE after.err)
         ELSE IF removed.err # "none" THEN Failed(Wrapped(removed.err))
         ELSE IF added.err # "none" THEN Failed(IF added.err = "EOF" THEN "closing" ELSE added.err)
         ELSE /\ events' = Append(events, [from |-> x.rec.serial, to |-> removed.soa.serial,
                                           removed |-> removed.recs, added |-> added.recs])
              /\ reader' = Push(added.r, <<added.soa>>) /\ UNCHANGED <<pc, outcome, done>>
  /\ UNCHANGED <<hist, proto, tsigKey, whole, change, kind, newSOA, emittedFirstSOA>>

NextUpToDate ==
  /\ pc = "next" /\ kind = "uptodate" /\ Ends("EOF")
  /\ UNCHANGED <<hist, proto, tsigKey, whole, change, reader, kind, newSOA, emittedFirstSOA, done, events>>

Next == StartAXFR \/ StartIXFR \/ nextAXFR \/ nextIncremental \/ NextUpToDate

Spec == Init /\ [][Next]_vars
-----------------------------------------------------------------------------
(* Properties. *)

Applied ==
  FoldLeft(LAMBDA z, e : (z \ ToSet(e.removed)) \cup ToSet(e.added), ToSet(Records(hist[1].recs)), events)

HandedOver ==
  LET new == hist[Len(hist)]
  IN  CASE kind = "axfr" -> events = <<SOA(new.serial)>> \o Records(new.recs) \o <<SOA(new.serial)>>
        [] kind = "incremental" ->
             /\ Applied = ToSet(Records(new.recs))
             /\ \A i \in DOMAIN events : events[i].from = hist[i].serial /\ events[i].to = hist[i + 1].serial
        [] OTHER -> new.serial = hist[1].serial

\* When Next returns io.EOF, "fully consumed" (ixfr.go:287-288), the caller has the
\* server's zone: the records sent, in order and once each; differences that lead
\* from its version to the server's, across the wrap of the serial; or no news.  So
\* it is whatever the chunks and, of a signed stream, whatever was lost or repeated,
\* with two exceptions.  A stream cut off before its closing SOA ends with io.EOF
\* too, unless it is one of differences; what was handed over is then the beginning,
\* or nothing.  And where not every envelope is signed (axfr/tsig.go:67-86), only the
\* first one, with the SOA, is certain.
TransferredWhole ==
  outcome = "EOF" =>
    CASE change = "cut" /\ kind # "incremental" -> IsPrefix(events, whole)
      [] change = "unvouched" -> newSOA = SOA(hist[Len(hist)].serial)
      [] OTHER -> HandedOver
=============================================================================
