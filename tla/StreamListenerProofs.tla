------------------------ MODULE StreamListenerProofs ------------------------
(* The limits of the accept loop hold for every number of connections and    *)
(* sources and every value of the two caps; and so do those of the DoH       *)
(* server's listener, whose every request has one response.                  *)
EXTENDS MCStreamListener, FiniteSetTheorems, TLAPS
-----------------------------------------------------------------------------
(* The accept loop. *)

\* The accounting of slots and sources together with the types: inductive.
Accounted == TypeOK /\ SlotsAccounted /\ SourcesAccounted /\ ReturnsDrained

\* Adding or removing one connection.
LEMMA CountStep ==
  ASSUME NEW S \in SUBSET Conns, NEW c \in Conns
  PROVE  /\ Cardinality(S) \in Nat
         /\ c \notin S => Cardinality(S \cup {c}) = Cardinality(S) + 1
         /\ c \in S => Cardinality(S \ {c}) = Cardinality(S) - 1 /\ Cardinality(S) > 0
<1>1. IsFiniteSet(S)
  BY StreamListenerAssumption, FS_Subset
<1>2. Cardinality(S) \in Nat /\ Cardinality(S \ {c}) \in Nat
  BY <1>1, FS_CardinalityType, FS_Subset
<1>3. c \notin S => Cardinality(S \cup {c}) = Cardinality(S) + 1
  BY <1>1, FS_AddElement
<1>4. c \in S => Cardinality(S \ {c}) = Cardinality(S) - 1
  BY <1>1, FS_RemoveElement
<1>. QED BY <1>2, <1>3, <1>4

\* Nothing is held initially.
LEMMA InitAccounted == Init => Accounted
<1>. SUFFICES ASSUME Init PROVE Accounted
  OBVIOUS
<1>1. TypeOK /\ ReturnsDrained
  BY DEF Init, TypeOK, ReturnsDrained
<1>2. Busy = {} /\ \A s \in Sources : Of(s) = {}
  BY StreamListenerAssumption DEF Init, Busy, Of
<1>3. SlotsAccounted /\ SourcesAccounted
  BY <1>2, FS_EmptySet, StreamListenerAssumption
  DEF Init, SlotsAccounted, SourcesAccounted, Limited
<1>. QED BY <1>1, <1>3 DEF Accounted

\* Steps that start and end no connection.
LEMMA LoopStep ==
  ASSUME Accounted, UNCHANGED connVars,
         \/ AcquireSlot \/ AcquireCancelled \/ AcceptStopped \/ AcceptTransient
         \/ AcceptPermanent \/ BackoffEnds \/ BackoffCancelled \/ Drained
         \/ Cancel \/ watch \/ \E s \in Sources : AcceptRefused(s)
  PROVE  Accounted'
<1>0. TypeOK /\ SlotsAccounted /\ SourcesAccounted /\ ReturnsDrained
  BY DEF Accounted
<1>1. Busy' = Busy /\ \A s \in Sources : Of(s)' = Of(s)
  BY DEF connVars, Busy, Of
<1>2. Cardinality(Busy) \in Nat
  BY StreamListenerAssumption, FS_Subset, FS_CardinalityType DEF Busy
<1>3. TypeOK'
  BY <1>0, <1>2 DEF TypeOK, SlotsAccounted, AcquireSlot, AcquireCancelled, AcceptStopped, AcceptTransient,
     AcceptPermanent, BackoffEnds, BackoffCancelled, Drained, Cancel, watch,
     WatchCancelled, WatchStopped, AcceptRefused, TakeSlot, GiveSlot, Leave,
     connVars, loopVars, vars
<1>4. SlotsAccounted'
  BY <1>0, <1>1, <1>2, StreamListenerAssumption
  DEF TypeOK, SlotsAccounted, Limited, AcquireSlot, AcquireCancelled, AcceptStopped,
     AcceptTransient, AcceptPermanent, BackoffEnds, BackoffCancelled, Drained, Cancel,
     watch, WatchCancelled, WatchStopped, AcceptRefused, TakeSlot, GiveSlot, Leave,
     loopVars
<1>5. SourcesAccounted'
  BY <1>0, <1>1 DEF SourcesAccounted, connVars
<1>6. ReturnsDrained'
  BY <1>0, <1>1 DEF ReturnsDrained, Busy, AcquireSlot, AcquireCancelled, AcceptStopped,
     AcceptTransient, AcceptPermanent, BackoffEnds, BackoffCancelled, Drained, Cancel,
     watch, WatchCancelled, WatchStopped, AcceptRefused, Leave, loopVars
<1>. QED BY <1>3, <1>4, <1>5, <1>6 DEF Accounted

\* Accepting a connection hands it the loop's slot and reserves its source.
LEMMA AcceptStep ==
  ASSUME Accounted, NEW c \in Conns, NEW s \in Sources, AcceptConn(c, s)
  PROVE  Accounted'
<1>0. TypeOK /\ SlotsAccounted /\ SourcesAccounted /\ ReturnsDrained
  BY DEF Accounted
<1>1. /\ loop = "accept" /\ loop' = "acquire" /\ sem' = sem /\ stage[c] = "free"
      /\ Admits(s) /\ Reserve(s)
      /\ peer' = [peer EXCEPT ![c] = s] /\ stage' = [stage EXCEPT ![c] = "serving"]
  BY DEF AcceptConn
<1>2. TypeOK'
  BY <1>0, <1>1 DEF TypeOK, AcceptConn, Reserve
<1>3. SlotsAccounted'
  <2>1. c \notin Busy /\ Busy' = Busy \cup {c}
    BY <1>0, <1>1 DEF TypeOK, Busy
  <2>2. Cardinality(Busy') = Cardinality(Busy) + 1 /\ Cardinality(Busy) \in Nat
    BY <2>1, CountStep DEF Busy
  <2>. QED BY <1>0, <1>1, <2>2 DEF SlotsAccounted
<1>4. SourcesAccounted'
  <2>1. \A d \in Conns : peer'[d] # None <=> stage'[d] = "serving"
    BY <1>0, <1>1, StreamListenerAssumption DEF TypeOK, SourcesAccounted
  <2>2. ASSUME NEW t \in Sources, MaxConnsPerSource > 0
        PROVE  counts'[t] = Cardinality(Of(t)') /\ counts'[t] <= MaxConnsPerSource
    <3>1. counts[t] = Cardinality(Of(t)) /\ counts[t] <= MaxConnsPerSource
      BY <1>0, <2>2 DEF SourcesAccounted
    <3>2. CASE t = s
      <4>1. c \notin Of(s) /\ Of(s)' = Of(s) \cup {c}
        BY <1>0, <1>1, StreamListenerAssumption DEF TypeOK, SourcesAccounted, Of
      <4>2. Cardinality(Of(s)') = Cardinality(Of(s)) + 1
        BY <4>1, CountStep DEF Of
      <4>3. counts'[s] = counts[s] + 1 /\ counts[s] < MaxConnsPerSource /\ counts[s] \in Int
        BY <1>0, <1>1, <2>2, StreamListenerAssumption DEF TypeOK, Reserve, Admits
      <4>. QED BY <3>1, <3>2, <4>2, <4>3, StreamListenerAssumption
    <3>3. CASE t # s
      <4>1. Of(t)' = Of(t)
        BY <1>0, <1>1, <3>3, StreamListenerAssumption DEF TypeOK, SourcesAccounted, Of
      <4>2. counts'[t] = counts[t]
        BY <1>0, <1>1, <3>3 DEF TypeOK, Reserve
      <4>. QED BY <3>1, <4>1, <4>2
    <3>. QED BY <3>2, <3>3
  <2>. QED BY <2>1, <2>2 DEF SourcesAccounted
<1>5. ReturnsDrained'
  BY <1>1 DEF ReturnsDrained
<1>. QED BY <1>2, <1>3, <1>4, <1>5 DEF Accounted

\* The deferred function gives back the source and then the slot, once each.
LEMMA ConnectionStep ==
  ASSUME Accounted, NEW c \in Conns, connection(c)
  PROVE  Accounted'
<1>0. TypeOK /\ SlotsAccounted /\ SourcesAccounted /\ ReturnsDrained
  BY DEF Accounted
<1>1. CASE ReleaseSource(c)
  <2>. DEFINE s == peer[c]
  <2>1. /\ stage[c] = "serving" /\ s \in Sources /\ Release(s)
        /\ UNCHANGED <<ctx, listener, watcher, loop, outcome, sem>>
        /\ peer' = [peer EXCEPT ![c] = None] /\ stage' = [stage EXCEPT ![c] = "released"]
    BY <1>0, <1>1 DEF ReleaseSource, loopVars, TypeOK, SourcesAccounted
  <2>2. TypeOK'
    BY <1>0, <2>1 DEF TypeOK, Release
  <2>3. Busy' = Busy
    BY <1>0, <2>1 DEF TypeOK, Busy
  <2>4. SlotsAccounted' /\ ReturnsDrained'
    BY <1>0, <2>1, <2>3 DEF SlotsAccounted, ReturnsDrained
  <2>5. SourcesAccounted'
    <3>1. \A d \in Conns : peer'[d] # None <=> stage'[d] = "serving"
      BY <1>0, <2>1 DEF TypeOK, SourcesAccounted
    <3>2. ASSUME NEW t \in Sources, MaxConnsPerSource > 0
          PROVE  counts'[t] = Cardinality(Of(t)') /\ counts'[t] <= MaxConnsPerSource
      <4>1. counts[t] = Cardinality(Of(t)) /\ counts[t] <= MaxConnsPerSource
        BY <1>0, <3>2 DEF SourcesAccounted
      <4>2. CASE t = s
        <5>1. c \in Of(s) /\ Of(t)' = Of(t) \ {c}
          BY <1>0, <2>1, <4>2, StreamListenerAssumption DEF TypeOK, Of
        <5>2. /\ Cardinality(Of(t)') = Cardinality(Of(t)) - 1 /\ Cardinality(Of(t)) > 0
              /\ Cardinality(Of(t)) \in Nat
          BY <4>2, <5>1, CountStep DEF Of
        <5>3. counts'[t] = counts[t] - 1
          <6>1. counts' = [counts EXCEPT ![s] = IF @ <= 1 THEN 0 ELSE @ - 1]
            BY <2>1, <3>2, StreamListenerAssumption DEF Release
          <6>. QED BY <1>0, <4>1, <4>2, <5>2, <6>1 DEF TypeOK
        <5>. QED BY <4>1, <5>2, <5>3, StreamListenerAssumption
      <4>3. CASE t # s
        <5>1. Of(t)' = Of(t)
          BY <1>0, <2>1, <4>3, StreamListenerAssumption DEF TypeOK, Of
        <5>2. counts'[t] = counts[t]
          BY <1>0, <2>1, <4>3 DEF TypeOK, Release
        <5>. QED BY <4>1, <5>1, <5>2
      <4>. QED BY <4>2, <4>3
    <3>. QED BY <3>1, <3>2 DEF SourcesAccounted
  <2>. QED BY <2>2, <2>4, <2>5 DEF Accounted
<1>2. CASE ReleaseSlot(c)
  <2>1. /\ stage[c] = "released" /\ GiveSlot /\ stage' = [stage EXCEPT ![c] = "free"]
        /\ UNCHANGED <<ctx, listener, watcher, loop, outcome, counts, peer>>
    BY <1>2 DEF ReleaseSlot
  <2>2. TypeOK'
    <3>1. Cardinality(Busy) \in Nat /\ Cardinality(Busy) > 0
      BY <1>0, <2>1, CountStep DEF TypeOK, Busy
    <3>2. sem' \in Nat
      BY <1>0, <2>1, <3>1 DEF TypeOK, SlotsAccounted, GiveSlot
    <3>. QED BY <1>0, <2>1, <3>2 DEF TypeOK
  <2>3. c \in Busy /\ Busy' = Busy \ {c}
    BY <1>0, <2>1 DEF TypeOK, Busy
  <2>4. Cardinality(Busy') = Cardinality(Busy) - 1 /\ Cardinality(Busy) \in Nat
    BY <2>3, CountStep DEF Busy
  <2>5. SlotsAccounted' /\ ReturnsDrained'
    BY <1>0, <2>1, <2>3, <2>4, StreamListenerAssumption
    DEF TypeOK, SlotsAccounted, ReturnsDrained, Limited, GiveSlot
  <2>6. \A s \in Sources : Of(s)' = Of(s)
    BY <2>1 DEF Of
  <2>7. SourcesAccounted'
    BY <1>0, <2>1, <2>6 DEF TypeOK, SourcesAccounted
  <2>. QED BY <2>2, <2>5, <2>7 DEF Accounted
<1>. QED BY <1>1, <1>2 DEF connection

\* Whatever the order in which connections come, fail, are refused and end,
\* and whenever the context is cancelled, the accounting is exact.
THEOREM Accounting == Spec => []Accounted
<1>1. Accounted /\ [Next]_vars => Accounted'
  <2>. SUFFICES ASSUME Accounted, [Next]_vars PROVE Accounted'
    OBVIOUS
  <2>1. CASE UNCHANGED vars
    BY <2>1 DEF vars, Accounted, TypeOK, SlotsAccounted, SourcesAccounted, ReturnsDrained,
       Busy, Of
  <2>2. CASE \/ AcquireSlot \/ AcquireCancelled \/ AcceptStopped \/ AcceptTransient
             \/ AcceptPermanent \/ BackoffEnds \/ BackoffCancelled \/ Drained
             \/ Cancel \/ watch \/ \E s \in Sources : AcceptRefused(s)
    <3>1. UNCHANGED connVars
      BY <2>2 DEF AcquireSlot, AcquireCancelled, AcceptStopped, AcceptTransient,
         AcceptPermanent, BackoffEnds, BackoffCancelled, Drained, Cancel, watch,
         WatchCancelled, WatchStopped, AcceptRefused
    <3>. QED BY <2>2, <3>1, LoopStep
  <2>. QED BY <2>1, <2>2, AcceptStep, ConnectionStep DEF Next, Run
<1>. QED BY <1>1, InitAccounted, PTL DEF Spec

\* The slot semaphore is exact and bounded.
THEOREM SlotBound == Spec => []SlotsAccounted
<1>1. Accounted => SlotsAccounted
  BY DEF Accounted
<1>. QED BY <1>1, Accounting, PTL

\* The per-source counts are exact and bounded.
THEOREM SourceBound == Spec => []SourcesAccounted
<1>1. Accounted => SourcesAccounted
  BY DEF Accounted
<1>. QED BY <1>1, Accounting, PTL

\* Run never returns before the last connection goroutine.
THEOREM DrainedOnReturn == Spec => []ReturnsDrained
<1>1. Accounted => ReturnsDrained
  BY DEF Accounted
<1>. QED BY <1>1, Accounting, PTL
-----------------------------------------------------------------------------
(* The DoH server. *)

ConnStates ==
  [state : {"none", "open", "dropped", "closed", "closed again"}, src : HSources \cup {None}]

\* The slots in use, by connection and by source, with the types: inductive.
DohInv ==
  /\ accept \in {"acquire", "accept", "returned"} /\ hsem \in Nat
  /\ perSource \in [HSources -> Int] /\ hconn \in [HConns -> ConnStates]
  /\ H!ConnsAccounted /\ H!AnsweredOnce

\* How a set of HTTP connections grows and shrinks by one.
LEMMA OpenStep ==
  ASSUME NEW S \in SUBSET HConns, NEW c
  PROVE  /\ H!Cardinality(S) \in Nat
         /\ c \notin S => H!Cardinality(S \cup {c}) = H!Cardinality(S) + 1
         /\ c \in S => H!Cardinality(S \ {c}) = H!Cardinality(S) - 1
<1>1. IsFiniteSet(S)
  BY DoHAssumption, FS_Subset
<1>2. /\ Cardinality(S) \in Nat
      /\ c \notin S => Cardinality(S \cup {c}) = Cardinality(S) + 1
      /\ c \in S => Cardinality(S \ {c}) = Cardinality(S) - 1
  BY <1>1, FS_CardinalityType, FS_AddElement, FS_RemoveElement
<1>3. \A T : H!Cardinality(T) = Cardinality(T)
  BY DEF H!Cardinality, Cardinality
<1>. QED BY <1>2, <1>3

\* A handler answers a request once, whatever and however often it writes.
LEMMA OneResponse ==
  ASSUME NEW r, NEW ws \in HReplies
  PROVE  H!Len(H!ServeHTTP(r, ws)) = 1
<1>. DEFINE Status == {"200", "400", "405", "413", "415", "500"}
            wrote == IF ws = <<>> THEN <<>>
                     ELSE LET first == H!WriteMsg(<<>>, ws[1])
                          IN  IF Len(ws) = 1 THEN first ELSE H!WriteMsg(first, ws[2])
<1>1. \A m : H!WriteMsg(<<>>, m) \in {<<"200">>, <<"500">>}
  BY DEF H!WriteMsg
<1>2. \A s \in {<<"200">>, <<"500">>} : \A m : H!WriteMsg(s, m) = s
  BY DEF H!WriteMsg
<1>3. wrote \in {<<>>, <<"200">>, <<"500">>}
  BY <1>1, <1>2
<1>4. H!readRequest(r) \in {"400", "405", "413", "415", "body"}
  BY DEF H!readRequest
<1>5. H!ServeHTTP(r, ws) \in {<<s>> : s \in Status}
  <2>1. CASE H!readRequest(r) # "body"
    BY <1>4, <2>1 DEF H!ServeHTTP
  <2>2. CASE H!readRequest(r) = "body" /\ ~r.dns
    BY <2>2 DEF H!ServeHTTP
  <2>3. CASE H!readRequest(r) = "body" /\ r.dns /\ r.preflight \in {"drop", "reply"}
    BY <1>1, <2>3 DEF H!ServeHTTP
  <2>4. CASE H!readRequest(r) = "body" /\ r.dns /\ r.preflight \notin {"drop", "reply"}
    <3>1. H!ServeHTTP(r, ws) = IF wrote = <<>> THEN H!WriteMsg(<<>>, "ok") ELSE wrote
      BY <2>4 DEF H!ServeHTTP
    <3>. HIDE DEF wrote
    <3>. QED BY <1>1, <1>3, <3>1
  <2>. QED BY <2>1, <2>2, <2>3, <2>4
<1>6. PICK s \in Status : H!ServeHTTP(r, ws) = <<s>>
  BY <1>5
<1>7. H!Len(<<s>>) = 1
  OBVIOUS
<1>. QED BY <1>6, <1>7

\* A server that has just begun to listen.
LEMMA DohInit == H!Init => DohInv
<1>. SUFFICES ASSUME H!Init PROVE DohInv
  OBVIOUS
<1>1. hconn \in [HConns -> ConnStates] /\ \A c \in HConns : hconn[c].state = "none"
  BY DEF H!Init, H!Conn, ConnStates
<1>2. H!Open = {} /\ \A s \in HSources : H!OpenFrom(s) = {}
  BY <1>1 DEF H!Init, H!Open, H!OpenFrom, H!IsOpen
<1>3. H!Cardinality({}) = 0
  <2>1. H!Cardinality({}) = Cardinality({})
    BY DEF H!Cardinality, Cardinality
  <2>. QED BY <2>1, FS_EmptySet
<1>4. H!ConnsAccounted
  <2>1. H!Cardinality(H!Open) = 0 /\ \A s \in HSources : H!Cardinality(H!OpenFrom(s)) = 0
    BY <1>2, <1>3
  <2>. QED BY <2>1, DoHAssumption DEF H!Init, H!ConnsAccounted
<1>5. H!AnsweredOnce
  BY DEF H!Init, H!AnsweredOnce, H!Stream
<1>. QED BY <1>1, <1>4, <1>5 DEF H!Init, DohInv

\* A step that opens and closes no connection: slots change hands with accept only.
LEMMA DohLoop ==
  ASSUME DohInv, H!acquire \/ H!AcceptFails \/ H!Cancel \/ H!Shutdown \/ H!ShutdownReturns
                 \/ H!CloseDone \/ UNCHANGED H!vars
  PROVE  DohInv'
<1>1. UNCHANGED <<hconn, stream, perSource>>
  BY DEF H!acquire, H!AcceptFails, H!Cancel, H!Shutdown, H!ShutdownReturns, H!CloseDone, H!vars
<1>2. H!Open' = H!Open /\ \A s \in HSources : H!OpenFrom(s)' = H!OpenFrom(s)
  BY <1>1 DEF H!Open, H!OpenFrom, H!IsOpen
<1>3. H!Cardinality(H!Open) \in Nat
  <2>1. H!Open \in SUBSET HConns
    BY DEF H!Open
  <2>. QED BY <2>1, OpenStep
<1>4. /\ accept' \in {"acquire", "accept", "returned"} /\ hsem' \in Nat
      /\ hsem' = H!Cardinality(H!Open) + (IF accept' = "accept" THEN 1 ELSE 0)
      /\ HMaxConnections > 0 => hsem' <= HMaxConnections
  <2>. USE <1>3, DoHAssumption DEF DohInv, H!ConnsAccounted
  <2>1. CASE H!acquire
    BY <2>1 DEF H!acquire, H!GlobalCap
  <2>2. CASE H!AcceptFails
    BY <2>2 DEF H!AcceptFails
  <2>3. CASE UNCHANGED <<accept, hsem>>
    BY <2>3
  <2>. QED BY <2>1, <2>2, <2>3 DEF H!Cancel, H!Shutdown, H!ShutdownReturns, H!CloseDone, H!vars
<1>5. H!ConnsAccounted'
  BY <1>1, <1>2, <1>4 DEF DohInv, H!ConnsAccounted
<1>6. H!AnsweredOnce'
  BY <1>1 DEF DohInv, H!AnsweredOnce
<1>. QED BY <1>1, <1>4, <1>5, <1>6 DEF DohInv

\* A connection is admitted or dropped.
LEMMA DohAccept ==
  ASSUME DohInv, NEW c \in HConns, NEW s \in HSources \cup {None}, H!Accept(c, s)
  PROVE  DohInv'
<1>1. /\ accept = "accept" /\ accept' = "acquire" /\ hconn[c].state = "none"
  BY DEF H!Accept
<1>2. H!Open \in SUBSET HConns /\ c \notin H!Open /\ H!Cardinality(H!Open) \in Nat
  <2>1. H!Open \in SUBSET HConns /\ c \notin H!Open
    BY <1>1 DEF H!Open, H!IsOpen
  <2>. QED BY <2>1, OpenStep
<1>3. CASE s # None /\ ~H!Reserve(s)
  <2>. DEFINE v == H!Conn("dropped", s)
  <2>1. /\ hconn' = [hconn EXCEPT ![c] = v] /\ hsem' = hsem - 1
        /\ perSource' = perSource /\ stream' = stream
    BY <1>3 DEF H!Accept
  <2>2. v \in ConnStates /\ v.state = "dropped"
    BY DEF H!Conn, ConnStates
  <2>. HIDE DEF v
  <2>3. H!Open' = H!Open /\ \A x \in HSources : H!OpenFrom(x)' = H!OpenFrom(x)
    BY <1>1, <2>1, <2>2 DEF DohInv, H!Open, H!OpenFrom, H!IsOpen
  <2>4. hsem' \in Nat /\ H!ConnsAccounted'
    BY <1>1, <1>2, <2>1, <2>3, DoHAssumption DEF DohInv, H!ConnsAccounted
  <2>5. H!AnsweredOnce'
    BY <2>1 DEF DohInv, H!AnsweredOnce
  <2>6. hconn' \in [HConns -> ConnStates]
    BY <2>1, <2>2 DEF DohInv
  <2>. QED BY <1>1, <2>1, <2>4, <2>5, <2>6 DEF DohInv
<1>4. CASE ~(s # None /\ ~H!Reserve(s))
  <2>. DEFINE v == H!Conn("open", s)
  <2>1. /\ hconn' = [hconn EXCEPT ![c] = v] /\ hsem' = hsem /\ stream' = stream
        /\ perSource' = IF s = None \/ HMaxConnsPerSource <= 0 THEN perSource
                        ELSE [perSource EXCEPT ![s] = @ + 1]
    BY <1>4 DEF H!Accept
  <2>2. v \in ConnStates /\ v.state = "open" /\ v.src = s
    BY DEF H!Conn, ConnStates
  <2>. HIDE DEF v
  <2>3. /\ H!Open' = H!Open \cup {c}
        /\ \A x \in HSources : H!OpenFrom(x)' = IF x = s THEN H!OpenFrom(x) \cup {c} ELSE H!OpenFrom(x)
        /\ \A x \in HSources : H!OpenFrom(x) \in SUBSET HConns /\ c \notin H!OpenFrom(x)
    BY <1>1, <2>1, <2>2 DEF DohInv, H!Open, H!OpenFrom, H!IsOpen
  <2>4. H!Cardinality(H!Open') = H!Cardinality(H!Open) + 1
    BY <1>2, <2>3, OpenStep
  <2>5. \A x \in HSources : /\ H!Cardinality(H!OpenFrom(x)) \in Nat
                            /\ H!Cardinality(H!OpenFrom(x) \cup {c}) = H!Cardinality(H!OpenFrom(x)) + 1
    BY <2>3, OpenStep
  <2>6. perSource' \in [HSources -> Int]
    BY <2>1 DEF DohInv
  <2>7. ASSUME NEW x \in HSources, HMaxConnsPerSource > 0
        PROVE  perSource'[x] = H!Cardinality(H!OpenFrom(x)') /\ perSource'[x] <= HMaxConnsPerSource
    <3>1. perSource[x] = H!Cardinality(H!OpenFrom(x)) /\ perSource[x] <= HMaxConnsPerSource
      BY <2>7 DEF DohInv, H!ConnsAccounted
    <3>2. CASE x = s
      <4>1. perSource'[x] = perSource[x] + 1 /\ perSource[x] < HMaxConnsPerSource /\ perSource[x] \in Int
        BY <1>4, <2>1, <2>7, <3>2, DoHAssumption DEF DohInv, H!Reserve
      <4>. QED BY <2>3, <2>5, <3>1, <3>2, <4>1, DoHAssumption
    <3>3. CASE x # s
      <4>1. perSource'[x] = perSource[x]
        BY <2>1, <3>3 DEF DohInv
      <4>. QED BY <2>3, <3>1, <3>3, <4>1
    <3>. QED BY <3>2, <3>3
  <2>8. H!ConnsAccounted'
    BY <1>1, <1>2, <2>1, <2>4, <2>7, DoHAssumption DEF DohInv, H!ConnsAccounted
  <2>9. H!AnsweredOnce'
    BY <2>1 DEF DohInv, H!AnsweredOnce
  <2>10. hconn' \in [HConns -> ConnStates]
    BY <2>1, <2>2 DEF DohInv
  <2>. QED BY <1>1, <2>1, <2>6, <2>8, <2>9, <2>10 DEF DohInv
<1>. QED BY <1>3, <1>4

\* A connection is closed: its slot and its source's are given back, once.
LEMMA DohClose ==
  ASSUME DohInv, NEW c \in HConns, H!IsOpen(c), hconn' = [hconn EXCEPT ![c].state = "closed"],
         H!Release(c), UNCHANGED <<accept, stream>>
  PROVE  DohInv'
<1>1. H!Open \in SUBSET HConns /\ c \in H!Open
  BY DEF H!Open
<1>2. hconn' \in [HConns -> ConnStates] /\ hconn'[c].state = "closed"
  BY DEF DohInv, ConnStates
<1>3. /\ H!Open' = H!Open \ {c}
      /\ \A x \in HSources : H!OpenFrom(x)' = H!OpenFrom(x) \ {c}
      /\ \A x \in HSources : H!OpenFrom(x) \in SUBSET HConns /\ (c \in H!OpenFrom(x) <=> hconn[c].src = x)
  BY <1>1, <1>2 DEF DohInv, H!Open, H!OpenFrom, H!IsOpen
<1>4. /\ H!Cardinality(H!Open') = H!Cardinality(H!Open) - 1
      /\ H!Cardinality(H!Open) \in Nat /\ H!Cardinality(H!Open') \in Nat
  <2>1. H!Open' \in SUBSET HConns
    BY <1>1, <1>3
  <2>. QED BY <1>1, <1>3, <2>1, OpenStep
<1>5. \A x \in HSources :
        /\ H!Cardinality(H!OpenFrom(x)) \in Nat
        /\ H!Cardinality(H!OpenFrom(x)') = IF hconn[c].src = x THEN H!Cardinality(H!OpenFrom(x)) - 1
                                           ELSE H!Cardinality(H!OpenFrom(x))
  <2>. SUFFICES ASSUME NEW x \in HSources
                PROVE  /\ H!Cardinality(H!OpenFrom(x)) \in Nat
                       /\ H!Cardinality(H!OpenFrom(x)') = IF hconn[c].src = x THEN H!Cardinality(H!OpenFrom(x)) - 1
                                           ELSE H!Cardinality(H!OpenFrom(x))
    OBVIOUS
  <2>1. c \notin H!OpenFrom(x) => H!OpenFrom(x) \ {c} = H!OpenFrom(x)
    OBVIOUS
  <2>. QED BY <1>3, <2>1, OpenStep
<1>6. /\ hsem' = hsem - 1
      /\ perSource' = IF hconn[c].src = None \/ HMaxConnsPerSource <= 0 THEN perSource
                      ELSE [perSource EXCEPT ![hconn[c].src] = @ - 1]
  BY DEF H!Release
<1>7. hconn[c].src \in HSources \cup {None}
  BY DEF DohInv, ConnStates
<1>8. perSource' \in [HSources -> Int]
  BY <1>6, <1>7 DEF DohInv
<1>9. ASSUME NEW x \in HSources, HMaxConnsPerSource > 0
      PROVE  perSource'[x] = H!Cardinality(H!OpenFrom(x)') /\ perSource'[x] <= HMaxConnsPerSource
  <2>1. perSource[x] = H!Cardinality(H!OpenFrom(x)) /\ perSource[x] <= HMaxConnsPerSource
    BY <1>9 DEF DohInv, H!ConnsAccounted
  <2>2. perSource'[x] = IF hconn[c].src = x THEN perSource[x] - 1 ELSE perSource[x]
    BY <1>6, <1>7, <1>9, DoHAssumption DEF DohInv
  <2>. QED BY <1>5, <2>1, <2>2, DoHAssumption
<1>10. hsem' \in Nat /\ H!ConnsAccounted'
  BY <1>4, <1>6, <1>9, DoHAssumption DEF DohInv, H!ConnsAccounted
<1>11. H!AnsweredOnce'
  BY DEF DohInv, H!AnsweredOnce
<1>. QED BY <1>2, <1>8, <1>10, <1>11 DEF DohInv

\* A second Close releases nothing.
LEMMA DohCloseAgain ==
  ASSUME DohInv, NEW c \in HConns, hconn[c].state = "closed",
         hconn' = [hconn EXCEPT ![c].state = "closed again"],
         UNCHANGED <<accept, stream, hsem, perSource>>
  PROVE  DohInv'
<1>1. hconn' \in [HConns -> ConnStates] /\ hconn'[c].state = "closed again"
  BY DEF DohInv, ConnStates
<1>2. H!Open' = H!Open /\ \A x \in HSources : H!OpenFrom(x)' = H!OpenFrom(x)
  BY <1>1 DEF DohInv, H!Open, H!OpenFrom, H!IsOpen
<1>3. H!ConnsAccounted' /\ H!AnsweredOnce'
  BY <1>2 DEF DohInv, H!ConnsAccounted, H!AnsweredOnce
<1>. QED BY <1>1, <1>3 DEF DohInv

\* A request begins, or its handler returns: no connection is opened or closed.
LEMMA DohServe ==
  ASSUME DohInv, NEW h \in HStreams,
         \/ \E c \in HConns, r \in HRequests : H!Begin(h, c, r)
         \/ \E ws \in HReplies : H!Finish(h, ws)
  PROVE  DohInv'
<1>1. UNCHANGED <<hconn, accept, hsem, perSource>>
  BY DEF H!Begin, H!Finish
<1>2. H!Open' = H!Open /\ \A x \in HSources : H!OpenFrom(x)' = H!OpenFrom(x)
  BY <1>1 DEF H!Open, H!OpenFrom, H!IsOpen
<1>3. H!ConnsAccounted'
  BY <1>1, <1>2 DEF DohInv, H!ConnsAccounted
<1>4. H!AnsweredOnce'
  <2>1. CASE \E c \in HConns, r \in HRequests : H!Begin(h, c, r)
    BY <2>1 DEF DohInv, H!AnsweredOnce, H!Begin, H!Stream
  <2>2. CASE \E ws \in HReplies : H!Finish(h, ws)
    <3>1. PICK n : n = 1 /\ stream' = [stream EXCEPT ![h] = H!Stream("over", None, n)]
      BY <2>2, OneResponse DEF H!Finish
    <3>. QED BY <3>1 DEF DohInv, H!AnsweredOnce, H!Stream
  <2>. QED BY <2>1, <2>2
<1>. QED BY <1>1, <1>3, <1>4 DEF DohInv

\* The DoH server keeps its invariant.
LEMMA DohStep == DohInv /\ [H!Next]_(H!vars) => DohInv'
<1>. SUFFICES ASSUME DohInv, [H!Next]_(H!vars) PROVE DohInv'
  OBVIOUS
<1>1. ASSUME NEW c \in HConns, H!CloseConn(c) PROVE DohInv'
  BY <1>1, DohClose, DohCloseAgain DEF H!CloseConn
<1>. QED BY <1>1, DohServe, DohLoop, DohAccept DEF H!Next

\* The DoH listener's slots are exact and bounded, and each HTTP request has one response.
THEOREM RequestsAreServed == MCSpec => []RequestsServed
<1>1. MCInit => H!Init
  BY DEF MCInit
<1>2. [MCNext]_<<which, vars, dohVars>> => [H!Next]_(H!vars)
  BY DEF MCNext, dohVars, H!vars
<1>3. DohInv => RequestsServed
  BY DEF DohInv, RequestsServed
<1>. QED BY <1>1, <1>2, <1>3, DohInit, DohStep, PTL DEF MCSpec
=============================================================================
