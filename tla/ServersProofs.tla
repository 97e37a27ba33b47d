---------------------------- MODULE ServersProofs ----------------------------
(* The safety properties of the servers: of a stream connection for any      *)
(* number of dispatchers and any limits and timeouts, of the UDP server for  *)
(* any number of handlers, any sizes and limits, and of the DoQ server for   *)
(* any connections, streams and caps.                                        *)
EXTENDS MCServers, FiniteSetTheorems, TLAPS
-----------------------------------------------------------------------------
(* A stream connection. *)

\* What the mutex and the loop head add to the properties to make them inductive.
ConnInvariant ==
  /\ TypeOK /\ InflightBounded /\ ClosedAfterDispatchers /\ QueriesBounded /\ PrefixThenBody
  /\ \A d \in Dispatchers : writeMu = d => task[d] = "prefix"
  /\ reader = "prepare" => Running = {}
  /\ reader \in {"header", "sized", "body"} => ~Exhausted

\* How a set of dispatchers grows and shrinks by one.
LEMMA RunningStep ==
  ASSUME NEW S \in SUBSET Dispatchers, NEW d \in Dispatchers
  PROVE  /\ Cardinality(S) \in Nat
         /\ d \notin S => Cardinality(S \cup {d}) = Cardinality(S) + 1
         /\ d \in S => Cardinality(S \ {d}) = Cardinality(S) - 1
<1>1. IsFiniteSet(S)
  BY StreamConnAssumption, FS_Subset
<1>. QED BY <1>1, FS_CardinalityType, FS_AddElement, FS_RemoveElement

\* A new connection.
LEMMA InitConn == Init => ConnInvariant
<1>. SUFFICES ASSUME Init PROVE ConnInvariant
  OBVIOUS
<1>1. Running = {} /\ Cardinality(Running) = 0
  BY FS_EmptySet DEF Init, Running
<1>2. TypeOK
  <2>1. /\ watcher \in {"none", "watching"} /\ reader \in {"prepare", "top"}
        /\ out = <<None, "body">> /\ queries = 0 /\ sem = 0 /\ writeMu = None
        /\ ctx \in {"live", "cancelled"} /\ readBy = "none" /\ writeBy = "none"
    BY DEF Init
  <2>2. expired \in BOOLEAN
    BY DEF Init
  <2>3. task \in [Dispatchers -> {"free", "running", "prefix"}]
    BY DEF Init
  <2>. QED BY <2>1, <2>2, <2>3 DEF TypeOK
<1>. QED BY <1>1, <1>2, StreamConnAssumption
     DEF Init, ConnInvariant, InflightBounded, ClosedAfterDispatchers, QueriesBounded,
     PrefixThenBody, Exhausted

\* Steps of the reader, the peer, the watcher and the clock that spawn nothing.
Spawnless ==
  \/ PrepareSucceeds \/ PrepareFails \/ LoopEnds \/ AwaitHeader \/ Oversized
  \/ AwaitBody \/ SlotCancelled \/ Finish \/ Peer \/ ReadTimesOut
  \/ WatchCancelled \/ Cancel \/ LifetimeEnds

\* A message is counted when its body has arrived, and is waited for below the cap only.
LEMMA QueriesStep ==
  ASSUME ConnInvariant, Spawnless
  PROVE  /\ queries' \in Nat /\ QueriesBounded'
         /\ reader' \in {"header", "sized", "body"} => ~Exhausted'
<1>1. \/ BodyArrives
      \/ /\ UNCHANGED queries
         /\ reader' \in {"header", "sized", "body"} =>
              reader \in {"header", "sized", "body"} \/ ~Exhausted
  BY DEF Spawnless, PrepareSucceeds, PrepareFails, LoopEnds, AwaitHeader, Oversized, AwaitBody,
     SlotCancelled, Finish, Peer, HeaderArrives, PeerCloses, ReadTimesOut, WatchCancelled, Cancel,
     LifetimeEnds, readerVars
<1>2. /\ queries \in Nat /\ MaxQueriesPerConn \in Int /\ QueriesBounded
      /\ reader \in {"header", "sized", "body"} => ~Exhausted
  BY StreamConnAssumption DEF ConnInvariant, TypeOK
<1>3. CASE BodyArrives
  BY <1>2, <1>3 DEF BodyArrives, QueriesBounded, Exhausted
<1>4. CASE ~BodyArrives
  BY <1>1, <1>2, <1>4 DEF QueriesBounded, Exhausted
<1>. QED BY <1>3, <1>4

\* None of them touches a dispatcher.
LEMMA ReaderStep ==
  ASSUME ConnInvariant, Spawnless
  PROVE  ConnInvariant'
<1>5. /\ queries' \in Nat /\ QueriesBounded'
      /\ reader' \in {"header", "sized", "body"} => ~Exhausted'
  BY QueriesStep
<1>. USE DEF Spawnless, PrepareSucceeds, PrepareFails, LoopEnds, AwaitHeader, Oversized, AwaitBody,
       SlotCancelled, Finish, Peer, HeaderArrives, BodyArrives, PeerCloses, ReadTimesOut,
       WatchCancelled, Cancel, LifetimeEnds, readerVars, writeVars
<1>1. UNCHANGED <<sem, task, writeMu, out>> /\ Running' = Running
  BY DEF Running
<1>2. TypeOK'
  <2>1. expired' \in BOOLEAN
    BY Zenon DEF ConnInvariant, TypeOK
  <2>2. ctx' \in {"live", "cancelled"}
    BY DEF ConnInvariant, TypeOK
  <2>3. watcher' \in {"none", "watching", "done"}
    BY DEF ConnInvariant, TypeOK
  <2>4. reader' \in {"prepare", "top", "header", "sized", "body", "slot", "drain", "closed"}
    BY DEF ConnInvariant, TypeOK
  <2>5. readBy' \in {"none", "wait", "body", "past"} /\ writeBy' \in {"none", "wait", "past"}
    BY DEF ConnInvariant, TypeOK
  <2>. QED BY <1>1, <1>5, <2>1, <2>2, <2>3, <2>4, <2>5 DEF ConnInvariant, TypeOK
<1>3. InflightBounded' /\ PrefixThenBody' /\ \A d \in Dispatchers : writeMu' = d => task'[d] = "prefix"
  BY <1>1 DEF ConnInvariant, InflightBounded, PrefixThenBody
<1>4. ClosedAfterDispatchers' /\ (reader' = "prepare" => Running' = {})
  BY <1>1 DEF ConnInvariant, ClosedAfterDispatchers, Running
<1>. QED BY <1>2, <1>3, <1>4, <1>5 DEF ConnInvariant

\* Spawning a dispatcher and its end.
LEMMA SlotStep ==
  ASSUME ConnInvariant, NEW d \in Dispatchers, Spawn(d) \/ Dispatched(d)
  PROVE  ConnInvariant'
<1>1. TypeOK'
  <2>1. sem' \in Nat
    <3>1. Dispatched(d) => d \in Running
      BY DEF Running, Dispatched
    <3>2. Cardinality(Running) \in Nat /\ Cardinality(Running \ {d}) \in Nat
      BY RunningStep DEF Running
    <3>3. Dispatched(d) /\ MaxInflightPerConn > 0 => sem - 1 \in Nat
      BY <3>1, <3>2, RunningStep DEF ConnInvariant, InflightBounded, Running
    <3>. QED BY <3>3 DEF ConnInvariant, TypeOK, Spawn, Dispatched
  <2>. QED BY <2>1 DEF ConnInvariant, TypeOK, Spawn, Dispatched, readerVars, writeVars
<1>2. InflightBounded'
  <2>1. CASE Spawn(d)
    <3>1. d \notin Running /\ Running' = Running \cup {d}
      BY <2>1 DEF ConnInvariant, TypeOK, Spawn, Running
    <3>2. Cardinality(Running') = Cardinality(Running) + 1 /\ Cardinality(Running) \in Nat
      BY <3>1, RunningStep DEF Running
    <3>. QED BY <2>1, <3>2, StreamConnAssumption
         DEF ConnInvariant, InflightBounded, Spawn, HasRoom
  <2>2. CASE Dispatched(d)
    <3>1. d \in Running /\ Running' = Running \ {d}
      BY <2>2 DEF ConnInvariant, TypeOK, Dispatched, Running
    <3>2. Cardinality(Running') = Cardinality(Running) - 1 /\ Cardinality(Running) \in Nat
      BY <3>1, RunningStep DEF Running
    <3>. QED BY <2>2, <3>2, StreamConnAssumption
         DEF ConnInvariant, InflightBounded, Dispatched
  <2>. QED BY <2>1, <2>2
<1>3. /\ PrefixThenBody' /\ ClosedAfterDispatchers' /\ QueriesBounded'
      /\ \A e \in Dispatchers : writeMu' = e => task'[e] = "prefix"
      /\ reader' = "prepare" => Running' = {}
      /\ reader' \in {"header", "sized", "body"} => ~Exhausted'
  BY DEF ConnInvariant, TypeOK, PrefixThenBody, ClosedAfterDispatchers, QueriesBounded,
     Exhausted, Running, Spawn, Dispatched, readerVars, writeVars
<1>. QED BY <1>1, <1>2, <1>3 DEF ConnInvariant

\* Writing a message.
LEMMA WriteStep ==
  ASSUME ConnInvariant, NEW d \in Dispatchers, WriteMsg(d)
  PROVE  ConnInvariant'
<1>. USE DEF WriteMsg, WritePrefix, WriteBody, WriteFails, EndWrite, readerVars
<1>1. TypeOK'
  <2>1. /\ task' \in [Dispatchers -> {"free", "running", "prefix"}]
        /\ writeMu' \in Dispatchers \cup {None} /\ writeBy' \in {"none", "wait", "past"}
    BY DEF ConnInvariant, TypeOK
  <2>2. out' \in (Dispatchers \cup {None}) \X {"prefix", "body"}
    BY DEF ConnInvariant, TypeOK
  <2>3. UNCHANGED <<ctx, watcher, reader, readBy, queries, expired, sem>>
    OBVIOUS
  <2>. QED BY <2>1, <2>2, <2>3 DEF ConnInvariant, TypeOK
<1>2. Running' = Running
  BY DEF ConnInvariant, TypeOK, Running
<1>3. /\ InflightBounded' /\ ClosedAfterDispatchers' /\ QueriesBounded'
      /\ reader' = "prepare" => Running' = {}
      /\ reader' \in {"header", "sized", "body"} => ~Exhausted'
  BY <1>2 DEF ConnInvariant, InflightBounded, ClosedAfterDispatchers, QueriesBounded, Exhausted
<1>4. PrefixThenBody' /\ \A e \in Dispatchers : writeMu' = e => task'[e] = "prefix"
  BY StreamConnAssumption DEF ConnInvariant, TypeOK, PrefixThenBody, Lockable
<1>. QED BY <1>1, <1>3, <1>4 DEF ConnInvariant

\* A connection keeps its invariant whatever the peer, the handlers and the
\* shutdown do.
LEMMA ConnStep == ConnInvariant /\ [Next]_vars => ConnInvariant'
<1>. SUFFICES ASSUME ConnInvariant, [Next]_vars PROVE ConnInvariant'
  OBVIOUS
<1>1. CASE UNCHANGED vars
  BY <1>1 DEF vars, ConnInvariant, TypeOK, InflightBounded, ClosedAfterDispatchers,
     QueriesBounded, PrefixThenBody, Running, Exhausted
<1>. QED BY <1>1, ReaderStep, SlotStep, WriteStep DEF Next, serveConn, Spawnless

\* The invariant of a connection.
THEOREM ConnInvariance == Spec => []ConnInvariant
BY InitConn, ConnStep, PTL DEF Spec

\* No dispatcher outlives the connection it writes to.
THEOREM NoWriteAfterClose == Spec => []ClosedAfterDispatchers
<1>1. ConnInvariant => ClosedAfterDispatchers
  BY DEF ConnInvariant
<1>. QED BY <1>1, ConnInvariance, PTL

\* Nobody writes between another dispatcher's prefix and the end of its write.
THEOREM WritesSerialised == Spec => []PrefixThenBody
<1>1. ConnInvariant => PrefixThenBody
  BY DEF ConnInvariant
<1>. QED BY <1>1, ConnInvariance, PTL

\* A connection never has more dispatchers than MaxInflightPerConn.
THEOREM InflightBound == Spec => []InflightBounded
<1>1. ConnInvariant => InflightBounded
  BY DEF ConnInvariant
<1>. QED BY <1>1, ConnInvariance, PTL
-----------------------------------------------------------------------------
(* The UDP server. *)

\* What a handler's reply may be, as ReplyFits says of what was sent.
Fits(len, size) ==
  len = StrippedLen \/ (len <= MaxResponse /\ (len <= 512 \/ len <= size))

\* Where a handler stands: before the request is parsed it has no writer; what waits
\* to be sent is the first message of its writer, cut to fit; and only a first
\* message is ever sent.
Writers ==
  \A h \in Handlers :
    /\ stage[h] \in {"free", "parse"} => edns[h] = None /\ ~wrote[h]
    /\ stage[h] \in {"serve", "blocked", "write"} => edns[h] \in Sizes
    /\ stage[h] \in {"blocked", "write"} =>
         wrote[h] /\ sent[h] = 0 /\ Fits(packed[h], edns[h])
    /\ ~wrote[h] => sent[h] = 0

\* The order of Run's ending: the error is recorded after wg.Wait, Done closed last.
Ending ==
  /\ err => loop \in {"returned", "done"} /\ outcome = "error"
  /\ loop \in {"returned", "done"} => U!Running = {}
  /\ loop = "done" => (outcome = "error" => err)

UdpInv ==
  /\ U!TypeOK /\ U!InflightBounded /\ U!DropsAccounted /\ U!OwnDeadline
  /\ U!ReplyFits /\ Writers /\ Ending

\* The bytes of a datagram's only response.
LEMMA FirstWrite == \A n \in Nat : 0 + n = n
OBVIOUS

\* A reply is one that fits, and nothing fits everywhere.
LEMMA RepliesFit ==
  /\ U!ReplyFits <=> \A h \in Handlers : edns[h] # None => Fits(sent[h], edns[h])
  /\ U!ReplyFits' <=> \A h \in Handlers : edns'[h] # None => Fits(sent'[h], edns'[h])
  /\ \A size : Fits(0, size)
<1>1. MaxResponse \in Nat
  BY ServersAssumption
<1>2. \A size : Fits(0, size)
  BY <1>1 DEF Fits
<1>. QED BY <1>2 DEF U!ReplyFits, Fits

\* Counting is the same operator in every module.
LEMMA SameCount ==
  \A S : U!Cardinality(S) = Cardinality(S) /\ Q!Cardinality(S) = Cardinality(S)
BY DEF U!Cardinality, Q!Cardinality, Cardinality

\* Datagram goroutines can be counted.
LEMMA HandlersCounted == \A S \in SUBSET Handlers : U!Cardinality(S) \in Nat
BY ServersAssumption, FS_Subset, FS_CardinalityType, SameCount

\* How a set of datagram goroutines grows and shrinks by one.
LEMMA HandlersStep ==
  ASSUME NEW S \in SUBSET Handlers, NEW h \in Handlers
  PROVE  /\ U!Cardinality(S) \in Nat
         /\ h \notin S => U!Cardinality(S \cup {h}) = U!Cardinality(S) + 1
         /\ h \in S => U!Cardinality(S \ {h}) = U!Cardinality(S) - 1
<1>1. IsFiniteSet(S)
  BY ServersAssumption, FS_Subset
<1>2. /\ Cardinality(S) \in Nat
      /\ h \notin S => Cardinality(S \cup {h}) = Cardinality(S) + 1
      /\ h \in S => Cardinality(S \ {h}) = Cardinality(S) - 1
  BY <1>1, FS_CardinalityType, FS_AddElement, FS_RemoveElement
<1>. QED BY <1>2, SameCount

\* A server that has just bound its socket.
LEMMA UdpInit == U!Init => UdpInv
<1>. SUFFICES ASSUME U!Init PROVE UdpInv
  OBVIOUS
<1>1. U!Cardinality(U!Running) = 0
  BY FS_EmptySet, SameCount DEF U!Init, U!Running
<1>2. U!TypeOK
  BY DEF U!Init, U!TypeOK, U!Reasons
<1>3. U!InflightBounded
  BY <1>1, ServersAssumption DEF U!Init, U!InflightBounded, U!Limited
<1>4. U!DropsAccounted
  BY <1>1 DEF U!Init, U!DropsAccounted, U!Reasons
<1>5. U!OwnDeadline /\ U!ReplyFits /\ Writers
  BY DEF U!Init, U!OwnDeadline, U!ReplyFits, Writers
<1>6. Ending
  BY DEF U!Init, Ending
<1>. QED
  BY <1>2, <1>3, <1>4, <1>5, <1>6 DEF UdpInv

\* A datagram dropped before it has a goroutine is counted.
LEMMA UdpDropStep ==
  ASSUME UdpInv, U!ReadFiltered \/ U!ReadAtCap
  PROVE  UdpInv'
<1>1. /\ UNCHANGED <<uctx, socket, loop, outcome, err, uwatcher, usem, finished, stage, edns>>
      /\ UNCHANGED <<wrote, sent, packed, uwriteMu, setBy>>
      /\ received' = received + 1
  BY DEF U!ReadFiltered, U!ReadAtCap, U!loopVars, U!writeVars
<1>2. PICK r \in {"prefilter", "inflight"} : drops' = [drops EXCEPT ![r] = @ + 1]
  BY DEF U!ReadFiltered, U!ReadAtCap, U!Drop
<1>3. drops \in [U!Reasons -> Nat] /\ r \in U!Reasons /\ received \in Nat /\ finished \in Nat
  BY <1>2 DEF UdpInv, U!TypeOK, U!Reasons
<1>4. U!TypeOK'
  BY <1>1, <1>2, <1>3 DEF UdpInv, U!TypeOK
<1>5. U!Running' = U!Running /\ U!Cardinality(U!Running) \in Nat
  <2>1. U!Running \in SUBSET Handlers
    BY DEF U!Running
  <2>. QED BY <1>1, <2>1, HandlersCounted DEF U!Running
<1>6. U!DropsAccounted'
  <2>1. \A x \in U!Reasons : drops'[x] = (IF x = r THEN drops[x] + 1 ELSE drops[x]) /\ drops[x] \in Nat
    BY <1>2, <1>3
  <2>2. /\ drops'["parse"] = drops["parse"] /\ drops'["preflight"] = drops["preflight"]
        /\ drops'["inflight"] + drops'["prefilter"] = drops["inflight"] + drops["prefilter"] + 1
        /\ \A x \in U!Reasons : drops[x] \in Nat /\ drops'[x] \in Nat
    BY <1>2, <2>1 DEF U!Reasons
  <2>. QED BY <1>1, <1>3, <1>5, <2>2 DEF UdpInv, U!DropsAccounted, U!Reasons
<1>7. U!InflightBounded' /\ Ending'
  BY <1>1, <1>5 DEF UdpInv, U!InflightBounded, Ending
<1>8. U!OwnDeadline' /\ U!ReplyFits' /\ Writers'
  BY <1>1 DEF UdpInv, U!OwnDeadline, U!ReplyFits, Writers
<1>. QED
  BY <1>4, <1>6, <1>7, <1>8 DEF UdpInv

\* The other steps of the loop and those of the watcher: Run ends after the handlers.
LEMMA UdpLoopSteps ==
  ASSUME UdpInv,
         \/ U!ReadStopped \/ U!ReadTransient \/ U!ReadFails \/ U!BackoffEnds
         \/ U!BackoffCancelled \/ U!Drained \/ U!SetErr \/ U!CloseDone \/ U!watch \/ U!Cancel
  PROVE  UdpInv'
<1>1. UNCHANGED <<usem, received, drops, finished, stage, edns, wrote, sent, packed, uwriteMu, setBy>>
  BY DEF U!ReadStopped, U!ReadTransient, U!ReadFails, U!BackoffEnds, U!BackoffCancelled,
     U!Drained, U!SetErr, U!CloseDone, U!watch, U!WatchCancelled, U!WatchStopped, U!Cancel,
     U!writeVars
<1>2. U!Running' = U!Running
  BY <1>1 DEF U!Running
<1>3. /\ uctx' \in {"live", "cancelled"} /\ socket' \in {"open", "closed"}
      /\ uwatcher' \in {"watching", "done"}
  BY DEF UdpInv, U!TypeOK, U!ReadStopped, U!ReadTransient, U!ReadFails, U!BackoffEnds,
     U!BackoffCancelled, U!Drained, U!SetErr, U!CloseDone, U!watch, U!WatchCancelled,
     U!WatchStopped, U!Cancel
<1>4. /\ loop' \in {"read", "backoff", "drain", "returned", "done"}
      /\ outcome' \in {"none", "closed", "error"} /\ err' \in BOOLEAN /\ Ending'
  <2>. USE DEF UdpInv, U!TypeOK, Ending
  <2>1. CASE U!ReadStopped \/ U!ReadFails \/ U!BackoffCancelled
    BY SMTT(30), <1>2, <2>1 DEF U!ReadStopped, U!ReadFails, U!BackoffCancelled, U!Leave
  <2>2. CASE U!ReadTransient \/ U!BackoffEnds
    BY <1>2, <2>2 DEF U!ReadTransient, U!BackoffEnds
  <2>3. CASE U!Drained
    BY <1>2, <2>3 DEF U!Drained, U!Running
  <2>4. CASE U!SetErr
    BY <1>2, <2>4 DEF U!SetErr
  <2>5. CASE U!CloseDone
    BY <1>2, <2>5 DEF U!CloseDone
  <2>6. CASE U!watch \/ U!Cancel
    BY SMTT(30), <1>2, <2>6 DEF U!watch, U!WatchCancelled, U!WatchStopped, U!Cancel, U!loopVars
  <2>. QED BY <2>1, <2>2, <2>3, <2>4, <2>5, <2>6
<1>5. U!TypeOK'
  BY <1>1, <1>3, <1>4 DEF UdpInv, U!TypeOK
<1>6. U!InflightBounded' /\ U!DropsAccounted'
  BY <1>1, <1>2 DEF UdpInv, U!InflightBounded, U!DropsAccounted
<1>7. U!OwnDeadline' /\ U!ReplyFits' /\ Writers'
  BY <1>1 DEF UdpInv, U!OwnDeadline, U!ReplyFits, Writers
<1>. QED
  BY <1>4, <1>5, <1>6, <1>7 DEF UdpInv

\* A datagram gets a goroutine and, if they are limited, a slot.
LEMMA UdpReadStep ==
  ASSUME UdpInv, NEW h \in Handlers, U!ReadPacket(h)
  PROVE  UdpInv'
<1>. USE DEF U!ReadPacket, U!loopVars, U!writeVars
<1>1. U!Running' = U!Running \cup {h} /\ h \notin U!Running /\ U!Running \in SUBSET Handlers
  BY DEF UdpInv, U!TypeOK, U!Running
<1>2. U!Cardinality(U!Running') = U!Cardinality(U!Running) + 1 /\ U!Cardinality(U!Running) \in Nat
  BY <1>1, HandlersStep
<1>3. U!TypeOK'
  BY DEF UdpInv, U!TypeOK
<1>4. U!InflightBounded'
  BY <1>2, ServersAssumption DEF UdpInv, U!InflightBounded, U!Limited, U!Full
<1>5. U!DropsAccounted'
  BY <1>2 DEF UdpInv, U!TypeOK, U!DropsAccounted, U!Reasons
<1>6. U!OwnDeadline' /\ U!ReplyFits' /\ Writers'
  BY DEF UdpInv, U!TypeOK, U!OwnDeadline, U!ReplyFits, Writers
<1>7. Ending'
  BY DEF UdpInv, Ending, U!Readable
<1>. QED
  BY <1>3, <1>4, <1>5, <1>6, <1>7 DEF UdpInv

\* However a datagram's goroutine ends, its slot is returned, and either the drop or
\* the handling is counted.
LEMMA UdpEndStep ==
  ASSUME UdpInv, NEW h \in Handlers, U!End(h), stage[h] # "free",
         UNCHANGED <<uctx, socket, loop, outcome, err, uwatcher, received>>,
         \/ (\E r \in {"parse", "preflight"} : drops' = [drops EXCEPT ![r] = @ + 1])
            /\ UNCHANGED finished
         \/ finished' = finished + 1 /\ UNCHANGED drops
  PROVE  UdpInv'
<1>1. /\ edns' = [edns EXCEPT ![h] = None] /\ wrote' = [wrote EXCEPT ![h] = FALSE]
      /\ sent' = [sent EXCEPT ![h] = 0] /\ packed' = [packed EXCEPT ![h] = 0]
      /\ stage' = [stage EXCEPT ![h] = "free"] /\ UNCHANGED <<uwriteMu, setBy>>
      /\ usem' = IF U!Limited THEN usem - 1 ELSE usem
  BY DEF U!End, U!DropWriter, U!Release
<1>2. U!Running' = U!Running \ {h} /\ h \in U!Running /\ U!Running \in SUBSET Handlers
  BY <1>1 DEF UdpInv, U!TypeOK, U!Running
<1>3. /\ U!Cardinality(U!Running') = U!Cardinality(U!Running) - 1
      /\ U!Cardinality(U!Running) \in Nat /\ U!Cardinality(U!Running') \in Nat
  <2>1. U!Running' \in SUBSET Handlers
    BY <1>2
  <2>. QED BY <1>2, <2>1, HandlersStep
<1>4. U!InflightBounded' /\ usem' \in Nat
  BY SMTT(30), <1>1, <1>3, ServersAssumption DEF UdpInv, U!InflightBounded, U!Limited, U!TypeOK
<1>5. /\ drops' \in [U!Reasons -> Nat] /\ finished' \in Nat
      /\ finished' + drops'["parse"] + drops'["preflight"]
         = finished + drops["parse"] + drops["preflight"] + 1
      /\ drops'["inflight"] = drops["inflight"] /\ drops'["prefilter"] = drops["prefilter"]
  <2>1. drops \in [U!Reasons -> Nat] /\ finished \in Nat
    BY DEF UdpInv, U!TypeOK
  <2>2. CASE finished' = finished + 1 /\ UNCHANGED drops
    BY <2>1, <2>2 DEF U!Reasons
  <2>3. CASE drops' = [drops EXCEPT !["parse"] = @ + 1] /\ UNCHANGED finished
    BY <2>1, <2>3 DEF U!Reasons
  <2>4. CASE drops' = [drops EXCEPT !["preflight"] = @ + 1] /\ UNCHANGED finished
    BY <2>1, <2>4 DEF U!Reasons
  <2>. QED BY <2>2, <2>3, <2>4
<1>6. U!DropsAccounted'
  <2>1. /\ \A x \in U!Reasons : drops[x] \in Nat /\ drops'[x] \in Nat
        /\ finished \in Nat /\ received \in Nat
    BY <1>5 DEF UdpInv, U!TypeOK
  <2>. QED BY <1>3, <1>5, <2>1 DEF UdpInv, U!DropsAccounted, U!Reasons
<1>7. U!TypeOK'
  BY SMTT(30), <1>1, <1>4, <1>5 DEF UdpInv, U!TypeOK
<1>8. U!OwnDeadline' /\ U!ReplyFits' /\ Writers'
  <2>1. /\ \A x \in Handlers : x # h => /\ edns'[x] = edns[x] /\ wrote'[x] = wrote[x]
                                       /\ sent'[x] = sent[x] /\ packed'[x] = packed[x]
                                       /\ stage'[x] = stage[x]
        /\ edns'[h] = None /\ ~wrote'[h] /\ sent'[h] = 0 /\ stage'[h] = "free"
    BY <1>1 DEF UdpInv, U!TypeOK
  <2>2. U!OwnDeadline'
    BY <1>1, <2>1 DEF UdpInv, U!OwnDeadline
  <2>3. U!ReplyFits'
    BY <2>1, RepliesFit DEF UdpInv
  <2>4. Writers'
    BY <2>1 DEF UdpInv, Writers
  <2>. QED BY <2>2, <2>3, <2>4
<1>9. Ending'
  BY <1>2 DEF UdpInv, Ending
<1>. QED
  BY <1>4, <1>6, <1>7, <1>8, <1>9 DEF UdpInv

\* What WriteMsg packs fits, whatever the handler built.
LEMMA PackFits ==
  ASSUME NEW size \in Sizes, NEW len \in Nat
  PROVE  U!Fit(len, U!maxResp(size)) \in Nat /\ Fits(U!Fit(len, U!maxResp(size)), size)
BY ServersAssumption DEF U!Fit, U!maxResp, U!Accepts, Fits

\* A request is parsed, a reply packed, the mutex taken, the reply sent.
LEMMA UdpHandlerStep ==
  ASSUME UdpInv, NEW h \in Handlers,
         \/ U!Lock(h) \/ U!WriteTo(h)
         \/ \E q \in U!Requests : U!PreflightReplies(h, q) \/ U!ServeDNS(h, q)
         \/ \E len \in Lengths : U!WriteMsg(h, len)
  PROVE  UdpInv'
<1>1. /\ UNCHANGED <<uctx, socket, loop, outcome, err, uwatcher, usem, received, drops, finished>>
      /\ \E s \in {"serve", "blocked", "write"} : stage' = [stage EXCEPT ![h] = s]
      /\ stage[h] # "free"
  BY DEF U!Lock, U!WriteTo, U!PreflightReplies, U!ServeDNS, U!WriteMsg, U!loopVars
<1>2. U!Running' = U!Running
  BY <1>1 DEF UdpInv, U!TypeOK, U!Running
<1>3. U!InflightBounded' /\ U!DropsAccounted' /\ Ending'
  BY <1>1, <1>2 DEF UdpInv, U!InflightBounded, U!DropsAccounted, Ending
<1>4. CASE U!Lock(h)
  <2>. USE <1>4 DEF U!Lock, UdpInv
  <2>1. U!TypeOK'
    BY <1>1 DEF U!TypeOK
  <2>2. U!OwnDeadline'
    BY ServersAssumption DEF U!TypeOK, U!OwnDeadline, U!Lockable
  <2>3. U!ReplyFits' /\ Writers'
    BY DEF U!TypeOK, U!ReplyFits, Writers
  <2>. QED BY <1>3, <2>1, <2>2, <2>3
<1>5. CASE U!WriteTo(h)
  <2>1. /\ sent' \in [Handlers -> Nat]
        /\ \A x \in Handlers : x # h => sent'[x] = sent[x]
        /\ sent'[h] = 0 \/ Fits(sent'[h], edns[h])
    <3>1. /\ sent \in [Handlers -> Nat] /\ packed[h] \in Nat
          /\ sent[h] = 0 /\ Fits(packed[h], edns[h])
      BY <1>5 DEF U!WriteTo, UdpInv, U!TypeOK, Writers
    <3>2. CASE sent' = [sent EXCEPT ![h] = sent[h] + packed[h]]
      <4>1. sent[h] + packed[h] = packed[h]
        BY Zenon, <3>1, FirstWrite
      <4>2. sent' = [sent EXCEPT ![h] = packed[h]]
        BY <3>2, <4>1
      <4>. QED BY <3>1, <4>2
    <3>3. CASE UNCHANGED sent
      BY <3>1, <3>3
    <3>. QED BY <1>5, <3>2, <3>3 DEF U!WriteTo
  <2>. USE <1>5 DEF U!WriteTo, UdpInv
  <2>2. U!TypeOK'
    BY <1>1, <2>1 DEF U!TypeOK
  <2>3. U!OwnDeadline'
    BY ServersAssumption DEF U!TypeOK, U!OwnDeadline
  <2>4. Writers'
    BY <2>1 DEF U!TypeOK, Writers
  <2>5. U!ReplyFits'
    <3>1. UNCHANGED edns
      OBVIOUS
    <3>. QED BY <2>1, <3>1, RepliesFit
  <2>. QED BY <1>3, <2>2, <2>3, <2>4, <2>5
<1>6. ASSUME NEW q \in U!Requests, U!ServeDNS(h, q)
      PROVE  UdpInv'
  <2>. USE <1>6 DEF U!ServeDNS, UdpInv, U!writeVars
  <2>1. q.size \in Sizes
    BY DEF U!Requests
  <2>2. U!TypeOK'
    BY <1>1, <2>1 DEF U!TypeOK
  <2>3. U!OwnDeadline'
    BY DEF U!TypeOK, U!OwnDeadline
  <2>4. Writers'
    BY <2>1 DEF U!TypeOK, Writers
  <2>5. U!ReplyFits'
    <3>1. /\ \A x \in Handlers : x # h => edns'[x] = edns[x]
          /\ sent' = sent /\ sent[h] = 0
      BY DEF U!TypeOK, Writers
    <3>. QED BY <3>1, RepliesFit
  <2>. QED BY <1>3, <2>2, <2>3, <2>4, <2>5
<1>7. ASSUME NEW len \in Nat, NEW size \in Sizes, U!Pack(h, size, len), ~wrote[h],
             wrote' = [wrote EXCEPT ![h] = TRUE], stage' = [stage EXCEPT ![h] = "blocked"],
             UNCHANGED <<sent, uwriteMu, setBy>>, edns' = [edns EXCEPT ![h] = size]
      PROVE  UdpInv'
  <2>1. /\ packed' \in [Handlers -> Nat] /\ Fits(packed'[h], size)
        /\ \A x \in Handlers : x # h => packed'[x] = packed[x]
    BY <1>7, PackFits DEF UdpInv, U!TypeOK, U!Pack
  <2>2. U!TypeOK'
    BY ZenonT(30), <1>1, <1>7, <2>1 DEF UdpInv, U!TypeOK
  <2>3. U!OwnDeadline'
    BY <1>7 DEF UdpInv, U!TypeOK, U!OwnDeadline
  <2>4. Writers'
    BY <1>7, <2>1 DEF UdpInv, U!TypeOK, Writers
  <2>5. U!ReplyFits'
    <3>1. /\ \A x \in Handlers : x # h => edns'[x] = edns[x]
          /\ sent' = sent /\ sent[h] = 0
      BY <1>7 DEF UdpInv, U!TypeOK, Writers
    <3>. QED BY <3>1, RepliesFit DEF UdpInv
  <2>. QED BY <1>3, <2>2, <2>3, <2>4, <2>5 DEF UdpInv
<1>8. ASSUME NEW q \in U!Requests, U!PreflightReplies(h, q)
      PROVE  UdpInv'
  <2>1. q.size \in Sizes /\ ~wrote[h] /\ StrippedLen \in Nat
    BY <1>8, ServersAssumption DEF U!Requests, U!PreflightReplies, UdpInv, Writers
  <2>. QED BY <1>7, <1>8, <2>1 DEF U!PreflightReplies
<1>9. ASSUME NEW len \in Lengths, U!WriteMsg(h, len)
      PROVE  UdpInv'
  <2>1. len \in Nat /\ edns[h] \in Sizes /\ ~wrote[h]
    BY <1>9, ServersAssumption DEF U!WriteMsg, U!MayWrite, UdpInv, Writers
  <2>2. edns' = [edns EXCEPT ![h] = edns[h]]
    BY <1>9 DEF U!WriteMsg, UdpInv, U!TypeOK
  <2>. QED BY <1>7, <1>9, <2>1, <2>2 DEF U!WriteMsg
<1>. QED BY <1>4, <1>5, <1>6, <1>8, <1>9

\* The UDP server keeps its invariant.
LEMMA UdpStep == UdpInv /\ [U!Next]_(U!vars) => UdpInv'
<1>. SUFFICES ASSUME UdpInv, [U!Next]_(U!vars) PROVE UdpInv'
  OBVIOUS
<1>1. CASE UNCHANGED U!vars
  <2>1. U!Running' = U!Running
    BY <1>1 DEF U!vars, U!Running
  <2>2. U!TypeOK' /\ Ending'
    BY <1>1, <2>1 DEF U!vars, UdpInv, U!TypeOK, Ending
  <2>3. U!InflightBounded' /\ U!DropsAccounted'
    BY <1>1, <2>1 DEF U!vars, UdpInv, U!InflightBounded, U!DropsAccounted
  <2>4. U!OwnDeadline' /\ U!ReplyFits' /\ Writers'
    BY <1>1 DEF U!vars, UdpInv, U!OwnDeadline, U!ReplyFits, Writers
  <2>. QED BY <2>2, <2>3, <2>4 DEF UdpInv
<1>2. CASE U!run \/ U!watch \/ U!Cancel
  BY <1>2, UdpDropStep, UdpLoopSteps, UdpReadStep DEF U!run
<1>3. ASSUME NEW h \in Handlers, U!Malformed(h) \/ \E q \in U!Requests : U!PreflightDrops(h, q)
      PROVE  UdpInv'
  BY <1>3, UdpEndStep DEF U!Malformed, U!PreflightDrops, U!Drop, U!loopVars
<1>4. ASSUME NEW h \in Handlers, U!Return(h)
      PROVE  UdpInv'
  BY <1>4, UdpEndStep DEF U!Return, U!loopVars
<1>. QED BY <1>1, <1>2, <1>3, <1>4, UdpHandlerStep DEF U!Next, U!handlePacket
-----------------------------------------------------------------------------
(* The DoQ server. *)

StreamStates ==
  [at : {"none", "read", "reply", "handler", "ended"}, wrote : BOOLEAN, sent : {<<>>, <<0>>}]

\* The streams of a connection run only while it is served, Run waits for all of them,
\* a slot is a served connection, and nothing is sent before the one write.
DoqInv ==
  /\ qloop \in {"accept", "draining", "done"} /\ qsem \in Nat
  /\ qconn \in [Conns -> {"none", "accepting", "closing", "refused", "closed"}]
  /\ stream \in [Conns -> [Streams -> StreamStates]]
  /\ \A c \in Conns, s \in Streams : ~stream[c][s].wrote => stream[c][s].sent = <<>>
  /\ \A c \in Conns : c \notin Q!Serving => Q!Running(c) = {}
  /\ qloop = "done" => Q!Serving = {}
  /\ qsem = Q!Cardinality(Q!Serving) /\ (MaxConnections > 0 => qsem <= MaxConnections)

\* How the set of served connections grows and shrinks by one.
LEMMA ServingStep ==
  ASSUME NEW S \in SUBSET Conns, NEW c \in Conns
  PROVE  /\ Q!Cardinality(S) \in Nat
         /\ c \notin S => Q!Cardinality(S \cup {c}) = Q!Cardinality(S) + 1
         /\ c \in S => Q!Cardinality(S \ {c}) = Q!Cardinality(S) - 1
<1>1. IsFiniteSet(S)
  BY ServersAssumption, FS_Subset
<1>2. /\ Cardinality(S) \in Nat
      /\ c \notin S => Cardinality(S \cup {c}) = Cardinality(S) + 1
      /\ c \in S => Cardinality(S \ {c}) = Cardinality(S) - 1
  BY <1>1, FS_CardinalityType, FS_AddElement, FS_RemoveElement
<1>. QED BY <1>2, SameCount

\* A server that has just begun to listen.
LEMMA DoqInit == Q!Init => DoqInv
<1>. SUFFICES ASSUME Q!Init PROVE DoqInv
  OBVIOUS
<1>1. Q!NoStream \in StreamStates /\ ~Q!NoStream.wrote /\ Q!NoStream.sent = <<>> /\ Q!NoStream.at = "none"
  BY DEF Q!NoStream, StreamStates
<1>2. Q!Serving = {} /\ \A c \in Conns : Q!Running(c) = {}
  BY <1>1 DEF Q!Init, Q!Serving, Q!Running
<1>3. Q!Cardinality(Q!Serving) = 0
  BY <1>2, FS_EmptySet, SameCount
<1>4. /\ stream \in [Conns -> [Streams -> StreamStates]]
      /\ \A c \in Conns, s \in Streams : stream[c][s].sent = <<>>
  BY <1>1 DEF Q!Init
<1>5. /\ qloop = "accept" /\ qsem = 0
      /\ qconn \in [Conns -> {"none", "accepting", "closing", "refused", "closed"}]
  BY DEF Q!Init
<1>6. MaxConnections > 0 => 0 <= MaxConnections
  BY ServersAssumption
<1>. QED BY <1>2, <1>3, <1>4, <1>5, <1>6 DEF DoqInv

\* A step of one stream of a connection that is served.
LEMMA DoqStreamStep ==
  ASSUME DoqInv, NEW c \in Conns, NEW s \in Streams, NEW v \in StreamStates,
         c \in Q!Serving, ~v.wrote => v.sent = <<>>,
         stream' = [stream EXCEPT ![c][s] = v], UNCHANGED <<qloop, qsem, qconn>>
  PROVE  DoqInv'
<1>1. /\ stream' \in [Conns -> [Streams -> StreamStates]]
      /\ \A d \in Conns : d # c => stream'[d] = stream[d]
      /\ \A x \in Streams : stream'[c][x] = IF x = s THEN v ELSE stream[c][x]
  BY DEF DoqInv
<1>2. \A d \in Conns, x \in Streams : ~stream'[d][x].wrote => stream'[d][x].sent = <<>>
  BY <1>1 DEF DoqInv
<1>3. Q!Serving' = Q!Serving
  BY DEF Q!Serving
<1>4. \A d \in Conns : d \notin Q!Serving' => Q!Running(d)' = {}
  BY <1>1, <1>3 DEF DoqInv, Q!Running
<1>. QED BY <1>1, <1>2, <1>3, <1>4 DEF DoqInv

\* A stream is accepted, read, answered at most once, and ends.
LEMMA DoqStreams ==
  ASSUME DoqInv, NEW c \in Conns, NEW s \in Streams,
         \/ Q!AcceptStream(c, s) \/ Q!ReadFails(c, s) \/ Q!Return(c, s)
         \/ \E f \in Frames : Q!ReadFrame(c, s, f)
         \/ \E size \in {"fits", "large"} : Q!Reply(c, s, size)
  PROVE  DoqInv'
<1>1. UNCHANGED <<qloop, qsem, qconn>>
  BY DEF Q!AcceptStream, Q!ReadFails, Q!Return, Q!ReadFrame, Q!Reply
<1>2. c \in Q!Serving
  <2>1. CASE Q!AcceptStream(c, s)
    BY <2>1 DEF Q!AcceptStream, Q!Serving
  <2>2. CASE stream[c][s].at \in {"read", "reply", "handler"}
    BY <2>2 DEF DoqInv, Q!Running
  <2>. QED BY <2>1, <2>2 DEF Q!ReadFails, Q!Return, Q!ReadFrame, Q!Reply
<1>3. stream[c][s] \in StreamStates /\ (~stream[c][s].wrote => stream[c][s].sent = <<>>)
  BY DEF DoqInv
<1>4. ASSUME NEW a \in {"read", "reply", "handler", "ended"},
             stream' = [stream EXCEPT ![c][s].at = a]
      PROVE  DoqInv'
  <2>. DEFINE v == [stream[c][s] EXCEPT !.at = a]
  <2>1. v \in StreamStates /\ v.wrote = stream[c][s].wrote /\ v.sent = stream[c][s].sent
    BY <1>3 DEF StreamStates
  <2>2. stream' = [stream EXCEPT ![c][s] = v]
    BY <1>4
  <2>. HIDE DEF v
  <2>. QED BY <1>1, <1>2, <1>3, <2>1, <2>2, DoqStreamStep
<1>5. ASSUME NEW size \in {"fits", "large"}, Q!Reply(c, s, size)
      PROVE  DoqInv'
  <2>1. CASE stream[c][s].wrote
    <3>1. stream' = [stream EXCEPT ![c][s] = stream[c][s]]
      BY <1>5, <2>1 DEF Q!Reply, Q!WriteMsg, DoqInv
    <3>. QED BY <1>1, <1>2, <1>3, <3>1, DoqStreamStep
  <2>2. CASE ~stream[c][s].wrote
    <3>. DEFINE r == stream[c][s]
                v == [at |-> r.at, wrote |-> TRUE,
                      sent |-> IF size = "large" THEN r.sent ELSE Append(r.sent, 0)]
    <3>1. v \in StreamStates /\ v.wrote
      <4>1. Append(<<>>, 0) = <<0>>
        OBVIOUS
      <4>. QED BY <1>3, <2>2, <4>1 DEF StreamStates
    <3>2. stream' = [stream EXCEPT ![c][s] = v]
      BY <1>5, <2>2 DEF Q!Reply, Q!WriteMsg, DoqInv
    <3>. HIDE DEF v
    <3>. QED BY <1>1, <1>2, <3>1, <3>2, DoqStreamStep
  <2>. QED BY <2>1, <2>2
<1>6. Q!AcceptStream(c, s) => stream' = [stream EXCEPT ![c][s].at = "read"]
  BY DEF Q!AcceptStream
<1>7. Q!ReadFails(c, s) \/ Q!Return(c, s) => stream' = [stream EXCEPT ![c][s].at = "ended"]
  BY DEF Q!ReadFails, Q!Return, Q!End
<1>8. \A f \in Frames : Q!ReadFrame(c, s, f) =>
        \E a \in {"reply", "handler", "ended"} : stream' = [stream EXCEPT ![c][s].at = a]
  BY DEF Q!ReadFrame, Q!End
<1>. QED BY <1>4, <1>5, <1>6, <1>7, <1>8

\* The steps of the accept loop and of serveConn: slots follow the served connections,
\* and a connection leaves only without streams.
LEMMA DoqConns ==
  ASSUME DoqInv, NEW c \in Conns,
         \/ Q!Accept(c) \/ Q!LifetimeOver(c) \/ Q!AcceptStreamFails(c) \/ Q!CloseWithError(c)
  PROVE  DoqInv'
<1>1. UNCHANGED <<qloop, stream>> /\ \A d \in Conns : Q!Running(d)' = Q!Running(d)
  BY DEF Q!Accept, Q!LifetimeOver, Q!AcceptStreamFails, Q!CloseWithError, Q!Running
<1>2. Q!Serving \in SUBSET Conns
  BY DEF Q!Serving
<1>0. /\ qsem \in Nat /\ qsem = Q!Cardinality(Q!Serving) /\ MaxConnections \in Int
      /\ MaxConnections > 0 => qsem <= MaxConnections
  BY ServersAssumption DEF DoqInv
<1>3. CASE Q!Accept(c) /\ MaxConnections > 0 /\ qsem >= MaxConnections
  <2>1. qconn' = [qconn EXCEPT ![c] = "refused"] /\ qconn[c] = "none" /\ qsem' = qsem
    BY <1>3 DEF Q!Accept
  <2>2. Q!Serving' = Q!Serving
    BY <2>1 DEF DoqInv, Q!Serving
  <2>. QED BY <1>1, <2>1, <2>2 DEF DoqInv
<1>4. CASE Q!Accept(c) /\ ~(MaxConnections > 0 /\ qsem >= MaxConnections)
  <2>1. /\ qconn' = [qconn EXCEPT ![c] = "accepting"] /\ qconn[c] = "none" /\ qsem' = qsem + 1
        /\ qloop = "accept"
    BY <1>4 DEF Q!Accept
  <2>2. Q!Serving' = Q!Serving \cup {c} /\ c \notin Q!Serving
    BY <2>1 DEF DoqInv, Q!Serving
  <2>3. Q!Cardinality(Q!Serving') = Q!Cardinality(Q!Serving) + 1
    BY <1>2, <2>2, ServingStep
  <2>4. qsem' \in Nat /\ (MaxConnections > 0 => qsem' <= MaxConnections)
    BY <1>0, <1>4, <2>1
  <2>. QED BY <1>1, <2>1, <2>2, <2>3, <2>4 DEF DoqInv
<1>5. CASE Q!LifetimeOver(c)
  <2>1. UNCHANGED <<qconn, qsem>> /\ Q!Serving' = Q!Serving
    BY <1>5 DEF Q!LifetimeOver, Q!Serving
  <2>. QED BY <1>1, <2>1 DEF DoqInv
<1>6. CASE Q!AcceptStreamFails(c)
  <2>1. qconn' = [qconn EXCEPT ![c] = "closing"] /\ qconn[c] = "accepting" /\ qsem' = qsem
    BY <1>6 DEF Q!AcceptStreamFails
  <2>2. Q!Serving' = Q!Serving
    BY <2>1 DEF DoqInv, Q!Serving
  <2>. QED BY <1>1, <2>1, <2>2 DEF DoqInv
<1>7. CASE Q!CloseWithError(c)
  <2>1. /\ qconn' = [qconn EXCEPT ![c] = "closed"] /\ qconn[c] = "closing" /\ qsem' = qsem - 1
        /\ Q!Running(c) = {}
    BY <1>7 DEF Q!CloseWithError
  <2>2. Q!Serving' = Q!Serving \ {c} /\ c \in Q!Serving
    BY <2>1 DEF DoqInv, Q!Serving
  <2>3. Q!Cardinality(Q!Serving') = Q!Cardinality(Q!Serving) - 1 /\ Q!Cardinality(Q!Serving') \in Nat
    BY <1>2, <2>2, ServingStep
  <2>4. qsem' \in Nat /\ (MaxConnections > 0 => qsem' <= MaxConnections)
    BY <1>0, <2>1, <2>3
  <2>. QED BY <1>1, <2>1, <2>2, <2>3, <2>4 DEF DoqInv
<1>. QED BY <1>3, <1>4, <1>5, <1>6, <1>7

\* The DoQ server keeps its invariant.
LEMMA DoqStep == DoqInv /\ [Q!Next]_(Q!vars) => DoqInv'
<1>. SUFFICES ASSUME DoqInv, [Q!Next]_(Q!vars) PROVE DoqInv'
  OBVIOUS
<1>1. CASE UNCHANGED Q!vars \/ Q!AcceptFails \/ Q!Done \/ Q!Cancel
  <2>1. UNCHANGED <<qsem, qconn, stream>>
    BY <1>1 DEF Q!vars, Q!AcceptFails, Q!Done, Q!Cancel
  <2>2. Q!Serving' = Q!Serving /\ \A c \in Conns : Q!Running(c)' = Q!Running(c)
    BY <2>1 DEF Q!Serving, Q!Running
  <2>3. /\ qloop' \in {"accept", "draining", "done"}
        /\ qloop' = "done" => Q!Serving = {}
    BY <1>1 DEF DoqInv, Q!vars, Q!AcceptFails, Q!Done, Q!Cancel
  <2>. QED BY <2>1, <2>2, <2>3 DEF DoqInv
<1>. QED BY <1>1, DoqConns, DoqStreams DEF Q!Next
-----------------------------------------------------------------------------
(* The three servers. *)

\* What each server's invariant says of the properties.
LEMMA ServersHold ==
  ConnInvariant /\ UdpInv /\ DoqInv => SlotsHeld /\ RepliesReadable /\ DoneIsFinal
<1>. SUFFICES ASSUME ConnInvariant, UdpInv, DoqInv
             PROVE  SlotsHeld /\ RepliesReadable /\ DoneIsFinal
  OBVIOUS
<1>1. SlotsHeld
  BY DEF SlotsHeld, ConnInvariant, UdpInv
<1>2. Q!OneReply
  BY DEF Q!OneReply, DoqInv, StreamStates
<1>3. RepliesReadable
  BY <1>2 DEF RepliesReadable, ConnInvariant, UdpInv
<1>4. U!DoneIsFinal
  BY DEF UdpInv, Ending, U!DoneIsFinal, U!TypeOK
<1>5. Q!ClosedAfterStreams
  BY DEF DoqInv, Q!ClosedAfterStreams, Q!Serving
<1>. QED BY <1>1, <1>3, <1>4, <1>5 DEF DoneIsFinal

\* The three invariants hold whichever server takes the steps.
THEOREM ServersInvariance == MCSpec => [](ConnInvariant /\ UdpInv /\ DoqInv)
<1>1. MCInit => ConnInvariant /\ UdpInv /\ DoqInv
  BY InitConn, UdpInit, DoqInit DEF MCInit
<1>2. /\ [MCNext]_<<which, vars, uVars, qVars>> => [Next]_vars
      /\ [MCNext]_<<which, vars, uVars, qVars>> => [U!Next]_(U!vars)
      /\ [MCNext]_<<which, vars, uVars, qVars>> => [Q!Next]_(Q!vars)
  BY DEF MCNext, uVars, qVars, U!vars, Q!vars
<1>. QED BY <1>1, <1>2, ConnStep, UdpStep, DoqStep, PTL DEF MCSpec

\* The semaphores and the drop counters of the stream and UDP servers are exact.
THEOREM SlotsAreHeld == MCSpec => []SlotsHeld
BY ServersInvariance, ServersHold, PTL

\* No reply is broken into, too long for its client, sent under another handler's
\* deadline, or a second one on a DoQ stream.
THEOREM RepliesAreReadable == MCSpec => []RepliesReadable
BY ServersInvariance, ServersHold, PTL

\* Done and a connection's close come after the handlers and the streams.
THEOREM DoneComesLast == MCSpec => []DoneIsFinal
BY ServersInvariance, ServersHold, PTL
=============================================================================
