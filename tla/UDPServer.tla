------------------------------ MODULE UDPServer -----------------------------
(* The UDP server, server_udp.go: UDPServer.Run, udpLoop.run, handlePacket   *)
(* and udpResponseWriter.WriteMsg, with the drop counters of UDPController   *)
(* and the Done and Err of serverctl.Core.  The actors are the read loop,    *)
(* one goroutine per datagram, and the watcher that closes the socket when   *)
(* the context is cancelled.  A message is abstracted to its packed length.  *)
EXTENDS Integers, FiniteSets

CONSTANTS
  Handlers,      \* bound: datagram goroutines alive at once
  Sizes,         \* EDNS payload sizes clients advertise, and -1
  Lengths,       \* lengths of the responses handlers build
  StrippedLen,   \* length of a response cut down to header, question and OPT
  MaxResponse,   \* udpListenerConfig.maxResponseLen
  MaxInflight,   \* udpListenerConfig.maxInflight; <= 0: no semaphore
  MaxPackets,    \* bound: datagrams read
  None

(* The ingress gate every server shares, PreflightRequest in                 *)
(* server_preflight.go.  A request is abstracted to what the gate reads.     *)

\* qr: the QR bit; op: "query" stands for QUERY, UPDATE and NOTIFY, "other" for
\* the remaining opcodes; qd: QDCOUNT; size: EDNS payload size, -1 without OPT.
Requests ==
  [qr : BOOLEAN, op : {"query", "other"}, qd : {0, 1, 2}, size : Sizes]

PreflightRequest(q) ==
  IF q.qr THEN "drop"
  ELSE IF q.op = "query" /\ q.qd # 1 THEN "reply"
  ELSE "accept"
-----------------------------------------------------------------------------
VARIABLES
  ctx,       \* "live" or "cancelled"
  socket,    \* "open" or "closed"
  loop,      \* "read", "backoff", "drain", "returned", "done"
  outcome,   \* what run returns: "none" yet, "closed" (ErrServerClosed), "error"
  err,       \* Core.err is set
  watcher,   \* "watching" or "done"
  sem,       \* len(sem)
  received,  \* datagrams read
  drops,     \* the four counters of UDPController
  finished,  \* goroutines that ended without a counted drop
  stage,     \* per goroutine: "free", "parse", "serve", "blocked", "write"
  edns,      \* per goroutine: the EDNS size of the request it parsed, or None
  wrote,     \* per goroutine: udpResponseWriter.wrote
  sent,      \* per goroutine: length of the datagram sent, 0 for none
  packed,    \* per goroutine: length of the buffer WriteMsg is about to send
  writeMu,   \* who holds it
  setBy      \* whose write deadline the socket has

vars == <<ctx, socket, loop, outcome, err, watcher, sem, received, drops, finished,
          stage, edns, wrote, sent, packed, writeMu, setBy>>

loopVars == <<loop, outcome, err>>
writeVars == <<wrote, sent, packed, writeMu, setBy>>

Reasons == {"parse", "inflight", "prefilter", "preflight"}
Limited == MaxInflight > 0
-----------------------------------------------------------------------------
Init ==
  /\ ctx = "live" /\ socket = "open" /\ loop = "read" /\ outcome = "none" /\ err = FALSE
  /\ watcher = "watching" /\ sem = 0 /\ received = 0 /\ finished = 0
  /\ drops = [r \in Reasons |-> 0]
  /\ stage = [h \in Handlers |-> "free"]
  /\ edns = [h \in Handlers |-> None]
  /\ wrote = [h \in Handlers |-> FALSE]
  /\ sent = [h \in Handlers |-> 0]
  /\ packed = [h \in Handlers |-> 0]
  /\ writeMu = None /\ setBy = None

(* The read loop *)

\* Every source is a UDPAddr: the socket is one that net.ListenPacket("udp") opened, so
\* the branch of run that drops any other source without counting it is never taken.
Readable == loop = "read" /\ socket = "open" /\ received < MaxPackets
Drop(reason) == drops' = [drops EXCEPT ![reason] = @ + 1]

\* Leaving run: the deferred wg.Wait comes first.
Leave(why) == loop' = "drain" /\ outcome' = why /\ UNCHANGED err

ReadFiltered ==
  /\ Readable /\ received' = received + 1 /\ Drop("prefilter")
  /\ UNCHANGED <<ctx, socket, loopVars, watcher, sem, finished, stage, edns, writeVars>>

Full == Limited /\ sem >= MaxInflight

ReadAtCap ==
  /\ Readable /\ Full /\ received' = received + 1 /\ Drop("inflight")
  /\ UNCHANGED <<ctx, socket, loopVars, watcher, sem, finished, stage, edns, writeVars>>

ReadPacket(h) ==
  /\ Readable /\ ~Full /\ stage[h] = "free" /\ received' = received + 1
  /\ sem' = IF Limited THEN sem + 1 ELSE sem
  /\ stage' = [stage EXCEPT ![h] = "parse"]
  /\ UNCHANGED <<ctx, socket, loopVars, watcher, drops, finished, edns, writeVars>>

ReadStopped ==
  /\ loop = "read" /\ (socket = "closed" \/ ctx = "cancelled") /\ Leave("closed")
  /\ UNCHANGED <<ctx, socket, watcher, sem, received, drops, finished, stage, edns,
                 writeVars>>

ReadTransient ==
  /\ loop = "read" /\ socket = "open" /\ ctx = "live" /\ loop' = "backoff"
  /\ UNCHANGED <<ctx, socket, outcome, err, watcher, sem, received, drops, finished, stage,
                 edns, writeVars>>

ReadFails ==
  /\ loop = "read" /\ socket = "open" /\ ctx = "live" /\ Leave("error")
  /\ UNCHANGED <<ctx, socket, watcher, sem, received, drops, finished, stage, edns,
                 writeVars>>

BackoffEnds ==
  /\ loop = "backoff" /\ loop' = "read"
  /\ UNCHANGED <<ctx, socket, outcome, err, watcher, sem, received, drops, finished, stage,
                 edns, writeVars>>

BackoffCancelled ==
  /\ loop = "backoff" /\ ctx = "cancelled" /\ Leave("closed")
  /\ UNCHANGED <<ctx, socket, watcher, sem, received, drops, finished, stage, edns,
                 writeVars>>

\* wg.Wait returns and run returns; then SetErr; then the deferred CloseDone.
Drained ==
  /\ loop = "drain" /\ \A h \in Handlers : stage[h] = "free"
  /\ loop' = "returned"
  /\ UNCHANGED <<ctx, socket, outcome, err, watcher, sem, received, drops, finished, stage,
                 edns, writeVars>>

SetErr ==
  /\ loop = "returned" /\ outcome = "error" /\ ~err /\ err' = TRUE
  /\ UNCHANGED <<ctx, socket, loop, outcome, watcher, sem, received, drops, finished, stage,
                 edns, writeVars>>

CloseDone ==
  /\ loop = "returned" /\ (outcome = "error" => err) /\ loop' = "done"
  /\ UNCHANGED <<ctx, socket, outcome, err, watcher, sem, received, drops, finished, stage,
                 edns, writeVars>>

(* handlePacket *)

\* The goroutine's writer is dropped; its deferred function returns the slot.
DropWriter(h) ==
  /\ edns' = [edns EXCEPT ![h] = None] /\ wrote' = [wrote EXCEPT ![h] = FALSE]
  /\ sent' = [sent EXCEPT ![h] = 0] /\ packed' = [packed EXCEPT ![h] = 0]
  /\ UNCHANGED <<writeMu, setBy>>

Release == sem' = IF Limited THEN sem - 1 ELSE sem

End(h) == DropWriter(h) /\ Release /\ stage' = [stage EXCEPT ![h] = "free"]

Malformed_Uncounted(h) ==
  /\ stage[h] = "parse" /\ End(h)
  /\ UNCHANGED <<ctx, socket, loopVars, watcher, received, drops, finished>>
Malformed(h) ==
  /\ stage[h] = "parse" /\ Drop("parse") /\ End(h)
  /\ UNCHANGED <<ctx, socket, loopVars, watcher, received, finished>>

PreflightDrops(h, q) ==
  /\ stage[h] = "parse" /\ PreflightRequest(q) = "drop" /\ Drop("preflight") /\ End(h)
  /\ UNCHANGED <<ctx, socket, loopVars, watcher, received, finished>>

\* What a client accepts, and what the listener sends at most.
Accepts(size) == IF size > 512 THEN size ELSE 512
maxResp(size) == IF Accepts(size) > MaxResponse THEN MaxResponse ELSE Accepts(size)

Fit(len, max) == IF len > max THEN StrippedLen ELSE len

\* WriteMsg up to the mutex: packed, truncated to the limit, wrote is set.
Pack(h, size, len) == packed' = [packed EXCEPT ![h] = Fit(len, maxResp(size))]

\* The FORMERR reply of the gate: without a question it is as short as a stripped one.
PreflightReplies(h, q) ==
  /\ stage[h] = "parse" /\ PreflightRequest(q) = "reply"
  /\ edns' = [edns EXCEPT ![h] = q.size]
  /\ Pack(h, q.size, StrippedLen) /\ wrote' = [wrote EXCEPT ![h] = TRUE]
  /\ stage' = [stage EXCEPT ![h] = "blocked"]
  /\ UNCHANGED <<ctx, socket, loopVars, watcher, sem, received, drops, finished, sent,
                 writeMu, setBy>>

ServeDNS(h, q) ==
  /\ stage[h] = "parse" /\ PreflightRequest(q) = "accept"
  /\ edns' = [edns EXCEPT ![h] = q.size] /\ stage' = [stage EXCEPT ![h] = "serve"]
  /\ UNCHANGED <<ctx, socket, loopVars, watcher, sem, received, drops, finished, writeVars>>

\* A handler's call of WriteMsg; a second call fails and changes nothing.
MayWrite(h) == ~wrote[h]

WriteMsg(h, len) ==
  /\ stage[h] = "serve" /\ MayWrite(h)
  /\ Pack(h, edns[h], len) /\ wrote' = [wrote EXCEPT ![h] = TRUE]
  /\ stage' = [stage EXCEPT ![h] = "blocked"]
  /\ UNCHANGED <<ctx, socket, loopVars, watcher, sem, received, drops, finished, edns,
                 sent, writeMu, setBy>>

Lockable == writeMu = None

Lock(h) ==
  /\ stage[h] = "blocked" /\ Lockable /\ writeMu' = h /\ setBy' = h
  /\ stage' = [stage EXCEPT ![h] = "write"]
  /\ UNCHANGED <<ctx, socket, loopVars, watcher, sem, received, drops, finished, edns,
                 wrote, sent, packed>>

\* WriteTo sends, or fails on a closed socket or a passed deadline; the mutex
\* is released.  A second write would add to what the client receives.
WriteTo(h) ==
  /\ stage[h] = "write" /\ writeMu' = None /\ stage' = [stage EXCEPT ![h] = "serve"]
  /\ \/ socket = "open" /\ sent' = [sent EXCEPT ![h] = @ + packed[h]]
     \/ UNCHANGED sent
  /\ UNCHANGED <<ctx, socket, loopVars, watcher, sem, received, drops, finished, edns,
                 wrote, packed, setBy>>

Return(h) ==
  /\ stage[h] = "serve" /\ End(h) /\ finished' = finished + 1
  /\ UNCHANGED <<ctx, socket, loopVars, watcher, received, drops>>

(* The watcher, and the environment *)

Cancel ==
  /\ ctx = "live" /\ ctx' = "cancelled"
  /\ UNCHANGED <<socket, loopVars, watcher, sem, received, drops, finished, stage, edns,
                 writeVars>>

WatchCancelled ==
  /\ watcher = "watching" /\ ctx = "cancelled" /\ watcher' = "done" /\ socket' = "closed"
  /\ UNCHANGED <<ctx, loopVars, sem, received, drops, finished, stage, edns, writeVars>>

WatchStopped ==
  /\ watcher = "watching" /\ loop \in {"returned", "done"} /\ watcher' = "done"
  /\ UNCHANGED <<ctx, socket, loopVars, sem, received, drops, finished, stage, edns,
                 writeVars>>
-----------------------------------------------------------------------------
run ==
  \/ ReadFiltered \/ ReadAtCap \/ (\E h \in Handlers : ReadPacket(h))
  \/ ReadStopped \/ ReadTransient \/ ReadFails \/ BackoffEnds \/ BackoffCancelled
  \/ Drained \/ SetErr \/ CloseDone

handlePacket(h) ==
  \/ Malformed(h) \/ Lock(h) \/ WriteTo(h) \/ Return(h)
  \/ \E q \in Requests : PreflightDrops(h, q) \/ PreflightReplies(h, q) \/ ServeDNS(h, q)

watch == WatchCancelled \/ WatchStopped

Next ==
  \/ run \/ watch \/ Cancel
  \/ \E h \in Handlers : handlePacket(h) \/ \E len \in Lengths : WriteMsg(h, len)

Spec == Init /\ [][Next]_vars

\* Goroutines keep running; a handler returns.  ReadFrom owes an answer only
\* once the socket is closed.
Fairness ==
  /\ WF_vars(ReadStopped /\ socket = "closed") /\ WF_vars(BackoffEnds \/ BackoffCancelled)
  /\ WF_vars(Drained \/ SetErr \/ CloseDone) /\ WF_vars(watch)
  /\ \A h \in Handlers : WF_vars(handlePacket(h))

FairSpec == Spec /\ Fairness
-----------------------------------------------------------------------------
TypeOK ==
  /\ ctx \in {"live", "cancelled"} /\ socket \in {"open", "closed"}
  /\ loop \in {"read", "backoff", "drain", "returned", "done"}
  /\ outcome \in {"none", "closed", "error"} /\ err \in BOOLEAN
  /\ watcher \in {"watching", "done"}
  /\ sem \in Nat /\ received \in Nat /\ finished \in Nat /\ drops \in [Reasons -> Nat]
  /\ stage \in [Handlers -> {"free", "parse", "serve", "blocked", "write"}]
  /\ edns \in [Handlers -> Sizes \cup {None}]
  /\ wrote \in [Handlers -> BOOLEAN]
  /\ sent \in [Handlers -> Nat] /\ packed \in [Handlers -> Nat]
  /\ writeMu \in Handlers \cup {None} /\ setBy \in Handlers \cup {None}

Running == {h \in Handlers : stage[h] # "free"}

\* The in-flight semaphore counts the datagram goroutines and bounds them, on
\* every way a goroutine can end.
InflightBounded == Limited => sem = Cardinality(Running) /\ sem <= MaxInflight

\* Every datagram read is being handled, has been handled, or is in exactly one
\* of the drop counters: the counters of UDPController miss nothing and count
\* nothing twice.
DropsAccounted ==
  received = Cardinality(Running) + finished
             + drops["parse"] + drops["inflight"] + drops["prefilter"] + drops["preflight"]

\* "serialises Deadline+WriteTo through a per-listener mutex so each writer sees
\* its own deadline" (server_udp.go:101-103).
OwnDeadline == \A h \in Handlers : stage[h] = "write" => writeMu = h /\ setBy = h

\* A client gets at most one datagram for its own: the response, if it is no longer
\* than the size the client advertised (512 without EDNS) and the listener's limit,
\* else the header, the question and the OPT alone, whose length nothing checks.
ReplyFits ==
  \A h \in Handlers :
    edns[h] # None =>
      \/ sent[h] = StrippedLen
      \/ sent[h] <= MaxResponse /\ (sent[h] <= 512 \/ sent[h] <= edns[h])

\* Done closes after the handlers have drained, and Wait then returns the error
\* that ended the loop (serverctl.go:56-61).
DoneIsFinal == loop = "done" => Running = {} /\ (err <=> outcome = "error")

\* A cancelled server reports Done.
CancelStops == ctx = "cancelled" ~> loop = "done"
=============================================================================
