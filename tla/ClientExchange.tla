--------------------------- MODULE ClientExchange ---------------------------
(* The clients that use a fresh connection for a query: UDPClient and        *)
(* TCPClient (exchanger_udp.go, exchanger_tcp.go), dot.Client, doh.Client,   *)
(* doq.Client and dnscrypt.Client, with the streams TCPClient, dot.Client    *)
(* and doq.Client give for zone transfers (internal/streamframe, doq.go).  A *)
(* call sets the connection's deadline, starts a goroutine that moves it to  *)
(* now when the caller's context ends, and reads.                            *)
EXTENDS Integers, FiniteSets

CONSTANTS
  Kinds,      \* the clients looked at
  Timeouts,   \* for each, whether it may have a timeout of its own: a set of booleans
  Budget,     \* UDP: for each fault of a datagram, how many of them end an exchange
  MaxCalls    \* bound: Next calls on a stream

VARIABLES
  kind, timeout,
  ctxDl,      \* whether the contexts have a deadline
  ctx,        \* the context of each call: "live" or "done"
  call, pc,   \* the call being made; where it stands
  deadline,   \* of the connection: "none", "set", "past"
  watchers,   \* the calls whose goroutine has not ended
  bad,        \* UDP: faulty datagrams seen
  result      \* what the last call returned

vars == <<kind, timeout, ctxDl, ctx, call, pc, deadline, watchers, bad, result>>

Calls == 1..MaxCalls
Streams == {"stream", "doqStream"}
Faults == DOMAIN Budget

Init ==
  /\ kind \in Kinds /\ timeout \in Timeouts[kind] /\ ctxDl \in BOOLEAN
  /\ ctx = [i \in Calls |-> "live"] /\ call = 1 /\ pc = "dial"
  /\ deadline = "none" /\ watchers = {} /\ bad = [f \in Faults |-> 0] /\ result = "none"

Gone == ctx[call] = "done"

\* A call ends: the connection is closed but by a stream that gave a message.
Return(r) ==
  /\ result' = r
  /\ pc' = IF kind \in Streams /\ r = "ok" THEN "idle" ELSE "closed"
-----------------------------------------------------------------------------
(* Setting out. *)

\* doq.Client bounds its dial by the context and sets no deadline after it; it and
\* dnscrypt.Client watch no context.  http.Client keeps the others' rules for
\* doh.Client.
Bounded == kind \notin {"doq", "doqStream"}
Guarded == Bounded /\ kind # "dnscrypt"

DialDeadline_CtxOnly == IF Bounded /\ ctxDl THEN "set" ELSE "none"
DialDeadline == IF Bounded /\ (ctxDl \/ timeout) THEN "set" ELSE "none"

\* A dial whose context has ended fails.
Dial ==
  /\ pc = "dial" /\ ~Gone
  /\ deadline' = DialDeadline /\ watchers' = IF Guarded THEN {call} ELSE {}
  /\ pc' = "write"
  /\ UNCHANGED <<kind, timeout, ctxDl, ctx, call, bad, result>>

DialFails ==
  /\ pc = "dial" /\ Return("error")
  /\ UNCHANGED <<kind, timeout, ctxDl, ctx, call, deadline, watchers, bad>>

\* An exchange reads on; NewConnStream waits for its goroutine and gives the stream.
Write ==
  /\ pc = "write"
  /\ IF kind \in Streams THEN Return("ok") /\ watchers' = {}
     ELSE pc' = "read" /\ UNCHANGED <<watchers, result>>
  /\ UNCHANGED <<kind, timeout, ctxDl, ctx, call, deadline, bad>>

WriteFails ==
  /\ pc = "write" /\ Return("error")
  /\ UNCHANGED <<kind, timeout, ctxDl, ctx, call, deadline, watchers, bad>>

\* ConnStream.Next, doqStream.Next: a deadline only if the context has one.
NextMessage ==
  /\ pc = "idle" /\ call < MaxCalls
  /\ call' = call + 1 /\ pc' = "read" /\ watchers' = watchers \cup {call + 1}
  /\ deadline' = IF ctxDl THEN "set" ELSE deadline
  /\ UNCHANGED <<kind, timeout, ctxDl, ctx, bad, result>>

Close ==
  /\ pc = "idle" /\ pc' = "closed"
  /\ UNCHANGED <<kind, timeout, ctxDl, ctx, call, deadline, watchers, bad, result>>
-----------------------------------------------------------------------------
(* What comes back: a match, a fault, or the peer closing. *)

\* UDPClient.Exchange's loop: a datagram that is not the answer is read over, within
\* its budget; nothing is accepted once the context is done.
udpRead(d) ==
  IF Gone THEN "ctx"
  ELSE IF d = "match" THEN "ok"
  ELSE IF d \in Faults /\ bad[d] + 1 < Budget[d] THEN "again" ELSE "error"

\* ExchangeOnConn compares questions without their case, ConnStream.Next none.
frameRead(d) == IF d \in {"match", "case"} THEN "ok" ELSE "error"
ConnStreamNext(d) == IF d \in {"match", "case", "question"} THEN "ok" ELSE "error"
decodeDoQResponse(d) == IF d \in {"match", "case"} THEN "ok" ELSE "error"
dnscryptRead(d) == IF d \in {"match", "case"} THEN "ok" ELSE "error"
dohRead(d) == IF d \in {"match", "case"} THEN "ok" ELSE "error"

ReadResult(d) ==
  CASE kind = "udp" -> udpRead(d)
    [] kind = "frame" -> frameRead(d)
    [] kind = "stream" -> ConnStreamNext(d)
    [] kind = "doh" -> dohRead(d)
    [] kind = "dnscrypt" -> dnscryptRead(d)
    [] OTHER -> decodeDoQResponse(d)

Receive(d) ==
  /\ pc = "read" /\ deadline # "past"
  /\ IF ReadResult(d) = "again"
     THEN bad' = [bad EXCEPT ![d] = @ + 1] /\ UNCHANGED <<pc, result>>
     ELSE Return(ReadResult(d)) /\ UNCHANGED bad
  /\ UNCHANGED <<kind, timeout, ctxDl, ctx, call, deadline, watchers>>

ReadTimesOut ==
  /\ pc = "read" /\ deadline = "past"
  /\ Return(IF Gone THEN "ctx" ELSE "error")
  /\ UNCHANGED <<kind, timeout, ctxDl, ctx, call, deadline, watchers, bad>>
-----------------------------------------------------------------------------
(* Time, the callers and the goroutines. *)

Expire ==
  /\ deadline = "set" /\ deadline' = "past"
  /\ UNCHANGED <<kind, timeout, ctxDl, ctx, call, pc, watchers, bad, result>>

\* The context of a call is cancelled, or its deadline passes.
ContextEnds ==
  /\ pc \in {"dial", "write", "read"} /\ ctx[call] = "live"
  /\ ctx' = [ctx EXCEPT ![call] = "done"]
  /\ UNCHANGED <<kind, timeout, ctxDl, call, pc, deadline, watchers, bad, result>>

Returned(i) == i < call \/ pc \in {"idle", "closed"}

\* Both cases of the select may be ready: a finished call's goroutine may still move
\* the deadline.
Watch(i) ==
  /\ i \in watchers /\ ctx[i] = "done"
  /\ deadline' = "past" /\ watchers' = watchers \ {i}
  /\ UNCHANGED <<kind, timeout, ctxDl, ctx, call, pc, bad, result>>

WatcherStops(i) ==
  /\ i \in watchers /\ Returned(i)
  /\ watchers' = watchers \ {i}
  /\ UNCHANGED <<kind, timeout, ctxDl, ctx, call, pc, deadline, bad, result>>

Next ==
  \/ Dial \/ DialFails \/ Write \/ WriteFails \/ NextMessage \/ Close
  \/ ReadTimesOut \/ Expire \/ ContextEnds
  \/ \E d \in Faults \cup {"match", "gone"} : Receive(d)
  \/ \E i \in Calls : Watch(i) \/ WatcherStops(i)

\* Dials and writes end (they are bounded by the context and the kernel's buffers),
\* goroutines run, deadlines pass and a read past its deadline returns; no peer has
\* to send anything.
Progress ==
  \/ Dial \/ DialFails \/ Write \/ WriteFails \/ Expire \/ ReadTimesOut
  \/ \E i \in Calls : Watch(i)

Spec == Init /\ [][Next]_vars /\ WF_vars(Progress)
-----------------------------------------------------------------------------
(* Properties. *)

Busy == pc \in {"dial", "write", "read"}
Due == Busy /\ (Gone \/ ctxDl \/ (call = 1 /\ timeout))

\* "Implementations MUST honor the context deadline and cancellation"
\* (exchanger.go:16-17): a call whose context ends returns, whatever the peer does,
\* and so does one whose context has a deadline or whose client has a timeout,
\* however many datagrams that are not its answer arrive.
HonorsContext == Due ~> ~Busy
=============================================================================
