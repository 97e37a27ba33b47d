------------------------------ MODULE DoHServer ------------------------------
(* The DoH server (doh/server.go): the listener that bounds connections in    *)
(* all and per source (limit_listener.go), the HTTP handler around a DNS      *)
(* handler, and Run's shutdown.  net/http is external: it accepts in a loop,  *)
(* runs the handler for the requests of a connection at the same time, the    *)
(* streams of HTTP/2, may close a connection more than once, and its Shutdown *)
(* makes ServeTLS return at once, closes what is idle and waits for the rest  *)
(* until its own deadline.                                                    *)
EXTENDS Integers, FiniteSets, Sequences

CONSTANTS
  Conns, Sources,
  Streams,       \* the requests under way at once, on all connections
  MaxConnections, MaxConnsPerSource,
  MaxRequestBytes,
  Requests,      \* [method, ctype, advertised, size, cut, decodes, dns, preflight]
  Replies,       \* what a handler writes: sequences of "ok" and "unpackable"
  None

VARIABLES
  ctx, listener,
  accept,        \* http.Server's loop: "acquire", "accept", "returned"
  sem, perSource,
  conn,          \* each connection: [state, src]
  stream,        \* each stream: [state, req, responses], the last its number of HTTP responses
  shutdown,      \* "no", "waiting", "over"
  done           \* whether ctrl.Done is closed

vars == <<ctx, listener, accept, sem, perSource, conn, stream, shutdown, done>>

Conn(state, src) == [state |-> state, src |-> src]
Stream(state, req, n) == [state |-> state, req |-> req, responses |-> n]
IsOpen(c) == conn[c].state = "open"
GlobalCap == IF MaxConnections > 0 THEN MaxConnections ELSE Cardinality(Conns) + 1

Init ==
  /\ ctx = "live" /\ listener = "open" /\ accept = "acquire" /\ sem = 0
  /\ perSource = [s \in Sources |-> 0] /\ conn = [c \in Conns |-> Conn("none", None)]
  /\ stream = [h \in Streams |-> Stream("none", None, 0)]
  /\ shutdown = "no" /\ done = FALSE
-----------------------------------------------------------------------------
(* limitListener. *)

\* Accept first takes a slot, waiting in the kernel's backlog for one.
acquire ==
  /\ accept = "acquire"
  /\ \/ /\ listener = "closed" /\ accept' = "returned" /\ UNCHANGED sem
     \/ /\ sem < GlobalCap /\ accept' = "accept" /\ sem' = sem + 1
  /\ UNCHANGED <<ctx, listener, perSource, conn, stream, shutdown, done>>

\* Reserve: netutil.SourceLimiter.  Over its share a source is dropped and the
\* slot given back; a peer without an address is only counted in all.
Reserve(s) == MaxConnsPerSource <= 0 \/ perSource[s] < MaxConnsPerSource

Accept(c, s) ==
  /\ accept = "accept" /\ listener = "open" /\ conn[c].state = "none" /\ accept' = "acquire"
  /\ IF s # None /\ ~Reserve(s)
     THEN conn' = [conn EXCEPT ![c] = Conn("dropped", s)] /\ sem' = sem - 1 /\ UNCHANGED perSource
     ELSE /\ conn' = [conn EXCEPT ![c] = Conn("open", s)] /\ UNCHANGED sem
          /\ perSource' = IF s = None \/ MaxConnsPerSource <= 0 THEN perSource
                          ELSE [perSource EXCEPT ![s] = @ + 1]
  /\ UNCHANGED <<ctx, listener, stream, shutdown, done>>

\* The socket is closed, or fails, and the slot is given back: ServeTLS returns,
\* or tries again after an error that is temporary.
AcceptFails ==
  /\ accept = "accept" /\ sem' = sem - 1
  /\ accept' \in IF listener = "open" THEN {"acquire", "returned"} ELSE {"returned"}
  /\ UNCHANGED <<ctx, listener, perSource, conn, stream, shutdown, done>>

Release(c) ==
  /\ sem' = sem - 1
  /\ perSource' = IF conn[c].src = None \/ MaxConnsPerSource <= 0 THEN perSource
                  ELSE [perSource EXCEPT ![conn[c].src] = @ - 1]

\* limitConn.Close: its once lets only the first call release.  A stream's handler may
\* still run when its peer has gone.
CloseConn_Twice(c) ==
  /\ \/ IsOpen(c) /\ conn' = [conn EXCEPT ![c].state = "closed"]
     \/ conn[c].state = "closed" /\ conn' = [conn EXCEPT ![c].state = "closed again"]
  /\ Release(c) /\ UNCHANGED <<ctx, listener, accept, stream, shutdown, done>>
CloseConn(c) ==
  /\ \/ /\ IsOpen(c) /\ conn' = [conn EXCEPT ![c].state = "closed"] /\ Release(c)
     \/ /\ conn[c].state = "closed" /\ conn' = [conn EXCEPT ![c].state = "closed again"]
        /\ UNCHANGED <<sem, perSource>>
  /\ UNCHANGED <<ctx, listener, accept, stream, shutdown, done>>
-----------------------------------------------------------------------------
(* dohHandler. *)

\* The status of a request that has no message in it, or "body"; a body that is cut off
\* within the limit is a bad request.
readRequest(r) ==
  IF r.method = "POST"
  THEN IF ~r.ctype THEN "415"
       ELSE IF r.advertised > MaxRequestBytes \/ r.size > MaxRequestBytes THEN "413"
       ELSE IF r.cut THEN "400" ELSE "body"
  ELSE IF r.method = "GET"
  THEN IF r.size = 0 THEN "400" ELSE IF r.size > MaxRequestBytes THEN "413"
       ELSE IF ~r.decodes THEN "400" ELSE "body"
  ELSE "405"

\* dohResponseWriter: the first write is the response, whatever becomes of it.
WriteMsg(sent, m) ==
  IF sent # <<>> THEN sent ELSE <<IF m = "ok" THEN "200" ELSE "500">>

\* ServeHTTP: a handler that wrote nothing is answered for with SERVFAIL; every write
\* after the second is refused as the second is.
ServeHTTP(r, writes) ==
  LET wrote == IF writes = <<>> THEN <<>>
               ELSE LET first == WriteMsg(<<>>, writes[1])
                    IN  IF Len(writes) = 1 THEN first ELSE WriteMsg(first, writes[2])
  IN  IF readRequest(r) # "body" THEN <<readRequest(r)>>
      ELSE IF ~r.dns THEN <<"400">>
      ELSE CASE r.preflight = "drop" -> <<"400">>
             [] r.preflight = "reply" -> WriteMsg(<<>>, "ok")
             [] OTHER -> IF wrote = <<>> THEN WriteMsg(<<>>, "ok") ELSE wrote

\* A request of an open connection, whatever its other streams are doing.
Begin(h, c, r) ==
  /\ stream[h].state # "active" /\ IsOpen(c)
  /\ stream' = [stream EXCEPT ![h] = Stream("active", r, 0)]
  /\ UNCHANGED <<ctx, listener, accept, sem, perSource, conn, shutdown, done>>

\* The handler returns; its context is the server's.
Finish(h, writes) ==
  /\ stream[h].state = "active"
  /\ stream' = [stream EXCEPT ![h] = Stream("over", None, Len(ServeHTTP(@.req, writes)))]
  /\ UNCHANGED <<ctx, listener, accept, sem, perSource, conn, shutdown, done>>
-----------------------------------------------------------------------------
(* Run. *)

Cancel ==
  /\ ctx = "live" /\ ctx' = "done"
  /\ UNCHANGED <<listener, accept, sem, perSource, conn, stream, shutdown, done>>

\* hs.Shutdown closes the listener, and what is idle (CloseConn).
Shutdown ==
  /\ ctx = "done" /\ shutdown = "no" /\ shutdown' = "waiting" /\ listener' = "closed"
  /\ UNCHANGED <<ctx, accept, sem, perSource, conn, stream, done>>

\* All connections are gone, or ten seconds have passed.
ShutdownReturns ==
  /\ shutdown = "waiting" /\ shutdown' = "over"
  /\ UNCHANGED <<ctx, listener, accept, sem, perSource, conn, stream, done>>

\* ServeTLS returns once its loop has, or as soon as Shutdown has begun.
CloseDone ==
  /\ ~done /\ (accept = "returned" \/ shutdown # "no") /\ done' = TRUE
  /\ UNCHANGED <<ctx, listener, accept, sem, perSource, conn, stream, shutdown>>

Next ==
  \/ acquire \/ AcceptFails \/ Cancel \/ Shutdown \/ ShutdownReturns \/ CloseDone
  \/ \E c \in Conns :
       \/ \E s \in Sources \cup {None} : Accept(c, s)
       \/ \E h \in Streams, r \in Requests : Begin(h, c, r)
       \/ CloseConn(c)
  \/ \E h \in Streams, ws \in Replies : Finish(h, ws)

Spec == Init /\ [][Next]_vars
-----------------------------------------------------------------------------
Open == {c \in Conns : IsOpen(c)}
OpenFrom(s) == {c \in Conns : IsOpen(c) /\ conn[c].src = s}

\* Each slot taken and not given back is an open connection's or the accept
\* loop's, each source's count is of its open connections, and both are bounded.
ConnsAccounted ==
  /\ sem = Cardinality(Open) + (IF accept = "accept" THEN 1 ELSE 0)
  /\ MaxConnections > 0 => sem <= MaxConnections
  /\ \A s \in Sources : MaxConnsPerSource > 0 =>
       perSource[s] = Cardinality(OpenFrom(s)) /\ perSource[s] <= MaxConnsPerSource

\* Every request is given exactly one HTTP response, whether its handler writes
\* nothing, once or twice, or what cannot be packed.
AnsweredOnce == \A h \in Streams : stream[h].state = "over" => stream[h].responses = 1
=============================================================================
