------------------------------ MODULE DoQServer ------------------------------
(* The DoQ server (doq/server.go): the accept loop with its cap on            *)
(* connections, serveConn's loop over a connection's streams, and a goroutine *)
(* per stream.  QUIC is external: a peer may open streams up to its limit,    *)
(* send nothing, and go; an idle connection ends.                             *)
EXTENDS Integers, FiniteSets, Sequences

CONSTANTS
  Conns, Streams,    \* Streams: those of each connection, at most
  MaxConnections,
  StreamReadTimeout, \* whether a read is bounded: TRUE or FALSE
  MaxConnLifetime,   \* whether a connection's life is
  Frames,            \* what a peer may send: [size, body, id, preflight]
  MaxMessageSize

VARIABLES
  ctx,
  loop,      \* "accept", "draining", "done"
  sem,
  conn,      \* each connection: "none", "accepting", "closing", "refused", "closed"
  connCtx,   \* "live" or "done"
  stream     \* each stream: [at, wrote, sent]

vars == <<ctx, loop, sem, conn, connCtx, stream>>

NoStream == [at |-> "none", wrote |-> FALSE, sent |-> <<>>]
Running(c) == {s \in Streams : stream[c][s].at \notin {"none", "ended"}}
Serving == {c \in Conns : conn[c] \in {"accepting", "closing"}}

Init ==
  /\ ctx = "live" /\ loop = "accept" /\ sem = 0
  /\ conn = [c \in Conns |-> "none"] /\ connCtx = [c \in Conns |-> "live"]
  /\ stream = [c \in Conns |-> [s \in Streams |-> NoStream]]
-----------------------------------------------------------------------------
\* run: past the cap a connection is refused and not waited for.
Accept(c) ==
  /\ loop = "accept" /\ conn[c] = "none"
  /\ IF MaxConnections > 0 /\ sem >= MaxConnections
     THEN conn' = [conn EXCEPT ![c] = "refused"] /\ UNCHANGED sem
     ELSE conn' = [conn EXCEPT ![c] = "accepting"] /\ sem' = sem + 1
  /\ UNCHANGED <<ctx, loop, connCtx, stream>>

\* The context is done, the listener closed, or QUIC fails.
AcceptFails ==
  /\ loop = "accept" /\ loop' = "draining"
  /\ UNCHANGED <<ctx, sem, conn, connCtx, stream>>

Done ==
  /\ loop = "draining" /\ Serving = {} /\ loop' = "done"
  /\ UNCHANGED <<ctx, sem, conn, connCtx, stream>>

Cancel ==
  /\ ctx = "live" /\ ctx' = "done" /\ connCtx' = [c \in Conns |-> "done"]
  /\ UNCHANGED <<loop, sem, conn, stream>>

LifetimeOver(c) ==
  /\ MaxConnLifetime /\ conn[c] = "accepting" /\ connCtx[c] = "live"
  /\ connCtx' = [connCtx EXCEPT ![c] = "done"]
  /\ UNCHANGED <<ctx, loop, sem, conn, stream>>
-----------------------------------------------------------------------------
(* serveConn. *)

AcceptStream(c, s) ==
  /\ conn[c] = "accepting" /\ stream[c][s].at = "none"
  /\ stream' = [stream EXCEPT ![c][s].at = "read"]
  /\ UNCHANGED <<ctx, loop, sem, conn, connCtx>>

\* The connection's context is done, or the peer has gone: serveConn cancels the
\* context and waits for its streams.
AcceptStreamFails(c) ==
  /\ conn[c] = "accepting"
  /\ conn' = [conn EXCEPT ![c] = "closing"] /\ connCtx' = [connCtx EXCEPT ![c] = "done"]
  /\ UNCHANGED <<ctx, loop, sem, stream>>

CloseWithError_Early(c) ==
  /\ conn[c] = "closing" /\ conn' = [conn EXCEPT ![c] = "closed"] /\ sem' = sem - 1
  /\ UNCHANGED <<ctx, loop, connCtx, stream>>
CloseWithError(c) ==
  /\ conn[c] = "closing" /\ Running(c) = {}
  /\ conn' = [conn EXCEPT ![c] = "closed"] /\ sem' = sem - 1
  /\ UNCHANGED <<ctx, loop, connCtx, stream>>
-----------------------------------------------------------------------------
(* serveStream. *)

End(c, s) == stream' = [stream EXCEPT ![c][s].at = "ended"]

\* The header and the body arrive; what is too long, does not parse or has an ID
\* ends the stream, and so does the preflight's verdict.
ReadFrame(c, s, f) ==
  /\ stream[c][s].at = "read"
  /\ IF (MaxMessageSize > 0 /\ f.size > MaxMessageSize) \/ ~f.body \/ f.id # 0 \/ f.preflight = "drop"
     THEN End(c, s)
     ELSE stream' = [stream EXCEPT ![c][s].at = IF f.preflight = "reply" THEN "reply" ELSE "handler"]
  /\ UNCHANGED <<ctx, loop, sem, conn, connCtx>>

\* The read deadline passes, or the stream is reset or the connection lost.
ReadFails(c, s) ==
  /\ stream[c][s].at = "read" /\ End(c, s)
  /\ UNCHANGED <<ctx, loop, sem, conn, connCtx>>

\* responseWriter.WriteMsg: one reply, with ID 0; what is too large takes the
\* stream's one reply with it.
WriteMsg(c, s, size) ==
  IF stream[c][s].wrote THEN stream
  ELSE LET r == stream[c][s]
           sent == IF size = "large" THEN r.sent ELSE Append(r.sent, 0)
       IN  [stream EXCEPT ![c][s] = [at |-> r.at, wrote |-> TRUE, sent |-> sent]]

Reply(c, s, size) ==
  /\ stream[c][s].at \in {"reply", "handler"} /\ Len(stream[c][s].sent) < 2
  /\ stream' = WriteMsg(c, s, size)
  /\ UNCHANGED <<ctx, loop, sem, conn, connCtx>>

Return(c, s) ==
  /\ stream[c][s].at \in {"reply", "handler"}
  /\ (stream[c][s].at = "reply" => stream[c][s].wrote)
  /\ End(c, s)
  /\ UNCHANGED <<ctx, loop, sem, conn, connCtx>>

Next ==
  \/ AcceptFails \/ Done \/ Cancel
  \/ \E c \in Conns :
       \/ Accept(c) \/ LifetimeOver(c) \/ AcceptStreamFails(c) \/ CloseWithError(c)
       \/ \E s \in Streams :
            \/ AcceptStream(c, s) \/ ReadFails(c, s) \/ Return(c, s)
            \/ \E f \in Frames : ReadFrame(c, s, f)
            \/ \E size \in {"fits", "large"} : Reply(c, s, size)

\* Accept and AcceptStream return when their context is done; a stream's read ends
\* by its deadline; handlers return.
Fairness ==
  /\ WF_vars(ctx = "done" /\ AcceptFails) /\ WF_vars(Done)
  /\ \A c \in Conns :
       /\ WF_vars(connCtx[c] = "done" /\ AcceptStreamFails(c)) /\ WF_vars(CloseWithError(c))
       /\ \A s \in Streams :
            /\ WF_vars(StreamReadTimeout /\ ReadFails(c, s)) /\ WF_vars(Return(c, s))
            /\ WF_vars(stream[c][s].at = "reply" /\ Reply(c, s, "fits"))

Spec == Init /\ [][Next]_vars /\ Fairness
-----------------------------------------------------------------------------
\* A connection is closed, and its slot given back, only when its streams have
\* ended, so that no reply is cut off by serveConn itself; Done is closed only
\* when every connection is; and slots are those of the connections served.
ClosedAfterStreams ==
  /\ \A c \in Conns : conn[c] = "closed" => Running(c) = {}
  /\ loop = "done" => \A c \in Conns : Running(c) = {}
  /\ sem = Cardinality(Serving) /\ (MaxConnections > 0 => sem <= MaxConnections)

\* A stream carries at most one reply, whose ID is 0.
OneReply == \A c \in Conns, s \in Streams : stream[c][s].sent \in {<<>>, <<0>>}

\* A cancelled server stops.
CancelStops == ctx = "done" ~> loop = "done"
=============================================================================
