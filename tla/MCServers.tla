------------------------------ MODULE MCServers ------------------------------
(* Small instances of the servers for TLC: a stream connection, the UDP      *)
(* server and the DoQ server.  A behaviour takes the steps of one of them.   *)
EXTENDS StreamConn, Sequences, TLC

CONSTANTS Handlers, Sizes, Lengths, StrippedLen, MaxResponse, MaxInflight, MaxPackets,  \* UDPServer
          Conns, Streams, MaxConnections, StreamReadTimeout, MaxConnLifetime, Frames,     \* DoQServer
          MaxMessageSize

\* The configurations the servers accept: limits of any sign, EDNS sizes and -1.
ASSUME ServersAssumption ==
  /\ IsFiniteSet(Handlers) /\ None \notin Handlers \cup Sizes /\ Sizes \subseteq Int
  /\ Lengths \subseteq Nat /\ StrippedLen \in Nat /\ MaxResponse \in Nat \ {0}
  /\ MaxInflight \in Int /\ MaxPackets \in Nat
  /\ IsFiniteSet(Conns) /\ MaxConnections \in Int

VARIABLES which,                                         \* the server that takes steps
          uctx, socket, loop, outcome, err, uwatcher, usem, received, drops, finished,
          stage, edns, wrote, sent, packed, uwriteMu, setBy,            \* UDPServer
          qctx, qloop, qsem, qconn, connCtx, stream                     \* DoQServer

U == INSTANCE UDPServer WITH ctx <- uctx, watcher <- uwatcher, sem <- usem, writeMu <- uwriteMu

Q == INSTANCE DoQServer WITH ctx <- qctx, loop <- qloop, sem <- qsem, conn <- qconn

\* No EDNS, a size in range, one above the listener's cap; MCServers.cfg has response
\* lengths above each.
MCSizes == {-1, 1000, 4096}

\* Queries that reach the handler or are answered before it; too long, cut off, and
\* with an ID other than 0.
Frame(size, body, id, to) == [size |-> size, body |-> body, id |-> id, preflight |-> to]
MCFrames ==
  {Frame(1, TRUE, 0, "dispatch"), Frame(1, TRUE, 0, "reply"), Frame(2, TRUE, 0, "reply"),
   Frame(1, FALSE, 0, "reply"), Frame(1, TRUE, 7, "reply")}

uVars == <<uctx, socket, loop, outcome, err, uwatcher, usem, received, drops, finished,
           stage, edns, wrote, sent, packed, uwriteMu, setBy>>
qVars == <<qctx, qloop, qsem, qconn, connCtx, stream>>

\* What varies at the start of a server that takes no steps is pinned.
MCInit ==
  /\ Init /\ U!Init /\ Q!Init
  /\ which \in {"StreamConn", "UDPServer", "DoQServer"}
  /\ which # "StreamConn" => ctx = "live"

MCNext ==
  /\ UNCHANGED which
  /\ \/ which = "StreamConn" /\ Next /\ UNCHANGED <<uVars, qVars>>
     \/ which = "UDPServer" /\ U!Next /\ UNCHANGED <<vars, qVars>>
     \/ which = "DoQServer" /\ Q!Next /\ UNCHANGED <<vars, uVars>>

\* Each server's own fairness, while it is the one that takes steps.
Takes(server, A) == which = server /\ A

ConnFair ==
  /\ WF_vars(Takes("StreamConn", serveConn)) /\ WF_vars(Takes("StreamConn", ReadTimesOut))
  /\ WF_vars(Takes("StreamConn", WatchCancelled))
  /\ \A d \in Dispatchers :
       /\ SF_vars(Takes("StreamConn", Dispatched(d)))
       /\ WF_vars(Takes("StreamConn", task[d] = "prefix" /\ (WriteBody(d) \/ WriteFails(d))))

UDPFair ==
  /\ WF_uVars(Takes("UDPServer", U!ReadStopped /\ socket = "closed"))
  /\ WF_uVars(Takes("UDPServer", U!BackoffEnds \/ U!BackoffCancelled))
  /\ WF_uVars(Takes("UDPServer", U!Drained \/ U!SetErr \/ U!CloseDone))
  /\ WF_uVars(Takes("UDPServer", U!watch))
  /\ \A h \in Handlers : WF_uVars(Takes("UDPServer", U!handlePacket(h)))

DoQFair ==
  /\ WF_qVars(Takes("DoQServer", qctx = "done" /\ Q!AcceptFails)) /\ WF_qVars(Takes("DoQServer", Q!Done))
  /\ \A c \in Conns :
       /\ WF_qVars(Takes("DoQServer", connCtx[c] = "done" /\ Q!AcceptStreamFails(c)))
       /\ WF_qVars(Takes("DoQServer", Q!CloseWithError(c)))
       /\ \A s \in Streams :
            /\ WF_qVars(Takes("DoQServer", StreamReadTimeout /\ Q!ReadFails(c, s)))
            /\ WF_qVars(Takes("DoQServer", Q!Return(c, s)))
            /\ WF_qVars(Takes("DoQServer", stream[c][s].at = "reply" /\ Q!Reply(c, s, "fits")))

MCSpec ==
  /\ MCInit /\ [][MCNext]_<<which, vars, uVars, qVars>>
  /\ ConnFair /\ UDPFair /\ DoQFair

\* The slots of a stream connection and of the UDP server are those of what they
\* serve, whatever way it ends, and the UDP server's counters of drops miss nothing
\* and count nothing twice.
SlotsHeld == InflightBounded /\ U!InflightBounded /\ U!DropsAccounted

\* What a server writes is what its client can read: no frame of a stream is broken
\* into by another (server.go:339-341), no datagram but a truncated one is longer than
\* its client takes, none is sent under another handler's deadline, and a DoQ stream
\* carries one reply, under the ID 0.
RepliesReadable == PrefixThenBody /\ U!ReplyFits /\ U!OwnDeadline /\ Q!OneReply

\* Done and the connections are closed only after the work is over: datagram
\* handlers have drained (serverctl.go:56-61), and the streams of a QUIC connection.
DoneIsFinal == U!DoneIsFinal /\ Q!ClosedAfterStreams

\* "Cancel ctx to stop the instance" (server_tcp.go:207-208): a cancelled server stops,
\* a stream connection closes.
Cancelled == ctx = "cancelled" \/ uctx = "cancelled" \/ qctx = "done"
Stopped ==
  \/ (which = "StreamConn" /\ reader = "closed")
  \/ (which = "UDPServer" /\ loop = "done")
  \/ (which = "DoQServer" /\ qloop = "done")
CancelStops == Cancelled ~> Stopped
=============================================================================
