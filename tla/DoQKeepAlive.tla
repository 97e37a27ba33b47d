---------------------------- MODULE DoQKeepAlive ----------------------------
(* DoQ's KeepAliveClient (doq/keepalive.go): one QUIC connection shared by   *)
(* all callers, a stream per exchange, a second attempt when the connection  *)
(* dies before the stream opens.  QUIC may end a connection at any moment    *)
(* (idle timeout, peer); streams on it then fail.  mu is held for one step   *)
(* at a time and is not modelled.                                            *)
EXTENDS Naturals

CONSTANTS
  Callers,  \* concurrent callers of Exchange
  Conns,    \* bound: connections dialled
  None

VARIABLES
  conn,     \* the cached connection, or None
  dialing,  \* who dials, or None
  pc,       \* per caller: where Exchange stands
  held,     \* per caller: the connection of this attempt
  attempt,  \* per caller: 0 or 1
  ctx,      \* per caller: "live" or "done"
  result,   \* per caller: how the last Exchange ended
  status,   \* per connection: "unborn", "open", "closed"
  closing,  \* the connections that Close took from the cache and has yet to close
  died      \* per caller: connections that ended under this call before a stream opened

vars == <<conn, dialing, pc, held, attempt, ctx, result, status, closing, died>>
callVars == <<held, attempt, ctx, result, died>>
-----------------------------------------------------------------------------
Init ==
  /\ conn = None /\ dialing = None /\ status = [k \in Conns |-> "unborn"] /\ closing = {}
  /\ pc = [c \in Callers |-> "idle"] /\ held = [c \in Callers |-> None]
  /\ attempt = [c \in Callers |-> 0] /\ ctx = [c \in Callers |-> "live"]
  /\ result = [c \in Callers |-> "none"] /\ died = [c \in Callers |-> 0]

Goto(c, s) == pc' = [pc EXCEPT ![c] = s]
Return(c, r) == Goto(c, "idle") /\ result' = [result EXCEPT ![c] = r]

Start(c) ==
  /\ pc[c] = "idle" /\ Goto(c, "acquire")
  /\ attempt' = [attempt EXCEPT ![c] = 0] /\ ctx' = [ctx EXCEPT ![c] = "live"]
  /\ result' = [result EXCEPT ![c] = "none"] /\ died' = [died EXCEPT ![c] = 0]
  /\ held' = [held EXCEPT ![c] = None]
  /\ UNCHANGED <<conn, dialing, status, closing>>

(* acquireConn: one turn of its loop *)

Alive == conn # None /\ status[conn] = "open"

AcquireReuse(c) ==
  /\ pc[c] = "acquire" /\ Alive /\ Goto(c, "open") /\ held' = [held EXCEPT ![c] = conn]
  /\ UNCHANGED <<conn, dialing, attempt, ctx, result, status, closing, died>>

AcquireWait(c) ==
  /\ pc[c] = "acquire" /\ ~Alive /\ conn' = None
  /\ dialing # None /\ Goto(c, "wait")
  /\ UNCHANGED <<dialing, callVars, status, closing>>

NoDial == dialing = None

AcquireDial(c) ==
  /\ pc[c] = "acquire" /\ ~Alive /\ conn' = None
  /\ NoDial /\ dialing' = c /\ Goto(c, "dial")
  /\ UNCHANGED <<callVars, status, closing>>

Woken(c, s) ==
  pc' = [d \in Callers |-> IF d = c THEN s
                           ELSE IF pc[d] = "wait" THEN "acquire" ELSE pc[d]]

\* Connections are all alike: which one the dial makes does not matter.
Undialled == {k \in Conns : status[k] = "unborn"}

DialSucceeds(c) ==
  /\ pc[c] = "dial" /\ dialing' = None /\ Woken(c, "acquire")
  /\ Undialled # {} /\ conn' = CHOOSE k \in Undialled : TRUE
  /\ status' = [status EXCEPT ![conn'] = "open"]
  /\ UNCHANGED <<callVars, closing>>

DialFails(c) ==
  /\ pc[c] = "dial" /\ dialing' = None /\ Woken(c, "idle")
  /\ result' = [result EXCEPT ![c] = "dial"]
  /\ UNCHANGED <<conn, held, attempt, ctx, status, closing, died>>

WaitCancelled(c) ==
  /\ pc[c] = "wait" /\ ctx[c] = "done" /\ Return(c, "ctx")
  /\ UNCHANGED <<conn, dialing, held, attempt, ctx, status, closing, died>>

(* The stream *)

OpenSucceeds(c) ==
  /\ pc[c] = "open" /\ status[held[c]] = "open" /\ Goto(c, "stream")
  /\ UNCHANGED <<conn, dialing, callVars, status, closing>>

Retries(c) == attempt[c] = 0 /\ ctx[c] = "live"

\* OpenStreamSync fails on a connection that has ended, or when the context is done.
\* In both cases dropConn takes the connection from the cache,
OpenFails(c) ==
  /\ pc[c] = "open" /\ (status[held[c]] = "closed" \/ ctx[c] = "done") /\ Goto(c, "drop")
  /\ conn' = IF conn = held[c] THEN None ELSE conn
  /\ died' = [died EXCEPT ![c] = IF status[held[c]] = "closed" THEN @ + 1 ELSE @]
  /\ UNCHANGED <<dialing, held, attempt, ctx, result, status, closing>>

\* and closes it when mu is free again.
dropConn(c) ==
  /\ pc[c] = "drop" /\ status' = [status EXCEPT ![held[c]] = "closed"]
  /\ \/ /\ Retries(c) /\ attempt' = [attempt EXCEPT ![c] = 1] /\ Goto(c, "acquire")
        /\ UNCHANGED result
     \/ ~Retries(c) /\ Return(c, "open") /\ UNCHANGED attempt
  /\ UNCHANGED <<conn, dialing, held, ctx, closing, died>>

\* runStream: an answer, or an error that leaves the connection as it is.
runStream(c) ==
  /\ pc[c] = "stream" /\ Return(c, "stream")
  /\ UNCHANGED <<conn, dialing, held, attempt, ctx, status, closing, died>>

(* Close, QUIC and the contexts *)

\* Close, too, takes the connection from the cache and closes it without mu.
Close ==
  /\ conn # None /\ conn' = None /\ closing' = closing \cup {conn}
  /\ UNCHANGED <<dialing, pc, callVars, status>>

CloseWithError(k) ==
  /\ k \in closing /\ closing' = closing \ {k} /\ status' = [status EXCEPT ![k] = "closed"]
  /\ UNCHANGED <<conn, dialing, pc, callVars>>

ConnEnds(k) ==
  /\ status[k] = "open" /\ status' = [status EXCEPT ![k] = "closed"]
  /\ UNCHANGED <<conn, dialing, pc, callVars, closing>>

ContextDone(c) ==
  /\ pc[c] # "idle" /\ ctx[c] = "live" /\ ctx' = [ctx EXCEPT ![c] = "done"]
  /\ UNCHANGED <<conn, dialing, pc, held, attempt, result, status, closing, died>>
-----------------------------------------------------------------------------
acquireConn(c) ==
  \/ AcquireReuse(c) \/ AcquireWait(c) \/ AcquireDial(c)
  \/ DialSucceeds(c) \/ DialFails(c) \/ WaitCancelled(c)

Exchange(c) ==
  acquireConn(c) \/ OpenSucceeds(c) \/ OpenFails(c) \/ dropConn(c) \/ runStream(c)

Next ==
  \/ \E c \in Callers : Start(c) \/ Exchange(c) \/ ContextDone(c)
  \/ Close \/ \E k \in Conns : CloseWithError(k) \/ ConnEnds(k)

Spec == Init /\ [][Next]_vars
-----------------------------------------------------------------------------
TypeOK ==
  /\ conn \in Conns \cup {None} /\ dialing \in Callers \cup {None}
  /\ pc \in [Callers -> {"idle", "acquire", "wait", "dial", "open", "drop", "stream"}]
  /\ held \in [Callers -> Conns \cup {None}] /\ attempt \in [Callers -> 0..1]
  /\ ctx \in [Callers -> {"live", "done"}] /\ died \in [Callers -> 0..2]
  /\ result \in [Callers -> {"none", "dial", "ctx", "open", "stream"}]
  /\ status \in [Conns -> {"unborn", "open", "closed"}] /\ closing \in SUBSET Conns

\* "exactly one dial happens per epoch" (doq/keepalive.go:288-289).
OneDial ==
  /\ \A c \in Callers : pc[c] = "dial" <=> dialing = c
  /\ dialing # None => conn = None

\* The client never loses an open connection: it is the cached one, or Close or a call
\* that could not open a stream is about to close it.
NoLeak ==
  \A k \in Conns : status[k] = "open" =>
    conn = k \/ k \in closing \/ \E c \in Callers : pc[c] = "drop" /\ held[c] = k

\* "re-dialled transparently after an idle close or a connection-level error"
\* (doq/keepalive.go:215-217): a caller whose context is live sees a failure to open
\* a stream only when two connections ended under the one call.
TransparentRedial ==
  \A c \in Callers : result[c] = "open" /\ ctx[c] = "live" => died[c] = 2
=============================================================================
