------------------------------ MODULE KeepAlive -----------------------------
(* The keep-alive clients over one persistent stream connection:             *)
(* TCPKeepAliveClient (exchanger_tcp_keepalive.go) and DoT's KeepAliveClient *)
(* (dot/keepalive.go), with ExchangeOnConn of internal/streamframe.  The two *)
(* differ in the scope of exchangeMu: TCP takes it before acquireConn, DoT   *)
(* after; and only TCP caps the idle time.  dialMu is held for one step at a  *)
(* time and is not modelled.                                                 *)
EXTENDS Integers, FiniteSets

CONSTANTS
  Callers,       \* concurrent callers of Exchange
  Conns,         \* bound: connections dialled
  IdleFallback,  \* idle time when the server advertises none; > 0
  MaxIdle,       \* WithTCPKeepAliveMaxIdle; 0: no cap (DoT has none)
  Clients,       \* the clients looked at: "tcp", "dot"
  Advertised,    \* idle times servers advertise
  Contexts,      \* states a caller's context can be in at the end of an exchange
  None

ASSUME KeepAliveAssumption ==
  /\ None \notin Callers \cup Conns \cup Nat /\ Clients \subseteq {"tcp", "dot"}
  /\ IdleFallback \in Nat \ {0} /\ MaxIdle \in Nat /\ Advertised \subseteq Nat
  /\ Contexts \subseteq {"live", "cancelled"}

VARIABLES
  client,      \* which of the two this is
  conn,        \* the cached connection, or None
  deadline,    \* time until it is idle for too long; None: zero time
  dialing,     \* who dials, or None
  exchangeMu,  \* who holds it, or None
  pc,          \* per caller: where Exchange stands
  held,        \* per caller: the connection acquireConn returned
  ctx,         \* per caller: its context
  status,      \* per connection: "unborn", "open", "closed"
  closer       \* per connection: the caller whose Exchange closed it, "user", or None

vars == <<client, conn, deadline, dialing, exchangeMu, pc, held, ctx, status, closer>>

LockFirst == client = "tcp"

cacheVars == <<conn, deadline>>
connVars == <<status, closer>>
-----------------------------------------------------------------------------
Init ==
  /\ client \in Clients
  /\ conn = None /\ deadline = None /\ dialing = None /\ exchangeMu = None
  /\ pc = [c \in Callers |-> "idle"] /\ held = [c \in Callers |-> None]
  /\ ctx = [c \in Callers |-> "live"]
  /\ status = [k \in Conns |-> "unborn"] /\ closer = [k \in Conns |-> None]

Goto(c, s) == pc' = [pc EXCEPT ![c] = s]

\* Closing a closed connection does nothing; the first closer is remembered.
CloseConn(k, who) ==
  /\ status' = [status EXCEPT ![k] = "closed"]
  /\ closer' = [closer EXCEPT ![k] = IF status[k] = "open" THEN who ELSE @]

(* Exchange *)

Start(c) ==
  /\ pc[c] = "idle" /\ Goto(c, IF LockFirst THEN "lock" ELSE "acquire")
  /\ ctx' = [ctx EXCEPT ![c] = "live"]
  /\ UNCHANGED <<client, cacheVars, dialing, exchangeMu, held, connVars>>

Lockable == exchangeMu = None

Lock(c) ==
  /\ pc[c] = "lock" /\ Lockable /\ exchangeMu' = c
  /\ Goto(c, IF LockFirst THEN "acquire" ELSE "send")
  /\ UNCHANGED <<client, cacheVars, dialing, held, ctx, connVars>>

\* Every return after exchangeMu is taken unlocks it.
Unlock(c) == exchangeMu' = IF exchangeMu = c THEN None ELSE exchangeMu

Return(c) == Goto(c, "idle") /\ held' = [held EXCEPT ![c] = None] /\ Unlock(c)

(* acquireConn: one turn of its loop up to the unlock of dialMu *)

Fresh == conn # None /\ deadline # 0

AcquireReuse(c) ==
  /\ pc[c] = "acquire" /\ Fresh
  /\ held' = [held EXCEPT ![c] = conn] /\ Goto(c, IF LockFirst THEN "send" ELSE "lock")
  /\ UNCHANGED <<client, cacheVars, dialing, exchangeMu, ctx, connVars>>

\* An expired connection is closed; then wait for a dial under way, or dial.
Expire(c) ==
  /\ conn' = None /\ deadline' = None
  /\ IF conn = None THEN UNCHANGED connVars ELSE CloseConn(conn, c)

AcquireWait(c) ==
  /\ pc[c] = "acquire" /\ ~Fresh /\ Expire(c)
  /\ dialing # None /\ Goto(c, "wait")
  /\ UNCHANGED <<client, dialing, exchangeMu, held, ctx>>

AcquireDial(c) ==
  /\ pc[c] = "acquire" /\ ~Fresh /\ Expire(c)
  /\ dialing = None /\ dialing' = c /\ Goto(c, "dial")
  /\ UNCHANGED <<client, exchangeMu, held, ctx>>

\* close(done) wakes the callers that wait for this dial.
Woken(c, s) ==
  pc' = [d \in Callers |-> IF d = c THEN s
                           ELSE IF pc[d] = "wait" THEN "acquire" ELSE pc[d]]

\* Connections are all alike: which one the dial makes does not matter.
Undialled == {k \in Conns : status[k] = "unborn"}

DialSucceeds(c) ==
  /\ pc[c] = "dial" /\ dialing' = None /\ Woken(c, "acquire")
  /\ Undialled # {} /\ conn' = CHOOSE k \in Undialled : TRUE
  /\ status' = [status EXCEPT ![conn'] = "open"] /\ deadline' = None
  /\ UNCHANGED <<client, exchangeMu, held, ctx, closer>>

\* The return of DialFails unlocks too; held is None.
DialFails(c) ==
  /\ pc[c] = "dial" /\ dialing' = None /\ Woken(c, "idle")
  /\ Unlock(c)
  /\ UNCHANGED <<client, cacheVars, held, ctx, connVars>>

WaitCancelled(c) ==
  /\ pc[c] = "wait" /\ ctx[c] = "cancelled" /\ Return(c)
  /\ UNCHANGED <<client, cacheVars, dialing, ctx, connVars>>

(* ExchangeOnConn, and what Exchange does with its result *)

Send(c) ==
  /\ pc[c] = "send" /\ Goto(c, "io")
  /\ UNCHANGED <<client, cacheVars, dialing, exchangeMu, held, ctx, connVars>>

\* ExchangeOnConn returns a reply; others may act before Exchange uses it.
Read(c) ==
  /\ pc[c] = "io" /\ status[held[c]] = "open" /\ Goto(c, "reply")
  /\ UNCHANGED <<client, cacheVars, dialing, exchangeMu, held, ctx, connVars>>

\* I/O fails, or the reply is for another query: dropConn.  I/O fails at a deadline
\* too, this exchange's or one that a late watcher of an earlier one has set.
DropConn_Kept(c) ==
  /\ pc[c] = "io" /\ CloseConn(held[c], c) /\ Return(c)
  /\ UNCHANGED <<client, cacheVars, dialing, ctx>>
DropConn(c) ==
  /\ pc[c] = "io" /\ CloseConn(held[c], c) /\ Return(c)
  /\ IF conn = held[c] THEN conn' = None /\ deadline' = None ELSE UNCHANGED cacheVars
  /\ UNCHANGED <<client, dialing, ctx>>

\* The idle time a reply grants: advertised, capped, or the fallback.
idle(adv) ==
  IF adv = None THEN IdleFallback
  ELSE IF client = "tcp" /\ MaxIdle > 0 /\ adv > MaxIdle THEN MaxIdle
  ELSE adv

Reply(c, adv) ==
  /\ pc[c] = "reply" /\ Return(c)
  /\ IF idle(adv) = 0
     THEN /\ CloseConn(held[c], c) /\ deadline' = None
          /\ conn' = IF conn = held[c] THEN None ELSE conn
     ELSE /\ UNCHANGED <<conn, connVars>>
          /\ deadline' = IF conn = held[c] THEN idle(adv) ELSE deadline
  /\ UNCHANGED <<client, dialing, ctx>>

(* Close, time, and the callers' contexts *)

Close ==
  /\ conn # None /\ CloseConn(conn, "user") /\ conn' = None /\ deadline' = None
  /\ UNCHANGED <<client, dialing, exchangeMu, pc, held, ctx>>

Tick ==
  /\ deadline \notin {None, 0} /\ deadline' = deadline - 1
  /\ UNCHANGED <<client, conn, dialing, exchangeMu, pc, held, ctx, connVars>>

\* A context is done during the exchange, or by the caller's deferred cancel
\* after it.
ContextDone(c) ==
  /\ "cancelled" \in Contexts /\ ctx[c] = "live" /\ ctx' = [ctx EXCEPT ![c] = "cancelled"]
  /\ UNCHANGED <<client, cacheVars, dialing, exchangeMu, pc, held, connVars>>
-----------------------------------------------------------------------------
acquireConn(c) ==
  \/ AcquireReuse(c) \/ AcquireWait(c) \/ AcquireDial(c)
  \/ DialSucceeds(c) \/ DialFails(c) \/ WaitCancelled(c)

Exchange(c) ==
  \/ Lock(c) \/ acquireConn(c) \/ Send(c) \/ Read(c) \/ DropConn(c)
  \/ \E adv \in Advertised \cup {None} : Reply(c, adv)

Next ==
  \/ \E c \in Callers : Start(c) \/ Exchange(c) \/ ContextDone(c)
  \/ Close \/ Tick

Spec == Init /\ [][Next]_vars

\* A dial and an exchange end, at the latest by their timeouts; the mutex is
\* granted to a caller that goes on waiting (Go's starvation mode).  This does not
\* make a caller of the DoT client return: others may dial before it, and fail,
\* for ever.
Fairness == \A c \in Callers : SF_vars(Lock(c)) /\ WF_vars(Exchange(c))

FairSpec == Spec /\ Fairness
-----------------------------------------------------------------------------
TypeOK ==
  /\ client \in Clients /\ conn \in Conns \cup {None} /\ deadline \in Nat \cup {None}
  /\ dialing \in Callers \cup {None} /\ exchangeMu \in Callers \cup {None}
  /\ pc \in [Callers -> {"idle", "lock", "acquire", "wait", "dial", "send", "io", "reply"}]
  /\ held \in [Callers -> Conns \cup {None}] /\ ctx \in [Callers -> {"live", "cancelled"}]
  /\ status \in [Conns -> {"unborn", "open", "closed"}]
  /\ closer \in [Conns -> Callers \cup {"user", None}]

\* The client has at most one open connection, the one it has cached: no path
\* through Exchange, Close or an expiry leaks one or caches a closed one.
NoLeak == \A k \in Conns : status[k] = "open" <=> conn = k

\* The connection of an exchange on the wire was closed by no other Exchange, by
\* its idle=0 path or its expiry.
NotClosedByOthers ==
  \A c \in Callers : pc[c] = "io" => closer[held[c]] \in {None, "user"}

\* "a concurrent caller cannot observe a conn that the previous exchange just
\* closed" (exchanger_tcp_keepalive.go:140-144): the TCP client's promise.
Undisturbed == client = "tcp" => NotClosedByOthers

\* Every call of the TCP client's Exchange returns.
EveryCallReturns ==
  \A c \in Callers : client = "tcp" /\ pc[c] # "idle" ~> pc[c] = "idle"
=============================================================================
