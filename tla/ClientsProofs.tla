---------------------------- MODULE ClientsProofs ----------------------------
(* The keep-alive clients over TCP, TLS and QUIC keep their connections, for *)
(* any callers, connections, idle times and advertised timeouts.             *)
EXTENDS MCClients, TLAPS
-----------------------------------------------------------------------------
(* TCPKeepAliveClient and DoT's KeepAliveClient. *)

\* The steps of Exchange between taking exchangeMu and returning, over TCP.
Locked == {"acquire", "wait", "dial", "send", "io", "reply"}

\* One caller dials at a time, and only while nothing is cached.
DialsAlone ==
  /\ \A c \in Callers : pc[c] = "dial" <=> dialing = c
  /\ dialing # None => conn = None

\* From its return from acquireConn a caller has a connection.
HasConn ==
  \A c \in Callers :
    pc[c] \in {"send", "io", "reply"} \/ (~LockFirst /\ pc[c] = "lock") => held[c] \in Conns

\* Over TCP the mutex is held from before acquireConn to the return, so that nobody
\* else closes what a caller is about to use.
Guards ==
  LockFirst =>
    \A c \in Callers :
      /\ pc[c] \in Locked => exchangeMu = c
      /\ pc[c] \in {"send", "io"} => closer[held[c]] \in {None, "user"}

\* Only a closed connection has a closer.
ClosersClosed == \A k \in Conns : status[k] # "closed" => closer[k] = None

StreamInv == TypeOK /\ NoLeak /\ DialsAlone /\ HasConn /\ Guards /\ ClosersClosed

\* Before the first call nothing is dialled, cached or held.
LEMMA StreamInit == Init => StreamInv
  BY KeepAliveAssumption
  DEF Init, StreamInv, TypeOK, NoLeak, DialsAlone, HasConn, Guards, ClosersClosed, Locked, LockFirst

\* The steps of Exchange that touch neither the cache nor a connection: its start,
\* the mutex, the reuse of the cached connection, the request and the reply on it.
LEMMA QuietSteps ==
  ASSUME StreamInv, NEW c \in Callers,
         Start(c) \/ Lock(c) \/ AcquireReuse(c) \/ Send(c) \/ Read(c) \/ WaitCancelled(c)
           \/ ContextDone(c)
  PROVE  StreamInv'
<1>. USE KeepAliveAssumption DEF StreamInv
<1>1. TypeOK'
  BY DEF TypeOK, Start, Lock, AcquireReuse, Send, Read, WaitCancelled, ContextDone, Goto, Return,
         Unlock, cacheVars, connVars, Lockable, Fresh
<1>2. NoLeak' /\ ClosersClosed'
  BY DEF NoLeak, ClosersClosed, Start, Lock, AcquireReuse, Send, Read, WaitCancelled, ContextDone,
         cacheVars, connVars
<1>3. DialsAlone'
  BY DEF TypeOK, DialsAlone, Start, Lock, AcquireReuse, Send, Read, WaitCancelled, ContextDone,
         Goto, Return, cacheVars
<1>4. HasConn'
  BY DEF TypeOK, HasConn, Start, Lock, AcquireReuse, Send, Read, WaitCancelled, ContextDone,
         Goto, Return, LockFirst, Fresh
<1>5. Guards'
  BY DEF TypeOK, NoLeak, Guards, ClosersClosed, Locked, Start, Lock, AcquireReuse, Send, Read,
         WaitCancelled, ContextDone, Goto, Return, Unlock, LockFirst, Lockable, Fresh, connVars
<1>. QED
  BY <1>1, <1>2, <1>3, <1>4, <1>5

\* The turns of acquireConn that close an expired connection.
LEMMA ExpireSteps ==
  ASSUME StreamInv, NEW c \in Callers, AcquireWait(c) \/ AcquireDial(c)
  PROVE  StreamInv'
<1>. USE KeepAliveAssumption DEF StreamInv
<1>1. TypeOK'
  BY DEF TypeOK, AcquireWait, AcquireDial, Expire, CloseConn, Goto, connVars
<1>2. NoLeak' /\ ClosersClosed'
  BY DEF TypeOK, NoLeak, ClosersClosed, AcquireWait, AcquireDial, Expire, CloseConn, connVars
<1>3. DialsAlone'
  BY DEF TypeOK, DialsAlone, AcquireWait, AcquireDial, Expire, Goto
<1>4. HasConn'
  BY DEF TypeOK, HasConn, AcquireWait, AcquireDial, Goto, LockFirst
<1>5. Guards'
  BY DEF TypeOK, Guards, Locked, AcquireWait, AcquireDial, Expire, CloseConn, Goto, LockFirst,
         connVars
<1>. QED
  BY <1>1, <1>2, <1>3, <1>4, <1>5

\* A dial ends, and with it the wait of the others.
LEMMA DialSteps ==
  ASSUME StreamInv, NEW c \in Callers, DialSucceeds(c) \/ DialFails(c)
  PROVE  StreamInv'
<1>. USE KeepAliveAssumption DEF StreamInv
<1>0. DialSucceeds(c) => conn' \in Conns /\ status[conn'] = "unborn"
  BY DEF DialSucceeds, Undialled
<1>1. TypeOK'
  BY <1>0 DEF TypeOK, DialSucceeds, DialFails, Woken, Unlock, cacheVars, connVars
<1>2. NoLeak' /\ ClosersClosed'
  BY <1>0 DEF TypeOK, NoLeak, ClosersClosed, DialsAlone, DialSucceeds, DialFails, cacheVars, connVars
<1>3. DialsAlone'
  BY <1>0 DEF TypeOK, DialsAlone, DialSucceeds, DialFails, Woken, cacheVars
<1>4. HasConn'
  BY DEF TypeOK, HasConn, DialSucceeds, DialFails, Woken, LockFirst
<1>5. Guards'
  BY DEF TypeOK, Guards, Locked, DialSucceeds, DialFails, Woken, Unlock, LockFirst, connVars
<1>. QED
  BY <1>1, <1>2, <1>3, <1>4, <1>5

\* The steps that close a connection or set its idle time: an exchange that fails, a
\* reply, Close, and time.
LEMMA CloseSteps ==
  ASSUME StreamInv,
         \/ \E c \in Callers : DropConn(c) \/ \E adv \in Advertised \cup {None} : Reply(c, adv)
         \/ Close \/ Tick
  PROVE  StreamInv'
<1>. USE KeepAliveAssumption DEF StreamInv
<1>0. \A adv \in Advertised \cup {None} : idle(adv) \in Nat
  BY DEF idle
<1>1. TypeOK'
  <2>1. ASSUME NEW c \in Callers, DropConn(c) PROVE TypeOK'
    <3>1. status' \in [Conns -> {"unborn", "open", "closed"}]
          /\ closer' \in [Conns -> Callers \cup {"user", None}]
      BY <2>1 DEF TypeOK, DropConn, CloseConn
    <3>2. conn' \in Conns \cup {None} /\ deadline' \in Nat \cup {None}
      BY <2>1 DEF TypeOK, DropConn, cacheVars
    <3>. QED
      BY <2>1, <3>1, <3>2 DEF TypeOK, DropConn, Return, Goto, Unlock
  <2>2. CASE \E c \in Callers, adv \in Advertised \cup {None} : Reply(c, adv)
    BY <2>2, <1>0 DEF TypeOK, Reply, CloseConn, Return, Goto, Unlock, connVars
  <2>3. CASE Close \/ Tick
    BY <2>3 DEF TypeOK, Close, Tick, CloseConn, connVars
  <2>. QED
    BY <2>1, <2>2, <2>3
<1>2. NoLeak' /\ ClosersClosed'
  BY DEF TypeOK, NoLeak, ClosersClosed, HasConn, DropConn, Reply, Close, Tick, CloseConn, cacheVars,
         connVars
<1>3. DialsAlone'
  BY DEF TypeOK, DialsAlone, DropConn, Reply, Close, Tick, Return, Goto, cacheVars
<1>4. HasConn'
  BY DEF TypeOK, HasConn, DropConn, Reply, Close, Tick, Return, Goto, LockFirst
<1>5. Guards'
  BY DEF TypeOK, Guards, Locked, HasConn, DropConn, Reply, Close, Tick, CloseConn, Return, Goto,
         Unlock, LockFirst, connVars
<1>. QED
  BY <1>1, <1>2, <1>3, <1>4, <1>5

\* The keep-alive clients over TCP and TLS lose no open connection, and the one over
\* TCP never has the connection of an exchange closed by another Exchange.
THEOREM StreamClients == Spec => [](NoLeak /\ Undisturbed)
<1>1. StreamInv /\ [Next]_vars => StreamInv'
  <2>1. ASSUME StreamInv, UNCHANGED vars PROVE StreamInv'
    BY <2>1 DEF vars, StreamInv, TypeOK, NoLeak, DialsAlone, HasConn, Guards, ClosersClosed,
                LockFirst
  <2>. QED
    BY <2>1, QuietSteps, ExpireSteps, DialSteps, CloseSteps DEF Next, Exchange, acquireConn
<1>2. StreamInv => NoLeak /\ Undisturbed
  BY DEF StreamInv, Guards, Undisturbed, NotClosedByOthers, LockFirst
<1>. QED
  BY StreamInit, <1>1, <1>2, PTL DEF Spec
-----------------------------------------------------------------------------
(* DoQ's KeepAliveClient. *)

\* A call that opens a stream has a connection; while its context is live it has been
\* tried as often as connections ended under it, and it has no result yet.
Attempts ==
  \A c \in Callers :
    /\ dpc[c] \in {"open", "drop"} => dheld[c] \in Conns
    /\ dpc[c] # "idle" => dresult[c] = "none"
    /\ dpc[c] \notin {"idle", "drop"} => died[c] <= dattempt[c]
    /\ dpc[c] \notin {"idle", "drop"} /\ dctx[c] = "live" => died[c] = dattempt[c]
    /\ dpc[c] = "drop" => died[c] <= dattempt[c] + 1
    /\ dpc[c] = "drop" /\ dctx[c] = "live" => died[c] = dattempt[c] + 1

QuicInv == D!TypeOK /\ D!OneDial /\ D!NoLeak /\ D!TransparentRedial /\ Attempts

\* Before the first call nothing is dialled or cached.
LEMMA QuicInit == D!Init => QuicInv
  BY KeepAliveAssumption
  DEF D!Init, QuicInv, D!TypeOK, D!OneDial, D!NoLeak, D!TransparentRedial, Attempts

\* The turns of acquireConn's loop, and the end of a dial.
LEMMA QuicAcquires ==
  ASSUME QuicInv, NEW c \in Callers, D!acquireConn(c)
  PROVE  QuicInv'
<1>. USE KeepAliveAssumption DEF QuicInv
<1>0. D!DialSucceeds(c) => dconn' \in Conns /\ dstatus[dconn'] = "unborn"
  BY DEF D!DialSucceeds, D!Undialled
<1>1. D!TypeOK'
  BY <1>0 DEF D!TypeOK, D!acquireConn, D!AcquireReuse, D!AcquireWait, D!AcquireDial,
              D!DialSucceeds, D!DialFails, D!WaitCancelled, D!Alive, D!Goto, D!Woken, D!Return,
              D!callVars
<1>2. D!OneDial'
  BY <1>0 DEF D!TypeOK, D!OneDial, D!acquireConn, D!AcquireReuse, D!AcquireWait, D!AcquireDial,
              D!DialSucceeds, D!DialFails, D!WaitCancelled, D!NoDial, D!Goto, D!Woken, D!Return
<1>3. D!NoLeak'
  <2>1. \A d \in Callers : dpc[d] = "drop" => dpc'[d] = "drop" /\ dheld'[d] = dheld[d]
    BY DEF D!TypeOK, D!acquireConn, D!AcquireReuse, D!AcquireWait, D!AcquireDial,
           D!DialSucceeds, D!DialFails, D!WaitCancelled, D!Goto, D!Woken, D!Return, D!callVars
  <2>2. closing' = closing
    BY DEF D!acquireConn, D!AcquireReuse, D!AcquireWait, D!AcquireDial, D!DialSucceeds,
           D!DialFails, D!WaitCancelled
  <2>3. \A k \in Conns : dstatus'[k] = "open" => dconn' = k \/ (dstatus[k] = "open" /\ dconn # k)
    BY <1>0 DEF D!TypeOK, D!OneDial, D!NoLeak, D!acquireConn, D!AcquireReuse, D!AcquireWait,
                D!AcquireDial, D!DialSucceeds, D!DialFails, D!WaitCancelled, D!Alive
  <2>. QED BY <2>1, <2>2, <2>3 DEF D!NoLeak
<1>4. D!TransparentRedial' /\ Attempts'
  BY DEF D!TypeOK, D!TransparentRedial, Attempts, D!acquireConn, D!AcquireReuse, D!AcquireWait,
         D!AcquireDial, D!DialSucceeds, D!DialFails, D!WaitCancelled, D!Alive, D!Goto, D!Woken,
         D!Return, D!callVars
<1>. QED
  BY <1>1, <1>2, <1>3, <1>4

\* A stream is opened or not, and ends.
LEMMA QuicStreams ==
  ASSUME QuicInv, NEW c \in Callers, D!OpenSucceeds(c) \/ D!OpenFails(c) \/ D!runStream(c)
  PROVE  QuicInv'
<1>. USE KeepAliveAssumption DEF QuicInv
<1>1. D!TypeOK'
  BY DEF D!TypeOK, Attempts, D!OpenSucceeds, D!OpenFails, D!runStream,
         D!Goto, D!Return, D!callVars
<1>2. D!OneDial' /\ D!NoLeak'
  BY DEF D!TypeOK, D!OneDial, D!NoLeak, Attempts, D!OpenSucceeds, D!OpenFails, D!runStream,
         D!Goto, D!Return, D!callVars
<1>3. D!TransparentRedial' /\ Attempts'
  BY DEF D!TypeOK, D!TransparentRedial, Attempts, D!OpenSucceeds, D!OpenFails, D!runStream,
         D!Goto, D!Return, D!callVars
<1>. QED
  BY <1>1, <1>2, <1>3

\* dropConn closes its connection, and the call is tried again or ends.
LEMMA QuicDrops ==
  ASSUME QuicInv, NEW c \in Callers, D!dropConn(c)
  PROVE  QuicInv'
<1>. USE KeepAliveAssumption DEF QuicInv
<1>1. D!TypeOK'
  BY DEF D!TypeOK, Attempts, D!dropConn, D!Retries, D!Goto, D!Return
<1>2. D!OneDial' /\ D!NoLeak'
  BY DEF D!TypeOK, D!OneDial, D!NoLeak, Attempts, D!dropConn, D!Goto, D!Return
<1>3. D!TransparentRedial' /\ Attempts'
  BY DEF D!TypeOK, D!TransparentRedial, Attempts, D!dropConn, D!Retries, D!Goto, D!Return
<1>. QED
  BY <1>1, <1>2, <1>3

\* A call starts; Close, the end of a connection and of a context, at any moment.
LEMMA QuicOthers ==
  ASSUME QuicInv,
         \/ \E c \in Callers : D!Start(c) \/ D!ContextDone(c)
         \/ D!Close \/ \E k \in Conns : D!CloseWithError(k) \/ D!ConnEnds(k)
  PROVE  QuicInv'
<1>. USE KeepAliveAssumption DEF QuicInv
<1>1. D!TypeOK'
  BY DEF D!TypeOK, D!Start, D!ContextDone, D!Close, D!CloseWithError, D!ConnEnds, D!Goto, D!callVars
<1>2. D!OneDial' /\ D!NoLeak'
  BY DEF D!TypeOK, D!OneDial, D!NoLeak, D!Start, D!ContextDone, D!Close, D!CloseWithError, D!ConnEnds, D!Goto,
         D!callVars
<1>3. D!TransparentRedial' /\ Attempts'
  BY DEF D!TypeOK, D!TransparentRedial, Attempts, D!Start, D!ContextDone, D!Close, D!CloseWithError, D!ConnEnds,
         D!Goto, D!callVars
<1>. QED
  BY <1>1, <1>2, <1>3

\* The keep-alive client over QUIC dials one connection at a time, loses none that is
\* open, and tells a caller of a failed connection only when a second one failed too.
THEOREM QuicClient == D!Spec => [](D!OneDial /\ D!NoLeak /\ D!TransparentRedial)
<1>1. QuicInv /\ [D!Next]_(D!vars) => QuicInv'
  <2>1. ASSUME QuicInv, UNCHANGED D!vars PROVE QuicInv'
    BY <2>1 DEF D!vars, QuicInv, D!TypeOK, D!OneDial, D!NoLeak, D!TransparentRedial, Attempts
  <2>. QED
    BY <2>1, QuicAcquires, QuicStreams, QuicDrops, QuicOthers DEF D!Next, D!Exchange
<1>2. QuicInv => D!OneDial /\ D!NoLeak /\ D!TransparentRedial
  BY DEF QuicInv
<1>. QED
  BY QuicInit, <1>1, <1>2, PTL DEF D!Spec
-----------------------------------------------------------------------------
\* None of the keep-alive clients loses a connection, disturbs another caller's
\* exchange over TCP, or shows a caller one failed QUIC connection.
THEOREM ConnectionsAreKept == MCSpec => []ConnectionsKept
<1>1. MCInit => Init /\ D!Init
  BY DEF MCInit
<1>2. [MCNext]_<<which, vars, doqVars, xVars>> => [Next]_vars
  BY DEF MCNext
<1>3. [MCNext]_<<which, vars, doqVars, xVars>> => [D!Next]_(D!vars)
  BY DEF MCNext, doqVars, D!vars
<1>4. ConnectionsKept <=>
        (NoLeak /\ Undisturbed) /\ (D!OneDial /\ D!NoLeak /\ D!TransparentRedial)
  BY DEF ConnectionsKept
<1>. QED
  BY <1>1, <1>2, <1>3, <1>4, StreamClients, QuicClient, PTL DEF MCSpec, Spec, D!Spec
=============================================================================
