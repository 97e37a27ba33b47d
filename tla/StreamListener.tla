--------------------------- MODULE StreamListener ---------------------------
(* The accept loop the TCP and DoT servers share, Run in                     *)
(* internal/streamframe/server.go, with netutil.SourceLimiter.  A connection *)
(* is one goroutine; what it does between its start and the deferred         *)
(* releases is module StreamConn.  The watcher is the goroutine that closes  *)
(* the listener when the context is cancelled.                               *)
EXTENDS Integers, FiniteSets

CONSTANTS
  Conns,              \* bound: connection goroutines alive at once
  Sources,            \* remote addresses, after Unmap
  MaxConnections,     \* LoopConfig.MaxConnections; <= 0: no semaphore
  MaxConnsPerSource,  \* LoopConfig.MaxConnsPerSource; <= 0: no limit
  None

ASSUME StreamListenerAssumption ==
  /\ IsFiniteSet(Conns) /\ None \notin Sources
  /\ MaxConnections \in Int /\ MaxConnsPerSource \in Int

VARIABLES
  ctx,       \* "live" or "cancelled"
  listener,  \* "open" or "closed"
  loop,      \* where Run stands
  outcome,   \* what Run returns: "none" yet, "closed" (ErrServerClosed), "error"
  watcher,   \* "watching", or "done"
  sem,       \* len(sem)
  counts,    \* SourceLimiter.counts; an absent key counts 0
  peer,      \* the source a connection goroutine serves
  stage      \* "free", "serving", or "released" (its source, not yet its slot)

vars == <<ctx, listener, loop, outcome, watcher, sem, counts, peer, stage>>

loopVars == <<loop, outcome, sem>>
connVars == <<counts, peer, stage>>
-----------------------------------------------------------------------------
(* netutil.SourceLimiter *)

Admits_OneMore(s) == MaxConnsPerSource <= 0 \/ counts[s] <= MaxConnsPerSource
Admits(s) == MaxConnsPerSource <= 0 \/ counts[s] < MaxConnsPerSource

Reserve(s) ==
  counts' = IF MaxConnsPerSource <= 0 THEN counts ELSE [counts EXCEPT ![s] = @ + 1]

\* A count of one or less is deleted from the map.
Release(s) ==
  counts' = IF MaxConnsPerSource <= 0 THEN counts
            ELSE [counts EXCEPT ![s] = IF @ <= 1 THEN 0 ELSE @ - 1]

(* The counting semaphore; nil when MaxConnections is not positive. *)

Limited == MaxConnections > 0
TakeSlot == sem' = IF Limited THEN sem + 1 ELSE sem
GiveSlot == sem' = IF Limited THEN sem - 1 ELSE sem
-----------------------------------------------------------------------------
Init ==
  /\ ctx = "live" /\ listener = "open" /\ loop = "acquire" /\ outcome = "none"
  /\ watcher = "watching" /\ sem = 0
  /\ counts = [s \in Sources |-> 0]
  /\ peer = [c \in Conns |-> None]
  /\ stage = [c \in Conns |-> "free"]

\* Run returns: its deferred wg.Wait comes first.
Leave(why) == loop' = "drain" /\ outcome' = why

AcquireSlot ==
  /\ loop = "acquire" /\ (Limited => sem < MaxConnections)
  /\ TakeSlot /\ loop' = "accept"
  /\ UNCHANGED <<ctx, listener, outcome, watcher, connVars>>

AcquireCancelled ==
  /\ loop = "acquire" /\ Limited /\ ctx = "cancelled"
  /\ listener' = "closed" /\ Leave("closed")
  /\ UNCHANGED <<ctx, watcher, sem, connVars>>

AcceptConn(c, s) ==
  /\ loop = "accept" /\ listener = "open" /\ stage[c] = "free" /\ Admits(s)
  /\ Reserve(s)
  /\ peer' = [peer EXCEPT ![c] = s]
  /\ stage' = [stage EXCEPT ![c] = "serving"]
  /\ loop' = "acquire"
  /\ UNCHANGED <<ctx, listener, outcome, watcher, sem>>

AcceptRefused(s) ==
  /\ loop = "accept" /\ listener = "open" /\ ~Admits(s)
  /\ GiveSlot /\ loop' = "acquire"
  /\ UNCHANGED <<ctx, listener, outcome, watcher, connVars>>

\* Accept fails on a closed listener, or after the context was cancelled.
AcceptStopped ==
  /\ loop = "accept" /\ (listener = "closed" \/ ctx = "cancelled")
  /\ GiveSlot /\ Leave("closed")
  /\ UNCHANGED <<ctx, listener, watcher, connVars>>

AcceptTransient ==
  /\ loop = "accept" /\ listener = "open" /\ ctx = "live"
  /\ GiveSlot /\ loop' = "backoff"
  /\ UNCHANGED <<ctx, listener, outcome, watcher, connVars>>

AcceptPermanent ==
  /\ loop = "accept" /\ listener = "open" /\ ctx = "live"
  /\ GiveSlot /\ Leave("error")
  /\ UNCHANGED <<ctx, listener, watcher, connVars>>

BackoffEnds ==
  /\ loop = "backoff" /\ loop' = "acquire"
  /\ UNCHANGED <<ctx, listener, outcome, watcher, sem, connVars>>

BackoffCancelled ==
  /\ loop = "backoff" /\ ctx = "cancelled"
  /\ listener' = "closed" /\ Leave("closed")
  /\ UNCHANGED <<ctx, watcher, sem, connVars>>

\* wg.Wait returns, stop is closed and Run returns.
Drained ==
  /\ loop = "drain" /\ \A c \in Conns : stage[c] = "free"
  /\ loop' = "done"
  /\ UNCHANGED <<ctx, listener, outcome, watcher, sem, connVars>>

\* The deferred function of a connection goroutine: the source, then the slot
\* and the wait group.
ReleaseSource(c) ==
  /\ stage[c] = "serving"
  /\ Release(peer[c])
  /\ peer' = [peer EXCEPT ![c] = None]
  /\ stage' = [stage EXCEPT ![c] = "released"]
  /\ UNCHANGED <<ctx, listener, watcher, loopVars>>

ReleaseSlot_Leaked(c) ==
  /\ stage[c] = "released"
  /\ stage' = [stage EXCEPT ![c] = "free"]
  /\ UNCHANGED <<ctx, listener, watcher, loop, outcome, sem, counts, peer>>
ReleaseSlot(c) ==
  /\ stage[c] = "released"
  /\ GiveSlot
  /\ stage' = [stage EXCEPT ![c] = "free"]
  /\ UNCHANGED <<ctx, listener, watcher, loop, outcome, counts, peer>>

Cancel ==
  /\ ctx = "live" /\ ctx' = "cancelled"
  /\ UNCHANGED <<listener, watcher, loopVars, connVars>>

WatchCancelled_Idle == FALSE /\ UNCHANGED vars
WatchCancelled ==
  /\ watcher = "watching" /\ ctx = "cancelled"
  /\ watcher' = "done" /\ listener' = "closed"
  /\ UNCHANGED <<ctx, loopVars, connVars>>

WatchStopped ==
  /\ watcher = "watching" /\ loop = "done"
  /\ watcher' = "done"
  /\ UNCHANGED <<ctx, listener, loopVars, connVars>>
-----------------------------------------------------------------------------
Run ==
  \/ AcquireSlot \/ AcquireCancelled
  \/ AcceptStopped \/ AcceptTransient \/ AcceptPermanent
  \/ BackoffEnds \/ BackoffCancelled \/ Drained
  \/ \E s \in Sources : AcceptRefused(s) \/ \E c \in Conns : AcceptConn(c, s)

connection(c) == ReleaseSource(c) \/ ReleaseSlot(c)
watch == WatchCancelled \/ WatchStopped

Next == Run \/ (\E c \in Conns : connection(c)) \/ watch \/ Cancel

Spec == Init /\ [][Next]_vars

\* Goroutines keep running, and a connection ends (StreamConn).  Accept blocks
\* for want of connections and errors; it owes an answer only once the
\* listener is closed.
Fairness ==
  /\ WF_vars(AcquireSlot) /\ WF_vars(AcquireCancelled)
  /\ WF_vars(AcceptStopped /\ listener = "closed")
  /\ WF_vars(BackoffEnds \/ BackoffCancelled) /\ WF_vars(Drained)
  /\ \A c \in Conns : WF_vars(connection(c))
  /\ WF_vars(watch)

FairSpec == Spec /\ Fairness
-----------------------------------------------------------------------------
TypeOK ==
  /\ ctx \in {"live", "cancelled"} /\ listener \in {"open", "closed"}
  /\ loop \in {"acquire", "accept", "backoff", "drain", "done"}
  /\ outcome \in {"none", "closed", "error"} /\ watcher \in {"watching", "done"}
  /\ sem \in Nat /\ counts \in [Sources -> Int]
  /\ peer \in [Conns -> Sources \cup {None}]
  /\ stage \in [Conns -> {"free", "serving", "released"}]

Busy == {c \in Conns : stage[c] # "free"}
Of(s) == {c \in Conns : peer[c] = s}

\* The loop holds one slot while it sits in Accept, every connection goroutine
\* one until its last deferred step, and there are never more than
\* MaxConnections: on no path is a slot lost or returned twice.
SlotsAccounted ==
  Limited =>
    /\ sem = Cardinality(Busy) + (IF loop = "accept" THEN 1 ELSE 0)
    /\ sem <= MaxConnections

\* The limiter counts, per source, exactly the connections being served for
\* it, and no source has more than MaxConnsPerSource.
SourcesAccounted ==
  /\ \A c \in Conns : peer[c] # None <=> stage[c] = "serving"
  /\ MaxConnsPerSource > 0 =>
       \A s \in Sources : counts[s] = Cardinality(Of(s)) /\ counts[s] <= MaxConnsPerSource

\* "Run blocks until every per-connection goroutine has drained"
\* (server.go:186), on the error paths too.
ReturnsDrained == loop = "done" => Busy = {}

\* Cancelling the context ends Run, whatever it was doing.
StopsWhenCancelled == ctx = "cancelled" ~> loop = "done"
=============================================================================
