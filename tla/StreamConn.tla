----------------------------- MODULE StreamConn -----------------------------
(* One connection of the TCP and DoT servers: serveConn and                  *)
(* ResponseWriter.WriteMsg in internal/streamframe/server.go.  The actors    *)
(* are the reader loop, the dispatcher goroutines it spawns, and the watcher *)
(* that sets the connection's deadline to now when the context is cancelled. *)
(* Deadlines are abstracted to what they make possible: none, one that will  *)
(* pass ("wait", or "body" when set for a message body), one already past.   *)
EXTENDS Integers, FiniteSets

CONSTANTS
  Dispatchers,    \* bound: dispatcher goroutines alive at once
  HasPrepare,     \* LoopConfig.PrepareConn # nil (DoT)
  IdleTimeout, MessageReadTimeout, WriteTimeout, MaxLifetime,  \* > 0 or not
  MaxQueriesPerConn,   \* <= 0: no cap
  MaxInflightPerConn,  \* <= 0: no semaphore
  None

ASSUME StreamConnAssumption ==
  /\ IsFiniteSet(Dispatchers) /\ None \notin Dispatchers
  /\ {HasPrepare, IdleTimeout, MessageReadTimeout, WriteTimeout, MaxLifetime} \subseteq BOOLEAN
  /\ MaxQueriesPerConn \in Int /\ MaxInflightPerConn \in Int

VARIABLES
  ctx,       \* "live" or "cancelled"
  watcher,   \* "none" before the handshake, "watching", "done"
  reader,    \* where serveConn stands
  readBy,    \* the read deadline in force
  writeBy,   \* the write deadline in force
  expired,   \* lifetimeDeadline has passed
  queries,   \* messages read
  sem,       \* len(perConnSem)
  task,      \* per dispatcher: "free", "running", or "prefix" (of a frame written)
  writeMu,   \* who holds it
  out        \* the last part written to the connection: whose, which

vars == <<ctx, watcher, reader, readBy, writeBy, expired, queries, sem, task,
          writeMu, out>>

readerVars == <<reader, readBy, queries>>
writeVars == <<writeBy, writeMu, out>>
-----------------------------------------------------------------------------
Init ==
  /\ ctx \in {"live", "cancelled"}
  /\ watcher = IF HasPrepare THEN "none" ELSE "watching"
  /\ reader = IF HasPrepare THEN "prepare" ELSE "top"
  /\ readBy = "none" /\ writeBy = "none" /\ expired = FALSE /\ queries = 0
  /\ sem = 0 /\ task = [d \in Dispatchers |-> "free"]
  /\ writeMu = None /\ out = <<None, "body">>

(* serveConn *)

\* The handshake succeeds: deadlines are cleared, the watcher starts.
PrepareSucceeds ==
  /\ reader = "prepare" /\ reader' = "top" /\ watcher' = "watching"
  /\ readBy' = "none" /\ writeBy' = "none"
  /\ UNCHANGED <<ctx, expired, queries, sem, task, writeMu, out>>

PrepareFails ==
  /\ reader = "prepare" /\ reader' = "closed"
  /\ UNCHANGED <<ctx, watcher, readBy, queries, expired, sem, task, writeVars>>

Exhausted == MaxQueriesPerConn > 0 /\ queries >= MaxQueriesPerConn

\* Loop head: the two caps, then the deadline of the header, if there is one.
LoopEnds ==
  /\ reader = "top" /\ (expired \/ Exhausted) /\ reader' = "drain"
  /\ UNCHANGED <<ctx, watcher, readBy, queries, expired, sem, task, writeVars>>

AwaitHeader ==
  /\ reader = "top" /\ ~expired /\ ~Exhausted /\ reader' = "header"
  /\ readBy' = IF IdleTimeout \/ MaxLifetime THEN "wait" ELSE readBy
  /\ UNCHANGED <<ctx, watcher, queries, expired, sem, task, writeVars>>

HeaderArrives ==
  /\ reader = "header" /\ readBy # "past" /\ reader' = "sized"
  /\ UNCHANGED <<ctx, watcher, readBy, queries, expired, sem, task, writeVars>>

\* The announced length is above MaxMessageSize.
Oversized ==
  /\ reader = "sized" /\ reader' = "drain"
  /\ UNCHANGED <<ctx, watcher, readBy, queries, expired, sem, task, writeVars>>

AwaitBody_Unbounded ==
  /\ reader = "sized" /\ reader' = "body" /\ readBy' = "none"
  /\ UNCHANGED <<ctx, watcher, queries, expired, sem, task, writeVars>>
AwaitBody ==
  /\ reader = "sized" /\ reader' = "body"
  /\ readBy' = IF MessageReadTimeout \/ MaxLifetime THEN "body" ELSE readBy
  /\ UNCHANGED <<ctx, watcher, queries, expired, sem, task, writeVars>>

BodyArrives ==
  /\ reader = "body" /\ readBy # "past" /\ reader' = "slot"
  /\ queries' = IF MaxQueriesPerConn > 0 THEN queries + 1 ELSE queries
  /\ UNCHANGED <<ctx, watcher, readBy, expired, sem, task, writeVars>>

\* io.ReadFull fails: the deadline passed, or the peer closed or reset.
ReadTimesOut ==
  /\ reader \in {"header", "body"} /\ readBy # "none" /\ reader' = "drain"
  /\ UNCHANGED <<ctx, watcher, readBy, queries, expired, sem, task, writeVars>>

PeerCloses ==
  /\ reader \in {"header", "body"} /\ reader' = "drain"
  /\ UNCHANGED <<ctx, watcher, readBy, queries, expired, sem, task, writeVars>>

HasRoom == MaxInflightPerConn <= 0 \/ sem < MaxInflightPerConn

Spawn(d) ==
  /\ reader = "slot" /\ HasRoom /\ task[d] = "free" /\ reader' = "top"
  /\ sem' = IF MaxInflightPerConn > 0 THEN sem + 1 ELSE sem
  /\ task' = [task EXCEPT ![d] = "running"]
  /\ UNCHANGED <<ctx, watcher, readBy, queries, expired, writeVars>>

SlotCancelled ==
  /\ reader = "slot" /\ MaxInflightPerConn > 0 /\ ctx = "cancelled" /\ reader' = "drain"
  /\ UNCHANGED <<ctx, watcher, readBy, queries, expired, sem, task, writeVars>>

\* The deferred connWg.Wait, close(stop), connCancel and raw.Close, in this order.
Finish_CloseFirst ==
  /\ reader = "drain" /\ reader' = "closed"
  /\ watcher' = "done"
  /\ UNCHANGED <<ctx, readBy, queries, expired, sem, task, writeVars>>
Finish ==
  /\ reader = "drain" /\ \A d \in Dispatchers : task[d] = "free"
  /\ reader' = "closed" /\ watcher' = "done"
  /\ UNCHANGED <<ctx, readBy, queries, expired, sem, task, writeVars>>

(* A dispatcher: the handler may write any number of messages. *)

Lockable_Ignored == TRUE
Lockable == writeMu = None

\* WriteMsg takes the mutex, sets its deadline, writes the length prefix.
WritePrefix(d) ==
  /\ task[d] = "running" /\ Lockable /\ (WriteTimeout \/ writeBy # "past")
  /\ writeMu' = d /\ task' = [task EXCEPT ![d] = "prefix"]
  /\ writeBy' = IF WriteTimeout THEN "wait" ELSE writeBy
  /\ out' = <<d, "prefix">>
  /\ UNCHANGED <<ctx, watcher, readerVars, expired, sem>>

\* The body; the deferred calls clear the deadline and the mutex.
EndWrite(d) ==
  /\ task' = [task EXCEPT ![d] = "running"] /\ writeMu' = None
  /\ writeBy' = IF WriteTimeout THEN "none" ELSE writeBy
  /\ UNCHANGED <<ctx, watcher, readerVars, expired, sem>>

WriteBody(d) ==
  /\ task[d] = "prefix" /\ writeBy # "past"
  /\ out' = <<d, "body">> /\ EndWrite(d)

\* The write of the body, or already the one of the prefix, fails: its deadline
\* passed, or the peer reset the connection.
WriteFails(d) ==
  /\ task[d] = "prefix" \/ (task[d] = "running" /\ Lockable)
  /\ EndWrite(d) /\ UNCHANGED out

\* The handler returns; an unparsable body comes straight here.
Dispatched(d) ==
  /\ task[d] = "running" /\ task' = [task EXCEPT ![d] = "free"]
  /\ sem' = IF MaxInflightPerConn > 0 THEN sem - 1 ELSE sem
  /\ UNCHANGED <<ctx, watcher, readerVars, expired, writeVars>>

(* The watcher, and the environment. *)

WatchCancelled ==
  /\ watcher = "watching" /\ ctx = "cancelled" /\ watcher' = "done"
  /\ readBy' = "past" /\ writeBy' = "past"
  /\ UNCHANGED <<ctx, reader, queries, expired, sem, task, writeMu, out>>

Cancel ==
  /\ ctx = "live" /\ ctx' = "cancelled"
  /\ UNCHANGED <<watcher, readerVars, expired, sem, task, writeVars>>

LifetimeEnds ==
  /\ MaxLifetime /\ ~expired /\ expired' = TRUE
  /\ UNCHANGED <<ctx, watcher, readerVars, sem, task, writeVars>>
-----------------------------------------------------------------------------
serveConn ==
  \/ PrepareSucceeds \/ PrepareFails \/ LoopEnds \/ AwaitHeader \/ Oversized
  \/ AwaitBody \/ (\E d \in Dispatchers : Spawn(d)) \/ SlotCancelled \/ Finish

Peer == HeaderArrives \/ BodyArrives \/ PeerCloses

WriteMsg(d) == WritePrefix(d) \/ WriteBody(d) \/ WriteFails(d)

Next ==
  \/ serveConn \/ Peer \/ ReadTimesOut \/ WatchCancelled \/ Cancel \/ LifetimeEnds
  \/ \E d \in Dispatchers : WriteMsg(d) \/ Dispatched(d)

Spec == Init /\ [][Next]_vars

\* The reader, the watcher and the handlers run; a deadline in force ends a read
\* that goes on waiting, and a write; a handler calls WriteMsg finitely often.
\* The peer owes nothing.
Fairness ==
  /\ WF_vars(serveConn) /\ WF_vars(ReadTimesOut) /\ WF_vars(WatchCancelled)
  /\ \A d \in Dispatchers :
       /\ SF_vars(Dispatched(d))
       /\ WriteTimeout => WF_vars(task[d] = "prefix" /\ (WriteBody(d) \/ WriteFails(d)))

FairSpec == Spec /\ Fairness
-----------------------------------------------------------------------------
TypeOK ==
  /\ ctx \in {"live", "cancelled"} /\ watcher \in {"none", "watching", "done"}
  /\ reader \in {"prepare", "top", "header", "sized", "body", "slot", "drain", "closed"}
  /\ readBy \in {"none", "wait", "body", "past"} /\ writeBy \in {"none", "wait", "past"}
  /\ expired \in BOOLEAN /\ queries \in Nat /\ sem \in Nat
  /\ task \in [Dispatchers -> {"free", "running", "prefix"}]
  /\ writeMu \in Dispatchers \cup {None}
  /\ out \in (Dispatchers \cup {None}) \X {"prefix", "body"}

Running == {d \in Dispatchers : task[d] # "free"}

\* The connection's semaphore counts its dispatchers and bounds them.
InflightBounded ==
  MaxInflightPerConn > 0 => sem = Cardinality(Running) /\ sem <= MaxInflightPerConn

\* "Reordering would let pipelined writes hit a closed conn" (server.go:296-299):
\* when the connection is closed no dispatcher is left to write to it.
ClosedAfterDispatchers == reader = "closed" => Running = {}

\* No more than MaxQueriesPerConn messages are read from one connection, the
\* one being read when the cap is reached included.
QueriesBounded == MaxQueriesPerConn > 0 => queries <= MaxQueriesPerConn

\* "two concurrent writes can't interleave length prefixes and bodies"
\* (server.go:339-341): between a prefix and its body nobody else writes.
PrefixThenBody ==
  \A d \in Dispatchers : task[d] = "prefix" => writeMu = d /\ out = <<d, "prefix">>
=============================================================================
