------------------------------ MODULE Recursive ------------------------------
(* The coalesced iterative walks of the recursive resolver,                  *)
(* recursive/recursive.go, and the walks they start in turn to find the      *)
(* addresses of nameservers that a referral lists without glue.              *)
(*                                                                           *)
(* A frame is one activation of resolveDepth: a client's, or one of the      *)
(* goroutines resolveUngluedNS starts for a walk.  A call is one entry of    *)
(* the inflight map with its goroutine; it is named by its key, so the       *)
(* deferred cleanup of startResolveDepth (delete, release the slot, close    *)
(* done) is one step, and so are a cache miss and the visit to the map that  *)
(* follows it: Forwarder models the parts of the same code apart.            *)
(* Of an entry only its addresses matter here; what clients make of the      *)
(* entries is the subject of ResolveEntry; which server the loop of          *)
(* resolveDepthInner asks for which name, and when it falls back or fails,   *)
(* that of IterativeWalk.                                                    *)
EXTENDS Integers, FiniteSets

CONSTANTS
  Clients,        \* goroutines that call resolveDepth at depth 0
  Names,          \* domain names, of hosts and of nameservers
  Types,          \* the address types a nameserver is resolved for: A, AAAA
  AskedNames, AskedTypes,    \* bound: what clients ask for
  DeniedNames, DeniedTypes,  \* bound: what a harvested NSEC or NSEC3 proof may deny
  NSSets,         \* the nameservers without glue a referral may list
  MaxDepth, MaxIterations,  \* config.maxDepth, config.maxIterations
  MaxInflight,    \* cap(inflightSem)
  None

Keys == Names \X Types
Asked == AskedNames \X AskedTypes
Denied == DeniedNames \X DeniedTypes
Chasers == Keys \X Types
Frames == Clients \cup Chasers

\* An entry with addresses in its answer, one without, an error.
Entries == {"addrs", "bare"}
Results == Entries \cup {"error"}

ASSUME RecursiveAssumption ==
  /\ IsFiniteSet(Names) /\ IsFiniteSet(Types) /\ None \notin Names
  /\ Clients \cap Chasers = {}
  /\ AskedNames \subseteq Names /\ AskedTypes \subseteq Types
  /\ DeniedNames \subseteq Names /\ DeniedTypes \subseteq Types /\ NSSets \subseteq SUBSET Names
  /\ MaxDepth \in Nat \ {0} /\ MaxIterations \in Nat /\ MaxInflight \in Nat

VARIABLES
  frame,  \* each activation of resolveDepth
  call,   \* Recursive.inflight, with the state of each walk
  claims, \* Recursive.nsInProgress
  cache   \* Recursive.cache

vars == <<frame, call, claims, cache>>

FrameType ==
  [at : {"idle", "lookup", "wait", "got"}, key : Keys \cup {None},
   depth : 0 .. MaxDepth, res : Results \cup {None}]

\* late: the walk's context has ended; todo: nameservers still to chase; ns: the
\* one being chased; found: some chase found an address.
CallType ==
  [at : {"walk", "chase"}, depth : 0 .. MaxDepth - 1, iter : 0 .. MaxIterations,
   late : BOOLEAN, todo : SUBSET Names, ns : Names \cup {None}, found : BOOLEAN]

NoCall == [at |-> "none"]

NoFrame == [at |-> "idle", key |-> None, depth |-> 0, res |-> None]

Running == {k \in Keys : call[k] # NoCall}

Enter(k, d) == [at |-> "lookup", key |-> k, depth |-> d, res |-> None]
Got(f, r) == [frame EXCEPT ![f].at = "got", ![f].res = r]

Init ==
  /\ frame = [f \in Frames |-> NoFrame]
  /\ call = [k \in Keys |-> NoCall]
  /\ claims = {}
  /\ cache = [k \in Keys |-> None]
-----------------------------------------------------------------------------
(* resolveDepth. *)

\* resolveDepthFollow enters resolveDepth for each leg of a client's chase, and
\* takes what it returns.
Resolve(r, k) ==
  /\ frame[r].at = "idle"
  /\ frame' = [frame EXCEPT ![r] = Enter(k, 0)]
  /\ UNCHANGED <<call, claims, cache>>

Leave(r) ==
  /\ frame[r].at = "got"
  /\ frame' = [frame EXCEPT ![r] = NoFrame]
  /\ UNCHANGED <<call, claims, cache>>

TooDeep(f) == frame[f].depth >= MaxDepth

LookupTooDeep(f) ==
  /\ frame[f].at = "lookup" /\ TooDeep(f)
  /\ frame' = Got(f, "error")
  /\ UNCHANGED <<call, claims, cache>>

LookupHit(f) ==
  /\ frame[f].at = "lookup" /\ ~TooDeep(f) /\ cache[frame[f].key] # None
  /\ frame' = Got(f, cache[frame[f].key])
  /\ UNCHANGED <<call, claims, cache>>

Misses(f) ==
  frame[f].at = "lookup" /\ ~TooDeep(f) /\ cache[frame[f].key] = None

\* synthesiseFromNSEC and synthesiseFromNSEC3: a validated proof denies the key.
LookupDenied(f) ==
  /\ Misses(f) /\ frame[f].key \in Denied
  /\ cache' = [cache EXCEPT ![frame[f].key] = "bare"]
  /\ frame' = Got(f, "bare")
  /\ UNCHANGED <<call, claims>>

JoinRunning(f) ==
  /\ Misses(f) /\ frame[f].key \in Running
  /\ frame' = [frame EXCEPT ![f].at = "wait"]
  /\ UNCHANGED <<call, claims, cache>>

Full == Cardinality(Running) >= MaxInflight

\* ErrInflightFull: the slot is tried for, never waited for.
JoinFull(f) ==
  /\ Misses(f) /\ frame[f].key \notin Running /\ Full
  /\ frame' = Got(f, "error")
  /\ UNCHANGED <<call, claims, cache>>

\* startResolveDepth: the walk runs on a context of its own.
JoinStart(f) ==
  /\ Misses(f) /\ frame[f].key \notin Running /\ ~Full
  /\ call' = [call EXCEPT ![frame[f].key] =
       [at |-> "walk", depth |-> frame[f].depth, iter |-> 0,
        late |-> FALSE, todo |-> {}, ns |-> None, found |-> FALSE]]
  /\ frame' = [frame EXCEPT ![f].at = "wait"]
  /\ UNCHANGED <<claims, cache>>

\* The context a frame waits under has ended: its client's, at any moment; its
\* walk's, once the walk is late.
ContextDone_Client(f) == f \in Clients
ContextDone(f) == IF f \in Clients THEN TRUE ELSE call[f[1]].late

WaitCancelled(f) ==
  /\ frame[f].at = "wait" /\ ContextDone(f)
  /\ frame' = Got(f, "error")
  /\ UNCHANGED <<call, claims, cache>>
-----------------------------------------------------------------------------
(* The walk of a call: startResolveDepth and resolveDepthInner. *)

\* The deferred cleanup: the call leaves the map and its waiters get r.
Waiters(k) == {f \in Frames : frame[f].at = "wait" /\ frame[f].key = k}

Finish(k, r) ==
  /\ call' = [call EXCEPT ![k] = NoCall]
  /\ frame' = [f \in Frames |-> IF f \in Waiters(k)
                 THEN [frame[f] EXCEPT !.at = "got", !.res = r] ELSE frame[f]]

\* The deadline of the walk's context: resolveBudget, or queryTimeout.
Late(k) ==
  /\ k \in Running /\ ~call[k].late
  /\ call' = [call EXCEPT ![k].late = TRUE]
  /\ UNCHANGED <<frame, claims, cache>>

\* ErrIterationLimit; no server answers; all are lame; the referral is empty.
WalkFails(k) ==
  /\ call[k].at = "walk"
  /\ Finish(k, "error")
  /\ UNCHANGED <<claims, cache>>

AtQuery(k) == call[k].at = "walk" /\ call[k].iter < MaxIterations /\ ~call[k].late

\* An authoritative answer for the target.
WalkAnswer(k, e) ==
  /\ AtQuery(k)
  /\ cache' = [cache EXCEPT ![k] = e]
  /\ Finish(k, e)
  /\ UNCHANGED claims

\* The loop goes on with other servers, one more label, or the whole target.
WalkOn(k) ==
  /\ AtQuery(k)
  /\ call' = [call EXCEPT ![k].iter = @ + 1]
  /\ UNCHANGED <<frame, claims, cache>>

\* A referral to nameservers none of which has glue.
WalkUnglued(k, S) ==
  /\ AtQuery(k)
  /\ call' = [call EXCEPT ![k].at = "chase", ![k].todo = S]
  /\ UNCHANGED <<frame, claims, cache>>

Chasing(k, n) == call[k].at = "chase" /\ call[k].ns = None /\ n \in call[k].todo

\* markNSInProgress fails: another walk, or one this walk waits for, chases n.
ChaseSkip(k, n) ==
  /\ Chasing(k, n) /\ n \in claims
  /\ call' = [call EXCEPT ![k].todo = @ \ {n}]
  /\ UNCHANGED <<frame, claims, cache>>

\* resolveUngluedNS claims n and resolves its addresses side by side.
ChaseClaim(k, n) ==
  /\ Chasing(k, n) /\ n \notin claims
  /\ claims' = claims \cup {n}
  /\ call' = [call EXCEPT ![k].todo = @ \ {n}, ![k].ns = n]
  /\ frame' = [f \in Frames |-> IF f \in {k} \X Types
                 THEN Enter(<<n, f[2]>>, call[k].depth + 1) ELSE frame[f]]
  /\ UNCHANGED cache

\* wg.Wait returns.
Joined_First(k) == \E t \in Types : frame[<<k, t>>].at = "got"
Joined(k) == \A t \in Types : frame[<<k, t>>].at = "got"

\* The deferred unmarkNSInProgress.
Unclaimed_Forgotten(n) == claims
Unclaimed(n) == claims \ {n}

ChaseDone(k) ==
  /\ call[k].at = "chase" /\ call[k].ns # None /\ Joined(k)
  /\ claims' = Unclaimed(call[k].ns)
  /\ call' = [call EXCEPT ![k].ns = None,
                ![k].found = @ \/ \E t \in Types : frame[<<k, t>>].res = "addrs"]
  /\ frame' = [f \in Frames |-> IF f \in {k} \X Types /\ frame[f].at = "got"
                 THEN NoFrame ELSE frame[f]]
  /\ UNCHANGED cache

Chased(k) == call[k].at = "chase" /\ call[k].ns = None /\ call[k].todo = {}

\* serversFromReferral returns servers, or none and the walk falls back.
ChaseOn(k) ==
  /\ Chased(k)
  /\ call' = [call EXCEPT ![k].at = "walk", ![k].iter = @ + 1, ![k].found = FALSE]
  /\ UNCHANGED <<frame, claims, cache>>

\* No server, but the response answers the target after all.
ChaseAnswer(k, e) ==
  /\ Chased(k) /\ ~call[k].found
  /\ cache' = [cache EXCEPT ![k] = e]
  /\ Finish(k, e)
  /\ UNCHANGED claims

\* No server, and the walk has fallen back before: an empty referral.
ChaseFails(k) ==
  /\ Chased(k) /\ ~call[k].found
  /\ Finish(k, "error")
  /\ UNCHANGED <<claims, cache>>

\* A TTL runs out, or the cache evicts.
Expire(k) ==
  /\ cache[k] # None
  /\ cache' = [cache EXCEPT ![k] = None]
  /\ UNCHANGED <<frame, call, claims>>
-----------------------------------------------------------------------------
FrameStep(f) ==
  \/ LookupTooDeep(f) \/ LookupHit(f) \/ LookupDenied(f)
  \/ JoinRunning(f) \/ JoinFull(f) \/ JoinStart(f)

CallStep(k) ==
  \/ WalkFails(k) \/ WalkOn(k)
  \/ (\E e \in Entries : WalkAnswer(k, e) \/ ChaseAnswer(k, e))
  \/ (\E S \in NSSets : WalkUnglued(k, S))
  \/ (\E n \in Names : ChaseSkip(k, n) \/ ChaseClaim(k, n))
  \/ ChaseDone(k) \/ ChaseOn(k) \/ ChaseFails(k)

Next ==
  \/ \E r \in Clients : (\E k \in Asked : Resolve(r, k)) \/ Leave(r)
  \/ \E f \in Frames : FrameStep(f) \/ WaitCancelled(f)
  \/ \E k \in Keys : CallStep(k) \/ Late(k) \/ Expire(k)

Spec == Init /\ [][Next]_vars

\* Frames and walks are goroutines the scheduler runs; an exchange with a server
\* ends, by queryTimeout; the context of a walk has a deadline, which passes if
\* the walk does not get on, and a chaser in its select returns once it has.
Fairness ==
  /\ \A r \in Clients : WF_vars(FrameStep(r) \/ Leave(r))
  /\ \A f \in Chasers : WF_vars(FrameStep(f) \/ WaitCancelled(f))
  /\ \A k \in Keys : WF_vars(CallStep(k) \/ Late(k))

FairSpec == Spec /\ Fairness
-----------------------------------------------------------------------------
(* Properties. *)

\* Every variable has the type of the field it models.
TypeOK ==
  /\ frame \in [Frames -> FrameType]
  /\ call \in [Keys -> CallType \cup {NoCall}]
  /\ claims \in SUBSET Names
  /\ cache \in [Keys -> Entries \cup {None}]

\* nsInProgress holds exactly the nameservers being chased, each by one walk:
\* resolveUngluedNS neither leaks a claim nor lets two walks chase one name.
ClaimsExact ==
  /\ claims = {call[k].ns : k \in Running} \ {None}
  /\ \A j, k \in Running : j # k /\ call[j].ns = call[k].ns => call[k].ns = None

\* The frames of a walk run only while it chases a nameserver, one level deeper
\* than the walk, for that nameserver's addresses: wg.Wait covers them all, so
\* none runs on after its walk has gone on.  And a frame that waits has a running
\* call to wait for: a walk that ends wakes every follower, whoever started it and
\* whoever has given up since.
ChaseCovered ==
  /\ \A f \in Chasers : frame[f].at # "idle" =>
       /\ f[1] \in Running /\ frame[f].key = <<call[f[1]].ns, f[2]>>
       /\ frame[f].depth = call[f[1]].depth + 1
  /\ \A f \in Frames : frame[f].at = "wait" => frame[f].key \in Running

\* A client's resolution ends, whatever the walks wait for.
EveryClientReturns ==
  \A r \in Clients : frame[r].at # "idle" ~> frame[r].at = "idle"
=============================================================================
