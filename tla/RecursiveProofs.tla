-------------------------- MODULE RecursiveProofs ---------------------------
(* The claims on nameservers and the frames of a walk, for any clients,      *)
(* names and referrals and any limits on depth, iterations and walks.        *)
EXTENDS Recursive, TLAPS

\* What the code's control flow gives and the properties do not say: a frame that
\* is in use has a key; resolveUngluedNS has returned when the loop goes on; and
\* a referral is followed only below the limit of iterations.
InProgress ==
  /\ \A f \in Frames : frame[f].at # "idle" => frame[f].key \in Keys
  /\ \A k \in Keys : call[k].at = "walk" => call[k].ns = None
  /\ \A k \in Keys : call[k].at = "chase" => call[k].iter < MaxIterations

\* The inductive invariant.
IInv == TypeOK /\ InProgress /\ ClaimsExact /\ ChaseCovered

\* What a key has: no call, or one with all its fields.
LEMMA CallFacts ==
  ASSUME TypeOK, NEW k \in Keys
  PROVE  /\ k \in Running <=> call[k].at \in {"walk", "chase"}
         /\ k \in Running <=> call[k] # NoCall
         /\ k \in Running => call[k] \in CallType
         /\ k \notin Running => call[k] = NoCall /\ call[k].at = "none"
  BY DEF TypeOK, Running, CallType, NoCall

\* Before the first query nothing is walked, claimed or in use.
LEMMA InitInv == Init => IInv
<1> SUFFICES ASSUME Init PROVE IInv
  OBVIOUS
<1>1. TypeOK
  BY RecursiveAssumption DEF Init, TypeOK, FrameType, NoFrame, NoCall
<1>2. Running = {}
  BY DEF Init, Running
<1>3. InProgress
  BY DEF Init, InProgress, NoFrame, NoCall
<1>4. ClaimsExact
  BY <1>2 DEF Init, ClaimsExact
<1>5. ChaseCovered
  BY DEF Init, ChaseCovered, NoFrame, Frames
<1>. QED
  BY <1>1, <1>3, <1>4, <1>5 DEF IInv
-----------------------------------------------------------------------------
(* Steps that change no call: a frame goes on and keeps what it asks for.    *)

\* A step of resolveDepth that starts and ends no walk keeps the invariant when
\* every frame in use keeps its place under the walk it belongs to.
LEMMA FramesOnly ==
  ASSUME IInv, UNCHANGED <<call, claims>>,
         frame' \in [Frames -> FrameType], cache' \in [Keys -> Entries \cup {None}],
         \A f \in Frames : frame'[f].at # "idle" => frame'[f].key \in Keys,
         \A f \in Chasers : frame'[f].at # "idle" =>
            frame[f].at # "idle" /\ frame'[f].key = frame[f].key /\ frame'[f].depth = frame[f].depth,
         \A f \in Frames : frame'[f].at = "wait" => frame'[f].key \in Running
  PROVE  IInv'
<1>1. Running' = Running
  BY DEF Running
<1>2. TypeOK'
  BY DEF IInv, TypeOK
<1>3. InProgress'
  BY DEF IInv, InProgress
<1>4. ClaimsExact'
  BY <1>1 DEF IInv, ClaimsExact
<1>5. ChaseCovered'
  BY <1>1 DEF IInv, ChaseCovered
<1>. QED
  BY <1>2, <1>3, <1>4, <1>5 DEF IInv

\* One frame, used by a client or a chaser, goes on.
LEMMA FrameStays ==
  ASSUME IInv, UNCHANGED <<call, claims>>, cache' \in [Keys -> Entries \cup {None}],
         NEW f \in Frames, frame[f].at # "idle",
         NEW g \in FrameType, frame' = [frame EXCEPT ![f] = g],
         g.key = frame[f].key, g.depth = frame[f].depth,
         g.at = "wait" => frame[f].key \in Running
  PROVE  IInv'
<1>1. frame' \in [Frames -> FrameType]
  BY DEF IInv, TypeOK
<1>2. \A h \in Frames : frame'[h] = IF h = f THEN g ELSE frame[h]
  BY DEF IInv, TypeOK
<1>3. Chasers \subseteq Frames
  BY DEF Frames
<1>4. \A h \in Frames : frame'[h].at # "idle" => frame'[h].key \in Keys
  BY <1>2 DEF IInv, InProgress
<1>5. \A h \in Chasers : frame'[h].at # "idle" =>
        frame[h].at # "idle" /\ frame'[h].key = frame[h].key /\ frame'[h].depth = frame[h].depth
  BY <1>2, <1>3
<1>6. \A h \in Frames : frame'[h].at = "wait" => frame'[h].key \in Running
  BY <1>2 DEF IInv, ChaseCovered
<1>. QED
  BY <1>1, <1>4, <1>5, <1>6, FramesOnly

\* Only Clients call Resolve and Leave.
LEMMA ClientSteps ==
  ASSUME IInv, NEW r \in Clients, (\E k \in Asked : Resolve(r, k)) \/ Leave(r)
  PROVE  IInv'
<1>1. r \in Frames /\ r \notin Chasers /\ Chasers \subseteq Frames
  BY RecursiveAssumption DEF Frames
<1>2. PICK g \in FrameType : /\ frame' = [frame EXCEPT ![r] = g]
                             /\ g.at # "wait" /\ (g.at # "idle" => g.key \in Keys)
  <2>1. CASE Leave(r)
    <3>1. NoFrame \in FrameType /\ NoFrame.at = "idle"
      BY RecursiveAssumption DEF FrameType, NoFrame
    <3>. QED
      BY <2>1, <3>1 DEF Leave
  <2>2. ASSUME NEW k \in Asked, Resolve(r, k)
        PROVE  \E g \in FrameType : /\ frame' = [frame EXCEPT ![r] = g]
                                    /\ g.at # "wait" /\ (g.at # "idle" => g.key \in Keys)
    <3>1. Enter(k, 0) \in FrameType /\ Enter(k, 0).at = "lookup" /\ Enter(k, 0).key \in Keys
      BY RecursiveAssumption DEF FrameType, Enter, Asked, Keys
    <3>. QED
      BY <2>2, <3>1 DEF Resolve
  <2>. QED
    BY <2>1, <2>2
<1>3. frame' \in [Frames -> FrameType]
  BY <1>1, <1>2 DEF IInv, TypeOK
<1>4. \A h \in Frames : frame'[h] = IF h = r THEN g ELSE frame[h]
  BY <1>1, <1>2 DEF IInv, TypeOK
<1>5. UNCHANGED <<call, claims, cache>>
  BY DEF Resolve, Leave
<1>6. cache' \in [Keys -> Entries \cup {None}]
  BY <1>5 DEF IInv, TypeOK
<1>7. \A h \in Frames : frame'[h].at # "idle" => frame'[h].key \in Keys
  BY <1>2, <1>4 DEF IInv, InProgress
<1>8. \A h \in Chasers : frame'[h].at # "idle" =>
        frame[h].at # "idle" /\ frame'[h].key = frame[h].key /\ frame'[h].depth = frame[h].depth
  BY <1>1, <1>4
<1>9. \A h \in Frames : frame'[h].at = "wait" => frame'[h].key \in Running
  BY <1>2, <1>4 DEF IInv, ChaseCovered
<1>. QED
  BY <1>3, <1>5, <1>6, <1>7, <1>8, <1>9, FramesOnly

\* A frame that gets its result.
LEMMA GotInv ==
  ASSUME IInv, NEW f \in Frames, frame[f].at # "idle", NEW r \in Results, frame' = Got(f, r),
         UNCHANGED <<call, claims>>, cache' \in [Keys -> Entries \cup {None}]
  PROVE  IInv'
<1> DEFINE g == [frame[f] EXCEPT !.at = "got", !.res = r]
<1>1. frame[f] \in FrameType
  BY DEF IInv, TypeOK
<1>2. /\ g \in FrameType /\ g.at = "got" /\ g.key = frame[f].key /\ g.depth = frame[f].depth
  BY <1>1 DEF FrameType
<1>3. frame' = [frame EXCEPT ![f] = g]
  BY <1>1 DEF Got, FrameType, IInv, TypeOK
<1>. HIDE DEF g
<1>. QED
  BY <1>2, <1>3, FrameStays

\* The steps of resolveDepth outside startResolveDepth: a cached answer, a join, a
\* cancelled wait, the depth and inflight limits, a result.
LEMMA FrameSteps ==
  ASSUME IInv, NEW f \in Frames,
         LookupTooDeep(f) \/ LookupHit(f) \/ LookupDenied(f) \/ JoinRunning(f) \/ JoinFull(f)
           \/ WaitCancelled(f)
  PROVE  IInv'
<1>1. frame[f].at # "idle"
  BY DEF LookupTooDeep, LookupHit, LookupDenied, JoinRunning, JoinFull, Misses, WaitCancelled
<1>2. frame[f].key \in Keys /\ frame[f] \in FrameType
  BY <1>1 DEF IInv, InProgress, TypeOK
<1>3. cache \in [Keys -> Entries \cup {None}]
  BY DEF IInv, TypeOK
<1>4. CASE LookupTooDeep(f) \/ JoinFull(f) \/ WaitCancelled(f)
  <2>1. "error" \in Results
    BY DEF Results
  <2>. QED
    BY <1>1, <1>3, <1>4, <2>1, GotInv DEF LookupTooDeep, JoinFull, WaitCancelled
<1>5. CASE LookupHit(f)
  <2>1. cache[frame[f].key] \in Results
    BY <1>2, <1>3, <1>5 DEF LookupHit, Results
  <2>. QED
    BY <1>1, <1>3, <1>5, <2>1, GotInv DEF LookupHit
<1>6. CASE LookupDenied(f)
  <2>1. "bare" \in Results /\ "bare" \in Entries
    BY DEF Results, Entries
  <2>2. cache' \in [Keys -> Entries \cup {None}]
    BY <1>3, <1>6, <2>1 DEF LookupDenied
  <2>. QED
    BY <1>1, <1>6, <2>1, <2>2, GotInv DEF LookupDenied
<1>7. CASE JoinRunning(f)
  <2> DEFINE g == [frame[f] EXCEPT !.at = "wait"]
  <2>1. g \in FrameType /\ g.key = frame[f].key /\ g.depth = frame[f].depth
    BY <1>2 DEF FrameType
  <2>2. frame' = [frame EXCEPT ![f] = g] /\ frame[f].key \in Running /\ UNCHANGED <<call, claims, cache>>
    BY <1>7 DEF JoinRunning
  <2>. HIDE DEF g
  <2>. QED
    BY <1>1, <1>3, <2>1, <2>2, FrameStays
<1>. QED
  BY <1>4, <1>5, <1>6, <1>7
-----------------------------------------------------------------------------
(* Steps of a call that leave its nameserver and depth alone.                *)

\* A running walk's step that keeps its nameserver and depth disturbs no
\* claim and no frame.
LEMMA CallStays ==
  ASSUME IInv, UNCHANGED <<frame, claims, cache>>, NEW k \in Running,
         NEW c \in CallType, call' = [call EXCEPT ![k] = c],
         c.ns = call[k].ns, c.depth = call[k].depth,
         c.at = "walk" => c.ns = None,
         c.at = "chase" => c.iter < MaxIterations
  PROVE  IInv'
<1>1. k \in Keys /\ c # NoCall /\ call[k] # NoCall /\ call \in [Keys -> CallType \cup {NoCall}]
  BY DEF IInv, TypeOK, Running, CallType, NoCall
<1>2. \A j \in Keys : call'[j] = IF j = k THEN c ELSE call[j]
  BY <1>1
<1>3. Running' = Running
  BY <1>1, <1>2 DEF Running
<1>4. \A j \in Running : call'[j].ns = call[j].ns /\ call'[j].depth = call[j].depth
  BY <1>2 DEF Running
<1>5. TypeOK'
  BY <1>1 DEF IInv, TypeOK
<1>6. InProgress'
  BY <1>2 DEF IInv, InProgress
<1>7. ClaimsExact'
  <2>1. {call'[j].ns : j \in Running'} = {call[j].ns : j \in Running}
    BY <1>3, <1>4
  <2>. QED
    BY <1>3, <1>4, <2>1 DEF IInv, ClaimsExact
<1>8. ChaseCovered'
  BY <1>3, <1>4 DEF IInv, ChaseCovered
<1>. QED
  BY <1>5, <1>6, <1>7, <1>8 DEF IInv

\* The deadline, the loop that goes on, a referral, a nameserver another walk chases.
LEMMA CallSteps ==
  ASSUME IInv, NEW k \in Keys,
         Late(k) \/ WalkOn(k) \/ (\E S \in NSSets : WalkUnglued(k, S))
           \/ (\E n \in Names : ChaseSkip(k, n)) \/ ChaseOn(k)
  PROVE  IInv'
<1>1. k \in Running
  <2>1. Late(k) => k \in Running
    BY DEF Late
  <2>2. ~Late(k) => call[k].at \in {"walk", "chase"}
    BY DEF WalkOn, WalkUnglued, ChaseSkip, ChaseOn, AtQuery, Chasing, Chased
  <2>. QED
    BY <2>1, <2>2, CallFacts DEF IInv
<1>2. call[k] \in CallType /\ call \in [Keys -> CallType \cup {NoCall}]
  BY <1>1, CallFacts DEF IInv, TypeOK
<1>3. (call[k].at = "walk" => call[k].ns = None) /\ (call[k].at = "chase" => call[k].iter < MaxIterations)
  BY DEF IInv, InProgress
<1>4. UNCHANGED <<frame, claims, cache>>
  BY DEF Late, WalkOn, WalkUnglued, ChaseSkip, ChaseOn
<1>5. CASE Late(k)
  <2> DEFINE c == [call[k] EXCEPT !.late = TRUE]
  <2>1. c \in CallType /\ c.ns = call[k].ns /\ c.depth = call[k].depth /\ c.at = call[k].at
          /\ c.iter = call[k].iter
    BY <1>2 DEF CallType
  <2>2. call' = [call EXCEPT ![k] = c]
    BY <1>5 DEF Late
  <2>. HIDE DEF c
  <2>. QED
    BY <1>1, <1>3, <1>4, <2>1, <2>2, CallStays
<1>6. CASE WalkOn(k)
  <2> DEFINE c == [call[k] EXCEPT !.iter = @ + 1]
  <2>1. call[k].at = "walk" /\ call[k].iter < MaxIterations
    BY <1>6 DEF WalkOn, AtQuery
  <2>2. c \in CallType /\ c.ns = call[k].ns /\ c.depth = call[k].depth /\ c.at = "walk"
    BY <1>2, <2>1, RecursiveAssumption DEF CallType
  <2>3. call' = [call EXCEPT ![k] = c]
    BY <1>6 DEF WalkOn
  <2>. HIDE DEF c
  <2>. QED
    BY <1>1, <1>3, <1>4, <2>1, <2>2, <2>3, CallStays
<1>7. ASSUME NEW S \in NSSets, WalkUnglued(k, S) PROVE IInv'
  <2> DEFINE c == [call[k] EXCEPT !.at = "chase", !.todo = S]
  <2>1. call[k].at = "walk" /\ call[k].iter < MaxIterations
    BY <1>7 DEF WalkUnglued, AtQuery
  <2>2. c \in CallType /\ c.ns = call[k].ns /\ c.depth = call[k].depth /\ c.at = "chase"
          /\ c.iter = call[k].iter
    BY <1>2, RecursiveAssumption DEF CallType
  <2>3. call' = [call EXCEPT ![k] = c]
    BY <1>2, <1>7 DEF WalkUnglued, CallType
  <2>. HIDE DEF c
  <2>. QED
    BY <1>1, <1>4, <2>1, <2>2, <2>3, CallStays
<1>8. ASSUME NEW n \in Names, ChaseSkip(k, n) PROVE IInv'
  <2> DEFINE c == [call[k] EXCEPT !.todo = @ \ {n}]
  <2>1. c \in CallType /\ c.ns = call[k].ns /\ c.depth = call[k].depth /\ c.at = call[k].at
          /\ c.iter = call[k].iter
    BY <1>2 DEF CallType
  <2>2. call' = [call EXCEPT ![k] = c]
    BY <1>8 DEF ChaseSkip
  <2>. HIDE DEF c
  <2>. QED
    BY <1>1, <1>3, <1>4, <2>1, <2>2, CallStays
<1>9. CASE ChaseOn(k)
  <2> DEFINE c == [call[k] EXCEPT !.at = "walk", !.iter = @ + 1, !.found = FALSE]
  <2>1. call[k].at = "chase" /\ call[k].ns = None
    BY <1>9 DEF ChaseOn, Chased
  <2>2. call[k].iter + 1 \in 0 .. MaxIterations
    BY <1>2, <1>3, <2>1, RecursiveAssumption DEF CallType
  <2>3. c \in CallType /\ c.ns = call[k].ns /\ c.depth = call[k].depth /\ c.at = "walk"
    BY <1>2, <2>2 DEF CallType
  <2>4. call' = [call EXCEPT ![k] = c]
    BY <1>2, <1>9 DEF ChaseOn, CallType
  <2>. HIDE DEF c
  <2>. QED
    BY <1>1, <1>4, <2>1, <2>3, <2>4, CallStays
<1>. QED
  BY <1>5, <1>6, <1>7, <1>8, <1>9
-----------------------------------------------------------------------------
(* A call begins and ends, and a nameserver is chased.                       *)

\* startResolveDepth: no frame belongs to a walk that is not running.
LEMMA StartInv == ASSUME IInv, NEW f \in Frames, JoinStart(f) PROVE IInv'
<1> DEFINE k == frame[f].key
           c == [at |-> "walk", depth |-> frame[f].depth, iter |-> 0,
                 late |-> FALSE, todo |-> {}, ns |-> None, found |-> FALSE]
           g == [frame[f] EXCEPT !.at = "wait"]
<1>1. k \in Keys /\ frame[f] \in FrameType /\ frame[f].at = "lookup" /\ frame[f].depth < MaxDepth
  <2>1. frame[f].at = "lookup" /\ ~TooDeep(f)
    BY DEF JoinStart, Misses
  <2>2. frame[f] \in FrameType /\ frame[f].key \in Keys
    BY <2>1 DEF IInv, InProgress, TypeOK
  <2>3. frame[f].depth \in 0 .. MaxDepth
    BY <2>2 DEF FrameType
  <2>. QED
    BY <2>1, <2>2, <2>3, RecursiveAssumption DEF TooDeep
<1>2. g \in FrameType /\ g.at = "wait" /\ g.key = k /\ g.depth = frame[f].depth
  BY <1>1 DEF FrameType
<1>3. frame[f].depth \in 0 .. MaxDepth - 1
  BY <1>1, RecursiveAssumption DEF FrameType
<1>4. c \in CallType /\ c # NoCall /\ c.ns = None /\ c.at = "walk"
  BY <1>3, RecursiveAssumption DEF CallType, NoCall
<1>5. /\ frame' = [frame EXCEPT ![f] = g] /\ call' = [call EXCEPT ![k] = c]
      /\ UNCHANGED <<claims, cache>> /\ k \notin Running
  BY DEF JoinStart
<1>. HIDE DEF c, g
<1>6. TypeOK'
  BY <1>1, <1>2, <1>4, <1>5 DEF IInv, TypeOK
<1>7. /\ \A j \in Keys : call'[j] = IF j = k THEN c ELSE call[j]
      /\ \A h \in Frames : frame'[h] = IF h = f THEN g ELSE frame[h]
  BY <1>5 DEF IInv, TypeOK
<1>8. Running' = Running \cup {k}
  BY <1>1, <1>4, <1>5, <1>7 DEF Running
<1>. HIDE DEF k
<1>9. InProgress'
  <2>1. \A h \in Frames : frame'[h].at # "idle" => frame'[h].key \in Keys
    BY <1>1, <1>2, <1>7 DEF IInv, InProgress
  <2>2. \A j \in Keys : call'[j].at = "walk" => call'[j].ns = None
    BY <1>4, <1>7 DEF IInv, InProgress
  <2>3. \A j \in Keys : call'[j].at = "chase" => call'[j].iter < MaxIterations
    BY <1>4, <1>7 DEF IInv, InProgress
  <2>. QED
    BY <2>1, <2>2, <2>3 DEF InProgress
<1>10. \A j \in Running : call'[j] = call[j] /\ j \in Keys
  BY <1>5, <1>7 DEF Running
<1>11. call'[k].ns = None
  BY <1>1, <1>4, <1>7
<1>12. ClaimsExact'
  <2>1. {call'[j].ns : j \in Running'} \ {None} = {call[j].ns : j \in Running} \ {None}
    BY <1>8, <1>10, <1>11
  <2>2. \A i, j \in Running' : i # j /\ call'[i].ns = call'[j].ns => call'[j].ns = None
    BY <1>8, <1>10, <1>11 DEF IInv, ClaimsExact
  <2>. QED
    BY <1>5, <2>1, <2>2 DEF IInv, ClaimsExact
<1>13. ChaseCovered'
  <2>1. ASSUME NEW h \in Chasers, frame'[h].at # "idle"
        PROVE  /\ h[1] \in Running' /\ frame'[h].key = <<call'[h[1]].ns, h[2]>>
               /\ frame'[h].depth = call'[h[1]].depth + 1
    <3>1. h \in Frames
      BY DEF Frames
    <3>2. frame[h].at # "idle" /\ frame'[h].key = frame[h].key /\ frame'[h].depth = frame[h].depth
      BY <1>1, <1>2, <1>7, <2>1, <3>1 DEF k
    <3>. QED
      BY <1>8, <1>10, <3>2 DEF IInv, ChaseCovered
  <2>2. \A h \in Frames : frame'[h].at = "wait" => frame'[h].key \in Running'
    BY <1>2, <1>7, <1>8 DEF IInv, ChaseCovered
  <2>. QED
    BY <2>1, <2>2 DEF ChaseCovered
<1>. QED
  BY <1>6, <1>9, <1>12, <1>13 DEF IInv

\* A walk that chases nothing has no frame of its own in use.
LEMMA NoChasers ==
  ASSUME IInv, NEW k \in Keys, k \in Running, call[k].ns = None, NEW h \in Chasers, h[1] = k
  PROVE  frame[h].at = "idle"
<1> SUFFICES ASSUME frame[h].at # "idle" PROVE FALSE
  OBVIOUS
<1>1. h \in Frames
  BY DEF Frames
<1>2. frame[h].key = <<None, h[2]>> /\ frame[h].key \in Names \X Types
  BY <1>1 DEF IInv, ChaseCovered, InProgress, Keys
<1>. QED
  BY <1>2, RecursiveAssumption

\* The deferred cleanup of startResolveDepth: no claim and no frame is left behind.
LEMMA FinishInv ==
  ASSUME IInv, NEW k \in Keys, k \in Running, call[k].ns = None, NEW r \in Results, Finish(k, r),
         cache' \in [Keys -> Entries \cup {None}], UNCHANGED claims
  PROVE  IInv'
<1>1. \A j \in Keys : call'[j] = IF j = k THEN NoCall ELSE call[j]
  BY DEF Finish, IInv, TypeOK
<1>2. Running' = Running \ {k}
  BY <1>1 DEF Running
<1>3. \A h \in Frames : frame[h] \in FrameType
  BY DEF IInv, TypeOK
<1>4. ASSUME NEW h \in Frames
      PROVE  /\ frame'[h] \in FrameType
             /\ frame'[h].key = frame[h].key /\ frame'[h].depth = frame[h].depth
             /\ frame'[h].at = "idle" <=> frame[h].at = "idle"
             /\ frame'[h].at = "wait" => frame[h].at = "wait" /\ frame[h].key # k
  <2>1. frame'[h] = IF h \in Waiters(k) THEN [frame[h] EXCEPT !.at = "got", !.res = r] ELSE frame[h]
    BY DEF Finish
  <2>2. CASE h \in Waiters(k)
    BY <1>3, <2>1, <2>2 DEF Waiters, FrameType
  <2>3. CASE h \notin Waiters(k)
    BY <1>3, <2>1, <2>3 DEF Waiters
  <2>. QED
    BY <2>2, <2>3
<1>5. TypeOK'
  <2>1. frame' \in [Frames -> FrameType]
    BY <1>4 DEF Finish
  <2>2. call' \in [Keys -> CallType \cup {NoCall}]
    BY DEF Finish, IInv, TypeOK
  <2>. QED
    BY <2>1, <2>2 DEF IInv, TypeOK
<1>6. InProgress'
  BY <1>1, <1>4 DEF IInv, InProgress, NoCall
<1>7. ClaimsExact'
  <2>1. \A j \in Running' : j \in Running /\ call'[j] = call[j]
    BY <1>1, <1>2 DEF Running
  <2>2. {call'[j].ns : j \in Running'} \ {None} = {call[j].ns : j \in Running} \ {None}
    BY <1>2, <2>1
  <2>. QED
    BY <2>1, <2>2 DEF IInv, ClaimsExact
<1>8. ChaseCovered'
  <2>1. ASSUME NEW h \in Chasers, frame'[h].at # "idle"
        PROVE  /\ h[1] \in Running' /\ frame'[h].key = <<call'[h[1]].ns, h[2]>>
               /\ frame'[h].depth = call'[h[1]].depth + 1
    <3>1. frame[h].at # "idle" /\ frame'[h].key = frame[h].key /\ frame'[h].depth = frame[h].depth
      BY <1>4, <2>1 DEF Frames
    <3>2. h[1] # k
      BY <3>1, NoChasers
    <3>3. h[1] \in Running /\ h[1] \in Running' /\ call'[h[1]] = call[h[1]]
      BY <1>1, <1>2, <3>1, <3>2 DEF IInv, ChaseCovered, Running
    <3>. QED
      BY <3>1, <3>3 DEF IInv, ChaseCovered
  <2>2. \A h \in Frames : frame'[h].at = "wait" => frame'[h].key \in Running'
    BY <1>2, <1>4 DEF IInv, ChaseCovered
  <2>. QED
    BY <2>1, <2>2 DEF ChaseCovered
<1>. QED
  BY <1>5, <1>6, <1>7, <1>8 DEF IInv

\* The ways resolveIterative ends, from the loop or after a chase: an answer, or an
\* error at a limit or the deadline.
LEMMA FinishSteps ==
  ASSUME IInv, NEW k \in Keys,
         WalkFails(k) \/ ChaseFails(k) \/ (\E e \in Entries : WalkAnswer(k, e) \/ ChaseAnswer(k, e))
  PROVE  IInv'
<1>1. call[k].at \in {"walk", "chase"} /\ call[k].ns = None
  BY DEF WalkFails, ChaseFails, WalkAnswer, ChaseAnswer, AtQuery, Chased, IInv, InProgress
<1>2. k \in Running
  BY <1>1, CallFacts DEF IInv
<1>3. cache \in [Keys -> Entries \cup {None}]
  BY DEF IInv, TypeOK
<1>4. CASE WalkFails(k) \/ ChaseFails(k)
  <2>1. "error" \in Results
    BY DEF Results
  <2>. QED
    BY <1>1, <1>2, <1>3, <1>4, <2>1, FinishInv DEF WalkFails, ChaseFails
<1>5. ASSUME NEW e \in Entries, WalkAnswer(k, e) \/ ChaseAnswer(k, e) PROVE IInv'
  <2>1. e \in Results
    BY DEF Results
  <2>2. cache' \in [Keys -> Entries \cup {None}]
    BY <1>3, <1>5 DEF WalkAnswer, ChaseAnswer
  <2>. QED
    BY <1>1, <1>2, <1>5, <2>1, <2>2, FinishInv DEF WalkAnswer, ChaseAnswer
<1>. QED
  BY <1>4, <1>5

\* A step that gives one running call the nameserver m and its frames new contents,
\* where m is what the claims gain or lose.
LEMMA ChaseInv ==
  ASSUME IInv, NEW k \in Running, NEW c \in CallType, call' = [call EXCEPT ![k] = c],
         c.at = "chase", c.iter = call[k].iter, c.depth = call[k].depth, call[k].at = "chase",
         UNCHANGED cache, frame' \in [Frames -> FrameType],
         \A h \in Frames : h \notin {k} \X Types => frame'[h] = frame[h],
         \A h \in {k} \X Types : frame'[h].at # "wait" /\ (frame'[h].at # "idle" =>
            frame'[h].key = <<c.ns, h[2]>> /\ frame'[h].key \in Keys /\ frame'[h].depth = c.depth + 1),
         \/ c.ns \in Names /\ c.ns \notin claims /\ call[k].ns = None /\ claims' = claims \cup {c.ns}
         \/ c.ns = None /\ call[k].ns # None /\ claims' = claims \ {call[k].ns}
  PROVE  IInv'
<1>1. k \in Keys /\ c # NoCall /\ call[k] \in CallType /\ call \in [Keys -> CallType \cup {NoCall}]
  BY DEF IInv, TypeOK, Running, CallType, NoCall
<1>2. \A j \in Keys : call'[j] = IF j = k THEN c ELSE call[j]
  BY <1>1
<1>3. Running' = Running
  BY <1>1, <1>2 DEF Running
<1>4. Running \subseteq Keys
  BY DEF Running
<1>5. TypeOK'
  <2>1. claims' \in SUBSET Names
    BY DEF IInv, TypeOK
  <2>2. call' \in [Keys -> CallType \cup {NoCall}]
    BY <1>1
  <2>. QED
    BY <2>1, <2>2 DEF IInv, TypeOK
<1>6. InProgress'
  <2>1. \A h \in Frames : frame'[h].at # "idle" => frame'[h].key \in Keys
    BY DEF IInv, InProgress
  <2>2. \A j \in Keys : call'[j].at = "walk" => call'[j].ns = None
    BY <1>2 DEF IInv, InProgress
  <2>3. \A j \in Keys : call'[j].at = "chase" => call'[j].iter < MaxIterations
    BY <1>2, <1>1 DEF IInv, InProgress
  <2>. QED
    BY <2>1, <2>2, <2>3 DEF InProgress
<1>7. ClaimsExact'
  <2>1. /\ claims = {call[j].ns : j \in Running} \ {None}
        /\ \A i, j \in Running : i # j /\ call[i].ns = call[j].ns => call[j].ns = None
    BY DEF IInv, ClaimsExact
  <2>2. call'[k].ns = c.ns /\ \A j \in Running : j # k => call'[j].ns = call[j].ns
    BY <1>1, <1>2, <1>4
  <2>3. CASE c.ns \in Names /\ c.ns \notin claims /\ call[k].ns = None /\ claims' = claims \cup {c.ns}
    <3>1. c.ns # None
      BY <2>3, RecursiveAssumption
    <3>2. {call'[j].ns : j \in Running} \ {None} = ({call[j].ns : j \in Running} \ {None}) \cup {c.ns}
      BY <2>2, <2>3, <3>1
    <3>3. \A j \in Running : call[j].ns # c.ns
      BY <2>1, <2>3, <3>1
    <3>4. \A i, j \in Running : i # j /\ call'[i].ns = call'[j].ns => call'[j].ns = None
      BY <2>1, <2>2, <3>3
    <3>. QED
      BY <1>3, <2>1, <2>3, <3>2, <3>4 DEF ClaimsExact
  <2>4. CASE c.ns = None /\ call[k].ns # None /\ claims' = claims \ {call[k].ns}
    <3>1. \A j \in Running : j # k => call[j].ns # call[k].ns
      BY <2>1, <2>4
    <3>2. {call'[j].ns : j \in Running} \ {None} = ({call[j].ns : j \in Running} \ {None}) \ {call[k].ns}
      BY <2>2, <2>4, <3>1
    <3>3. \A i, j \in Running : i # j /\ call'[i].ns = call'[j].ns => call'[j].ns = None
      BY <2>1, <2>2, <2>4
    <3>. QED
      BY <1>3, <2>1, <2>4, <3>2, <3>3 DEF ClaimsExact
  <2>. QED
    BY <2>3, <2>4
<1>8. ChaseCovered'
  <2>1. ASSUME NEW h \in Chasers, frame'[h].at # "idle"
        PROVE  /\ h[1] \in Running' /\ frame'[h].key = <<call'[h[1]].ns, h[2]>>
               /\ frame'[h].depth = call'[h[1]].depth + 1
    <3>1. CASE h \in {k} \X Types
      <4>1. h[1] = k
        BY <3>1
      <4>. QED
        BY <1>1, <1>2, <1>3, <2>1, <3>1, <4>1
    <3>2. CASE h \notin {k} \X Types
      <4>1. h[1] # k /\ h[1] \in Keys
        BY <3>2 DEF Chasers
      <4>2. frame'[h] = frame[h]
        BY <3>2 DEF Frames
      <4>3. h[1] \in Running /\ call'[h[1]] = call[h[1]]
        BY <1>2, <2>1, <4>1, <4>2 DEF IInv, ChaseCovered
      <4>. QED
        BY <1>3, <2>1, <4>2, <4>3 DEF IInv, ChaseCovered
    <3>. QED
      BY <3>1, <3>2
  <2>2. \A h \in Frames : frame'[h].at = "wait" => frame'[h].key \in Running'
    BY <1>3 DEF IInv, ChaseCovered
  <2>. QED
    BY <2>1, <2>2 DEF ChaseCovered
<1>. QED
  BY <1>5, <1>6, <1>7, <1>8 DEF IInv

\* claimNS in resolveUngluedNS: a name no walk has claimed, and its two frames.
LEMMA ClaimInv == ASSUME IInv, NEW k \in Keys, NEW n \in Names, ChaseClaim(k, n) PROVE IInv'
<1> DEFINE c == [call[k] EXCEPT !.todo = @ \ {n}, !.ns = n]
<1>1. k \in Running /\ call[k].at = "chase" /\ call[k].ns = None
  BY CallFacts DEF ChaseClaim, Chasing, IInv
<1>2. call[k] \in CallType
  BY <1>1, CallFacts DEF IInv
<1>3. /\ c \in CallType /\ c.at = call[k].at /\ c.iter = call[k].iter /\ c.depth = call[k].depth
      /\ c.ns = n
  BY <1>2 DEF CallType
<1>4. call' = [call EXCEPT ![k] = c] /\ claims' = claims \cup {n} /\ n \notin claims /\ UNCHANGED cache
  BY <1>2 DEF ChaseClaim, CallType, IInv, TypeOK
<1>5. call[k].depth + 1 \in 0 .. MaxDepth
  BY <1>2, RecursiveAssumption DEF CallType
<1>6. \A h \in Frames : frame'[h] = IF h \in {k} \X Types
                          THEN Enter(<<n, h[2]>>, call[k].depth + 1) ELSE frame[h]
  BY DEF ChaseClaim
<1>7. ASSUME NEW h \in {k} \X Types
      PROVE  /\ h \in Frames /\ frame'[h] \in FrameType /\ frame'[h].at = "lookup"
             /\ frame'[h].key = <<n, h[2]>> /\ frame'[h].key \in Keys
             /\ frame'[h].depth = call[k].depth + 1
  <2>1. h \in Frames /\ h[2] \in Types /\ <<n, h[2]>> \in Keys
    BY DEF Frames, Chasers, Keys
  <2>2. frame'[h] = Enter(<<n, h[2]>>, call[k].depth + 1)
    BY <1>6, <2>1
  <2>. QED
    BY <1>5, <2>1, <2>2 DEF Enter, FrameType
<1>. HIDE DEF c
<1>8. frame' \in [Frames -> FrameType]
  <2>1. \A h \in Frames : frame'[h] \in FrameType
    BY <1>6, <1>7 DEF IInv, TypeOK
  <2>. QED
    BY <2>1 DEF ChaseClaim
<1>9. \A h \in Frames : h \notin {k} \X Types => frame'[h] = frame[h]
  BY <1>6
<1>10. \A h \in {k} \X Types : frame'[h].at # "wait" /\ (frame'[h].at # "idle" =>
          frame'[h].key = <<c.ns, h[2]>> /\ frame'[h].key \in Keys /\ frame'[h].depth = c.depth + 1)
  BY <1>3, <1>7
<1>11. c.ns \in Names /\ c.ns \notin claims /\ claims' = claims \cup {c.ns}
  BY <1>3, <1>4
<1>12. c.at = "chase"
  BY <1>1, <1>3
<1>. QED
  BY <1>1, <1>3, <1>4, <1>8, <1>9, <1>10, <1>11, <1>12, ChaseInv

\* wg.Wait has returned: every frame of the walk is put away with its claim.
LEMMA DoneInv == ASSUME IInv, NEW k \in Keys, ChaseDone(k) PROVE IInv'
<1> DEFINE c == [call[k] EXCEPT !.ns = None,
                   !.found = @ \/ \E t \in Types : frame[<<k, t>>].res = "addrs"]
<1>1. k \in Running /\ call[k].at = "chase" /\ call[k].ns # None
  BY CallFacts DEF ChaseDone, IInv
<1>2. call[k] \in CallType
  BY <1>1, CallFacts DEF IInv
<1>3. /\ c \in CallType /\ c.at = call[k].at /\ c.iter = call[k].iter /\ c.depth = call[k].depth
      /\ c.ns = None
  BY <1>2 DEF CallType
<1>4. call' = [call EXCEPT ![k] = c] /\ claims' = claims \ {call[k].ns} /\ UNCHANGED cache
  BY <1>2 DEF ChaseDone, Unclaimed, CallType, IInv, TypeOK
<1>5. \A h \in Frames : frame'[h] = IF h \in {k} \X Types /\ frame[h].at = "got"
                          THEN NoFrame ELSE frame[h]
  BY DEF ChaseDone
<1>6. \A h \in {k} \X Types : h \in Frames /\ frame'[h] = NoFrame
  <2> SUFFICES ASSUME NEW h \in {k} \X Types PROVE h \in Frames /\ frame'[h] = NoFrame
    OBVIOUS
  <2>1. h \in Frames /\ h[2] \in Types /\ h = <<k, h[2]>>
    BY DEF Frames, Chasers
  <2>2. frame[h].at = "got"
    BY <2>1 DEF ChaseDone, Joined
  <2>. QED
    BY <1>5, <2>1, <2>2
<1>7. NoFrame \in FrameType /\ NoFrame.at = "idle"
  BY RecursiveAssumption DEF NoFrame, FrameType
<1>8. frame' \in [Frames -> FrameType]
  <2>1. \A h \in Frames : frame'[h] \in FrameType
    BY <1>5, <1>7 DEF IInv, TypeOK
  <2>. QED
    BY <2>1 DEF ChaseDone
<1>. HIDE DEF c
<1>9. \A h \in Frames : h \notin {k} \X Types => frame'[h] = frame[h]
  BY <1>5
<1>10. \A h \in {k} \X Types : frame'[h].at # "wait" /\ (frame'[h].at # "idle" =>
          frame'[h].key = <<c.ns, h[2]>> /\ frame'[h].key \in Keys /\ frame'[h].depth = c.depth + 1)
  BY <1>6, <1>7
<1>11. c.at = "chase"
  BY <1>1, <1>3
<1>. QED
  BY <1>1, <1>3, <1>4, <1>8, <1>9, <1>10, <1>11, ChaseInv
-----------------------------------------------------------------------------
\* Every step of the resolver keeps the invariant.
LEMMA StepInv == IInv /\ [Next]_vars => IInv'
<1> SUFFICES ASSUME IInv, [Next]_vars PROVE IInv'
  OBVIOUS
<1>1. CASE \E r \in Clients : (\E k \in Asked : Resolve(r, k)) \/ Leave(r)
  BY <1>1, ClientSteps
<1>2. CASE \E f \in Frames : FrameStep(f) \/ WaitCancelled(f)
  BY <1>2, FrameSteps, StartInv DEF FrameStep
<1>3. ASSUME NEW k \in Keys, CallStep(k) \/ Late(k) PROVE IInv'
  BY <1>3, CallSteps, FinishSteps, ClaimInv, DoneInv DEF CallStep
<1>4. ASSUME NEW k \in Keys, Expire(k) PROVE IInv'
  <2>1. UNCHANGED <<frame, call, claims>> /\ cache' \in [Keys -> Entries \cup {None}]
    BY <1>4 DEF Expire, IInv, TypeOK
  <2>. QED
    BY SMTT(30), <2>1 DEF IInv, TypeOK, InProgress, ClaimsExact, ChaseCovered, Running
<1>5. CASE UNCHANGED vars
  BY SMTT(30), <1>5 DEF vars, IInv, TypeOK, InProgress, ClaimsExact, ChaseCovered, Running
<1>. QED
  BY <1>1, <1>2, <1>3, <1>4, <1>5 DEF Next

\* The inductive invariant holds in every reachable state of the walks.
THEOREM Invariance == Spec => []IInv
<1>1. IInv /\ [Next]_vars => IInv'
  BY StepInv
<1>. QED
  BY InitInv, <1>1, PTL DEF Spec

\* nsInProgress is exactly the set of nameservers being chased, each by one walk,
\* whichever way the walks end: a claim is neither leaked nor shared.
THEOREM ClaimsAreExact == Spec => []ClaimsExact
<1>1. IInv => ClaimsExact
  BY DEF IInv
<1>. QED
  BY Invariance, <1>1, PTL

\* The frames of a walk run only while it chases, one level deeper than it, and a
\* frame that waits has a running call to wait for.
THEOREM ChasesAreCovered == Spec => []ChaseCovered
<1>1. IInv => ChaseCovered
  BY DEF IInv
<1>. QED
  BY Invariance, <1>1, PTL
=============================================================================
