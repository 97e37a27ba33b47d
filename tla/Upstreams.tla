------------------------------ MODULE Upstreams ------------------------------
(* What the recursive resolver knows of the servers it asks: the statistics  *)
(* that rank them (recursive/server_stats.go), the order queryAny tries them *)
(* in, and the root list with its priming and maintenance loop               *)
(* (recursive/priming.go).  A priming answer is the set of root servers it   *)
(* names and the addresses it adds, each for some server name.               *)
EXTENDS Integers, FiniteSets, FiniteSetsExt, Sequences, SequencesExt, TLC

CONSTANTS
  Servers,     \* addresses
  Hints,       \* the built-in root hints
  Configured,  \* WithRoots; may be empty
  Walks,       \* goroutines that walk the tree
  Loops,       \* goroutines that call RunMaintenance
  Answers,     \* priming answers: [rcode, ns : SUBSET Names, glue : SUBSET (Names \X Servers)]
  Rtts,        \* round-trip times
  MaxEntries, Batch,
  MaxClock,    \* bound: the last moment
  MaxStreak    \* bound: failures in a row

VARIABLES clock, stat, roots, running, at, queue

vars == <<clock, stat, roots, running, at, queue>>

Procs == Walks \cup Loops

Init ==
  /\ clock = 0 /\ stat = [s \in {} |-> 0]
  /\ roots = Configured /\ running = FALSE
  /\ at = [p \in Procs |-> "idle"] /\ queue = [p \in Procs |-> <<>>]
-----------------------------------------------------------------------------
(* Statistics. *)

Score(s) == IF s \in DOMAIN stat THEN [rtt |-> stat[s].rtt, streak |-> stat[s].streak]
            ELSE [rtt |-> 0, streak |-> 0]

\* evictOldestLocked: a batch of the stalest entries.
evictOldestLocked(n) ==
  {V \in SUBSET DOMAIN stat :
     /\ Cardinality(V) = Min({n, Cardinality(DOMAIN stat)})
     /\ \A v \in V, k \in DOMAIN stat \ V : stat[v].lastUsed <= stat[k].lastUsed}

AtCap(s) == s \notin DOMAIN stat /\ Cardinality(DOMAIN stat) >= MaxEntries

Record(s, rtt, ok) ==
  LET old == Score(s)
      new == [rtt |-> IF ~ok THEN old.rtt ELSE IF old.rtt = 0 THEN rtt
                      ELSE (old.rtt * 7 + rtt) \div 8,
              streak |-> IF ok THEN 0 ELSE old.streak + 1, lastUsed |-> clock]
  IN  \E V \in IF AtCap(s) THEN evictOldestLocked(Batch) ELSE {{}} :
        stat' = [k \in (DOMAIN stat \ V) \cup {s} |-> IF k = s THEN new ELSE stat[k]]

Before(s, t) ==
  LET a == Score(s)
      b == Score(t)
  IN  \/ a.streak < b.streak
      \/ a.streak = b.streak /\ a.rtt = 0 /\ b.rtt # 0
      \/ a.streak = b.streak /\ b.rtt # 0 /\ a.rtt # 0 /\ a.rtt < b.rtt

rankServers(list) == SortSeq(list, Before)
-----------------------------------------------------------------------------
(* Roots. *)

currentRoots == IF roots = {} THEN Hints ELSE roots

primingAddrsFromResponse(r) == {g[2] : g \in {x \in r.glue : x[1] \in r.ns}}

setRoots(addrs) == roots' = IF addrs = {} THEN roots ELSE addrs

\* Prime, once a root server has answered.
Prime(r) == IF r.rcode # "NoError" THEN UNCHANGED roots ELSE setRoots(primingAddrsFromResponse(r))

\* resolveDepthInner: rank the roots and ask them.
Walk(w) ==
  /\ at[w] = "idle"
  /\ at' = [at EXCEPT ![w] = "walk"]
  /\ queue' = [queue EXCEPT ![w] = rankServers(SetToSeq(currentRoots))]
  /\ UNCHANGED <<clock, stat, roots, running>>

\* RunMaintenance: one loop at a time; it primes at once and on every tick.
MayRun == ~running

RunMaintenance(l) ==
  /\ at[l] = "idle" /\ MayRun /\ running' = TRUE
  /\ at' = [at EXCEPT ![l] = "prime"]
  /\ queue' = [queue EXCEPT ![l] = SetToSeq(currentRoots)]
  /\ UNCHANGED <<clock, stat, roots>>

PrimeTick(l) ==
  /\ at[l] = "wait"
  /\ at' = [at EXCEPT ![l] = "prime"]
  /\ queue' = [queue EXCEPT ![l] = SetToSeq(currentRoots)]
  /\ UNCHANGED <<clock, stat, roots, running>>

\* The context ends: the loop leaves, a walk gives up.
Stop(p) ==
  /\ at[p] # "idle"
  /\ at' = [at EXCEPT ![p] = "idle"] /\ queue' = [queue EXCEPT ![p] = <<>>]
  /\ running' = IF p \in Loops THEN FALSE ELSE running
  /\ UNCHANGED <<clock, stat, roots>>

After(p) == at' = [at EXCEPT ![p] = IF p \in Loops THEN "wait" ELSE "idle"]

\* queryAny: a server over its rate is passed over.
Skip(p) ==
  /\ at[p] \in {"walk", "prime"} /\ queue[p] # <<>>
  /\ queue' = [queue EXCEPT ![p] = Tail(@)]
  /\ UNCHANGED <<clock, stat, roots, running, at>>

\* queryAny: the exchange fails and the next server is tried.
Fails(p) ==
  /\ at[p] \in {"walk", "prime"} /\ queue[p] # <<>>
  /\ Score(Head(queue[p])).streak < MaxStreak
  /\ Record(Head(queue[p]), 0, FALSE)
  /\ queue' = [queue EXCEPT ![p] = Tail(@)]
  /\ UNCHANGED <<clock, roots, running, at>>

\* queryAny: a response; Prime takes the roots from it.
Responds(p, rtt, r) ==
  /\ at[p] \in {"walk", "prime"} /\ queue[p] # <<>>
  /\ Record(Head(queue[p]), rtt, TRUE)
  /\ queue' = [queue EXCEPT ![p] = <<>>] /\ After(p)
  /\ IF at[p] = "prime" THEN Prime(r) ELSE UNCHANGED roots
  /\ UNCHANGED <<clock, running>>

\* queryAny: no server left.
GivesUp(p) ==
  /\ at[p] \in {"walk", "prime"} /\ queue[p] = <<>>
  /\ After(p) /\ UNCHANGED <<clock, stat, roots, running, queue>>

Tick == clock < MaxClock /\ clock' = clock + 1 /\ UNCHANGED <<stat, roots, running, at, queue>>

Next ==
  \/ \E w \in Walks : Walk(w)
  \/ \E l \in Loops : RunMaintenance(l) \/ PrimeTick(l)
  \/ \E p \in Procs : \/ Stop(p) \/ Skip(p) \/ Fails(p) \/ GivesUp(p)
                      \/ \E rtt \in Rtts, r \in Answers : Responds(p, rtt, r)
  \/ Tick

Spec == Init /\ [][Next]_vars
-----------------------------------------------------------------------------
(* Properties. *)

\* A walk always starts with a server to ask, whatever priming answers bring, and
\* at most one maintenance loop primes at a time.
AlwaysRoots ==
  /\ currentRoots # {}
  /\ \A k, l \in Loops : at[k] # "idle" /\ at[l] # "idle" => k = l
  /\ running <=> \E l \in Loops : at[l] # "idle"

\* The statistics stay within their cap.
Bounded == Cardinality(DOMAIN stat) <= MaxEntries
=============================================================================
