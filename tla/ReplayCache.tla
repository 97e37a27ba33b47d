---------------------------- MODULE ReplayCache ----------------------------
(* The three replay caches: TSIG's (tsig/replay.go), SIG(0)'s                *)
(* (sig0/replay.go) and DNSCrypt's (dnscrypt/replay.go).  A caller verifies  *)
(* a message and reads the clock, then asks the cache under its lock; the    *)
(* two steps of several callers interleave.                                  *)
EXTENDS Integers, FiniteSets

CONSTANTS
  Callers,
  Messages,   \* verified messages: each stands for its (key, time, MAC) tuple
  SignedAt,   \* when a message was signed; the signer's clock may be ahead
  Fudge,      \* how far from its signing time a message verifies
  Window, Size,
  MaxClock,   \* bound: the last moment
  Skew,       \* bound: how long a caller waits between its clock and the lock
  None

VARIABLES
  kind,       \* "tsig", "sig0" or "dnscrypt"
  clock,
  seen,       \* the cache: message -> time of observation
  lastSweep,  \* None: never (tsig)
  call,       \* each caller: the message and time it waits for the lock with
  firstAt,    \* history: when a message was last accepted
  pushedOut,  \* history: messages evicted at the cap
  replayed    \* history: messages accepted again inside the window

vars == <<kind, clock, seen, lastSweep, call, firstAt, pushedOut, replayed>>

Init ==
  /\ kind \in {"tsig", "sig0", "dnscrypt"} /\ clock = 0
  /\ seen = [m \in {} |-> 0] /\ lastSweep = None
  /\ call = [c \in Callers |-> None]
  /\ firstAt = [m \in Messages |-> None] /\ pushedOut = {} /\ replayed = {}
-----------------------------------------------------------------------------
\* VerifyMAC's test of the time; DNSCrypt's messages carry none.
InFudge(m, now) ==
  kind = "dnscrypt" \/ (now - SignedAt[m] <= Fudge /\ SignedAt[m] - now <= Fudge)

\* VerifyWithReplay up to the call of Seen.
Verify(c, m) ==
  /\ call[c] = None /\ InFudge(m, clock)
  /\ call' = [call EXCEPT ![c] = [msg |-> m, now |-> clock]]
  /\ UNCHANGED <<kind, clock, seen, lastSweep, firstAt, pushedOut, replayed>>

\* DNSCrypt takes an entry as old as the window for gone, the others do not.
Live_Short(m, now) == seen[m] > now - Window
Live(m, now) == IF kind = "dnscrypt" THEN seen[m] > now - Window ELSE seen[m] >= now - Window

shouldSweepLocked(now) ==
  \/ Size > 0 /\ Cardinality(DOMAIN seen) >= Size \div 2
  \/ Window > 0 /\ (IF lastSweep = None THEN TRUE ELSE (now - lastSweep) * 4 >= Window)

\* What is left after the sweep that comes before the lookup: tsig's is lazy,
\* sig0 sweeps on every call, dnscrypt only at the cap.
Swept(now) ==
  IF \/ kind = "sig0"
     \/ kind = "tsig" /\ shouldSweepLocked(now)
  THEN {m \in DOMAIN seen : Live(m, now)} ELSE DOMAIN seen

Hit(m, now) ==
  IF kind = "dnscrypt" THEN m \in DOMAIN seen /\ Live(m, now) ELSE m \in Swept(now)

Oldest(S) == {m \in S : \A j \in S : seen[m] <= seen[j]}

\* The sets an insertion may start from: at the cap the expired entries go, then
\* the oldest; dnscrypt looks for it strictly before now and may find none.
AtCap(S) == (kind = "dnscrypt" \/ Size > 0) /\ Cardinality(S) >= Size

Room(now) ==
  LET S == Swept(now)
      live == {m \in S : Live(m, now)}
      old == IF kind = "dnscrypt" THEN {m \in Oldest(live) : seen[m] < now} ELSE Oldest(live)
  IN  IF ~AtCap(S) THEN {S}
      ELSE IF ~AtCap(live) THEN {live}
      ELSE IF old = {} THEN {live} ELSE {live \ {m} : m \in old}

\* The cache's part under the lock; firstAt, pushedOut and replayed are history.
Check(c) ==
  /\ call[c] # None
  /\ LET m == call[c].msg
         now == call[c].now
         swept == \/ kind = "tsig" /\ shouldSweepLocked(now)
                  \/ kind = "tsig" /\ ~Hit(m, now) /\ AtCap(Swept(now))
     IN  /\ lastSweep' = IF swept THEN now ELSE lastSweep
         /\ \/ /\ Hit(m, now)
               /\ seen' = [j \in Swept(now) |-> seen[j]]
               /\ UNCHANGED <<firstAt, pushedOut, replayed>>
            \/ /\ ~Hit(m, now)
               /\ \E kept \in Room(now) :
                    /\ seen' = [j \in kept \cup {m} |-> IF j = m THEN now ELSE seen[j]]
                    /\ pushedOut' = (pushedOut \cup {j \in DOMAIN seen \ kept : Live(j, now)}) \ {m}
               /\ firstAt' = [firstAt EXCEPT ![m] = now]
               /\ replayed' = IF /\ firstAt[m] # None /\ m \notin pushedOut
                                 /\ \/ kind = "dnscrypt" /\ clock - firstAt[m] < Window
                                    \/ kind # "dnscrypt" /\ clock - firstAt[m] <= Window
                              THEN replayed \cup {m} ELSE replayed
  /\ call' = [call EXCEPT ![c] = None]
  /\ UNCHANGED <<kind, clock>>

Seen(c) == kind = "tsig" /\ Check(c)
SeenSIG0(c) == kind = "sig0" /\ Check(c)
seenNonce(c) == kind = "dnscrypt" /\ Check(c)

Tick ==
  /\ clock < MaxClock
  /\ \A c \in Callers : call[c] # None => clock - call[c].now < Skew
  /\ clock' = clock + 1
  /\ UNCHANGED <<kind, seen, lastSweep, call, firstAt, pushedOut, replayed>>

Next ==
  \/ \E c \in Callers : Seen(c) \/ SeenSIG0(c) \/ seenNonce(c) \/ \E m \in Messages : Verify(c, m)
  \/ Tick

Spec == Init /\ [][Next]_vars
-----------------------------------------------------------------------------
(* Properties. *)

\* No message is accepted twice within the window, however calls interleave and
\* whenever the lazy sweep runs, unless its entry was pushed out at the cap.
ReplaysCaught == replayed = {}

\* The TSIG and SIG(0) caches stay within their size.
Bounded == kind # "dnscrypt" /\ Size > 0 => Cardinality(DOMAIN seen) <= Size
=============================================================================
