----------------------------- MODULE IterativeWalk -----------------------------
(* One walk from the roots to a target, recursive/recursive.go:              *)
(* resolveDepthInner with queryAny and minimisedQName.  A name on the way to *)
(* the target is its number of labels: 0 is the root, Labels the target.     *)
(* Which server answers first depends on the ranking of server_stats.go, on  *)
(* the rate limit and on the network: any may.                               *)
EXTENDS Integers, Sequences

CONSTANTS
  Servers,        \* nameserver addresses
  Roots,          \* currentRoots(), never empty
  Labels,         \* labels of the target
  MaxIterations   \* config.maxIterations

\* A walk starts from servers, and ends below the root.
WalkAssumption == Roots \subseteq Servers /\ Labels \in Nat \ {0} /\ MaxIterations \in Nat

VARIABLES
  servers,  \* the servers to ask next
  zone,     \* closestZone
  fell,     \* fellBack; TRUE from the start without config.qnameMin
  iter,     \* iterations done
  lame,     \* lameServers: who refused, asked for how many labels
  res,      \* what the walk returns: "running", "entry" or an error
  list,     \* history: the servers as the roots or a referral named them
  shown,    \* history: the longest name sent
  known     \* history: the deepest zone or name a server has owned up to

vars == <<servers, zone, fell, iter, lame, res, list, shown, known>>

Init ==
  /\ servers = Roots /\ list = Roots
  /\ zone = 0 /\ fell \in BOOLEAN /\ iter = 0
  /\ lame = <<>> /\ res = "running" /\ shown = 0 /\ known = 0

minimisedQName(z) == IF Labels > z + 1 THEN z + 1 ELSE Labels

queryName == IF fell THEN Labels ELSE minimisedQName(zone)

Larger(a, b) == IF a > b THEN a ELSE b

\* queryAny returns a response of s: the head of an iteration.
Response(s) ==
  /\ res = "running" /\ iter < MaxIterations /\ s \in servers
  /\ iter' = iter + 1
  /\ shown' = Larger(shown, queryName)

Ends(r) == res' = r /\ UNCHANGED <<servers, zone, fell, list, known>>

\* No server answers, each fails or is over its rate; or the loop is over.
WalkFails ==
  /\ res = "running"
  /\ Ends("error")
  /\ UNCHANGED <<iter, lame, shown>>

removeServer_Two(s) == LET r == servers \ {s} IN
  IF r = {} THEN r ELSE r \ {CHOOSE x \in r : TRUE}
removeServer(s) == servers \ {s}

Exhausted(s) == removeServer(s) = {}

\* REFUSED or SERVFAIL: s is dropped; after the last one the walk falls back.
Lame(s) ==
  /\ Response(s)
  /\ lame' = Append(lame, <<s, queryName>>)
  /\ \/ /\ ~Exhausted(s)
        /\ servers' = removeServer(s)
        /\ UNCHANGED <<zone, fell, res, list, known>>
     \/ /\ Exhausted(s) /\ ~fell
        /\ fell' = TRUE
        /\ UNCHANGED <<servers, zone, res, list, known>>
     \/ /\ Exhausted(s) /\ fell
        /\ Ends("lame")

\* The target's answer, authoritative or beside no usable referral.
Answer(s) ==
  /\ Response(s) /\ queryName = Labels
  /\ Ends("entry")
  /\ UNCHANGED lame

\* An authoritative empty answer for a shorter name: an empty non-terminal.
Advance(s) ==
  /\ Response(s) /\ queryName < Labels
  /\ zone' = queryName /\ known' = Larger(known, queryName)
  /\ UNCHANGED <<servers, fell, lame, res, list>>

\* An error or an answer for a shorter name, or no referral.
FallBack(s) ==
  /\ Response(s) /\ ~fell
  /\ fell' = TRUE
  /\ UNCHANGED <<servers, zone, lame, res, list, known>>

EmptyReferral(s) ==
  /\ Response(s) /\ fell
  /\ Ends("error")
  /\ UNCHANGED lame

\* serversFromReferral finds servers, referralZone names their zone.
Referral(s, S, z) ==
  /\ Response(s)
  /\ servers' = S /\ list' = S
  /\ zone' = z /\ known' = Larger(known, z)
  /\ UNCHANGED <<fell, lame, res>>

Next ==
  \/ WalkFails
  \/ \E s \in servers :
       \/ Lame(s) \/ Answer(s) \/ Advance(s) \/ FallBack(s) \/ EmptyReferral(s)
       \/ \E S \in SUBSET Servers \ {{}}, z \in 0 .. Labels : Referral(s, S, z)

Spec == Init /\ [][Next]_vars
-----------------------------------------------------------------------------
(* Properties. *)

\* Every variable has the type of the local it models, and a walk never runs
\* out of servers without ending: the guard on an empty list is not reached.
TypeOK ==
  /\ servers \in SUBSET Servers \ {{}} /\ list \in SUBSET Servers
  /\ zone \in 0 .. Labels /\ fell \in BOOLEAN /\ iter \in 0 .. MaxIterations
  /\ lame \in Seq(Servers \X (0 .. Labels))
  /\ res \in {"running", "entry", "lame", "error"}
  /\ shown \in 0 .. Labels /\ known \in 0 .. Labels

\* Until the walk falls back, no server has been sent more than one label below
\* the deepest zone or name the servers have owned up to, in whatever order
\* referrals, empty non-terminals and lame servers come.
ShowsOneLabelMore == ~fell => shown <= known + 1

\* AllServersLameError is the last word on a list: each of its servers was asked
\* and proved lame, and the whole target was asked for.
LameMeansAll ==
  res = "lame" =>
    /\ \A s \in list : \E i \in 1 .. Len(lame) : lame[i][1] = s
    /\ shown = Labels

\* Names are shown to servers one label at a time, and the error for lame servers is
\* the last word on all of them (resolveDepthInner).
WalkSound == ShowsOneLabelMore /\ LameMeansAll
=============================================================================
