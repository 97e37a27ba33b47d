---------------------------- MODULE MCResolution ----------------------------
(* Small instances, for TLC, of how names are resolved: what clients of the  *)
(* recursive resolver get (ResolveEntry), the walk down the tree             *)
(* (IterativeWalk), the stub resolver (StubResolver) and the validator       *)
(* (Walker).  A behaviour takes the steps of one of them.                    *)
EXTENDS ResolveEntry, TLC

CONSTANTS na, nb,                                        \* ResolveEntry: two names
          WServers, WRoots, Labels, MaxIterations,       \* IterativeWalk
          Hosts, Ndots, Servers, Attempts, SResponses, Special   \* StubResolver

VARIABLES which,             \* the module whose steps a behaviour takes
          servers, zone, fell, iter, lame, res, list, shown, known,     \* IterativeWalk
          host, ctx, cand, spc, srv, att, held, sink, out, arrived,    \* StubResolver
          tries, slame, firstErr, result,
          clock, ntas, vpc, query, vzone, keys, chain, dss, intact, answer  \* Walker

walkVars == <<servers, zone, fell, iter, lame, res, list, shown, known>>
stubVars == <<host, ctx, cand, spc, srv, att, held, sink, out, arrived, tries, slame, firstErr,
              result>>
valVars == <<clock, ntas, vpc, query, vzone, keys, chain, dss, intact, answer>>
-----------------------------------------------------------------------------
(* ResolveEntry: chains of one and two legs, loops, and a denial that comes  *)
(* with the AD bit.                                                          *)

MCNames == {na, nb}
MCAnswers ==
  {[kind |-> "data", to |-> None, ad |-> FALSE], [kind |-> "absent", to |-> None, ad |-> TRUE]}
  \cup {[kind |-> "alias", to |-> n, ad |-> FALSE] : n \in MCNames}
-----------------------------------------------------------------------------
(* IterativeWalk. *)

I == INSTANCE IterativeWalk WITH Servers <- WServers, Roots <- WRoots
-----------------------------------------------------------------------------
(* StubResolver: a name with one search suffix, and one answered locally.    *)

Record(n, t, to) == [name |-> n, type |-> t, target |-> to]
Response(rcode, tc, ans) == [rcode |-> rcode, tc |-> tc, ans |-> ans]

MCHosts == {[base |-> "h", absolute |-> FALSE, dots |-> 0, suffixed |-> <<"h.s">>],
            [base |-> "localhost", absolute |-> TRUE, dots |-> 0, suffixed |-> <<>>]}
MCServers == <<"s1", "s2">>
MCResponses ==
  {Response("NoError", FALSE, <<Record("h.s", "CNAME", "c"), Record("c", "A", None)>>),
   Response("NoError", TRUE, <<>>), Response("NXDomain", FALSE, <<>>),
   Response("Refused", FALSE, <<>>)}
MCSpecial == [n \in {"localhost"} |-> "localhost"]

S == INSTANCE StubResolver WITH Responses <- SResponses, pc <- spc, lame <- slame

ASSUME ResolutionAssumption == I!WalkAssumption /\ S!StubAssumption
-----------------------------------------------------------------------------
(* Walker: below the root, <<1>> is signed with two algorithms, has a        *)
(* wildcard and keys that may not be used; <<2>> is unsigned; <<3>> and <<4>> *)
(* deny with NSEC3, <<4>> with opt-out, and have unsigned delegations; and   *)
(* <<1, 4>> has too many iterations.  Label 0 is the wildcard.               *)

Key(i, alg, tag) ==
  [id |-> i, alg |-> alg, tag |-> tag, protocol |-> 3, revoked |-> FALSE, zoneKey |-> TRUE]
DS(k) == [tag |-> k.tag, alg |-> k.alg, id |-> k.id, sha1 |-> FALSE]
K1 == Key(1, "ec", 7)
K2 == Key(2, "ec", 9)
K3 == Key(3, "ed", 9)
K4 == [Key(4, "ec", 9) EXCEPT !.revoked = TRUE]
K5 == Key(5, "ec", 9)

Zone(ks, ds, names, denial, iterations) ==
  [keys |-> ks, ds |-> ds, names |-> names, denial |-> denial, iterations |-> iterations]
A(s) == [A |-> s]

VZones ==
  (<<>> :> Zone({K1}, {}, (<<5>> :> A({1})), "nsec", 0)) @@
  (<<1>> :> Zone({K2, K3, K4, K5}, {DS(K2), DS(K3)},
      (<<1, 1>> :> A({1, 2})) @@ (<<1, 0>> :> A({3})) @@ (<<1, 3, 3>> :> A({4})), "nsec", 0)) @@
  (<<2>> :> Zone({}, {}, (<<2, 1>> :> A({5})), "nsec", 0)) @@
  (<<3>> :> Zone({K2}, {DS(K2)},
      (<<3, 1>> :> A({6})) @@ (<<3, 2, 0>> :> A({6})) @@ (<<3, 1, 1>> :> A({7})), "nsec3", 0)) @@
  (<<3, 3>> :> Zone({}, {}, (<<3, 3, 1>> :> A({5})), "nsec", 0)) @@
  (<<4>> :> Zone({K3}, {DS(K3)}, (<<4, 1>> :> A({6})) @@ (<<4, 1, 0>> :> A({7})), "optOut", 0)) @@
  (<<4, 3>> :> Zone({}, {}, (<<4, 3, 1>> :> A({5})), "nsec", 0)) @@
  (<<1, 4>> :> Zone({K3}, {DS(K3)}, (<<1, 4, 1>> :> A({6})), "nsec3", 9))

\* The names of two labels and some of three; not the empty non-terminals.
VNames ==
  ((UNION {[1 .. k -> 1 .. 5] : k \in {1, 2}}) \ {<<1, 3>>, <<3, 2>>})
  \cup {<<1, 2, 3>>, <<1, 3, 3>>, <<3, 1, 1>>, <<3, 3, 1>>, <<3, 2, 4>>, <<1, 3, 4>>, <<1, 4, 1>>,
        <<1, 4, 2>>, <<4, 1, 1>>, <<4, 3, 1>>}

\* A distinct number for every name, in an order that is not the names' own.
VHash ==
  [n \in UNION {[1 .. k -> 0 .. 5] : k \in 0 .. 3} |->
     LET v == (IF n = <<>> THEN 0 ELSE 36 * n[1]) + (IF Len(n) > 1 THEN 6 * n[2] + 220 ELSE 0)
                + (IF Len(n) > 2 THEN n[3] + 221 ELSE 0)
     IN  (v * 37 + Len(n)) % 2003]

V == INSTANCE Walker WITH
       Star <- 0, Hash <- VHash, Rejected <- {"old"}, MaxNSEC3Iterations <- 5, maxRRSIGsTry <- 8,
       maxKeys <- 4, maxAlgs <- 4, Skew <- 0, TimeMod <- 16, Zones <- VZones,
       Anchors <- (<<>> :> {DS(K1)}), Questions <- VNames \X {"A", "B"}, maxZoneCuts <- 4,
       MaxNTAEntries <- 1, DefaultNTATTL <- 1, MaxNTATTL <- 2, NTANames <- {<<1>>, <<3, 3>>},
       NTATTLs <- {1}, Signed <- <<0, 2>>, MaxClock <- 3, pc <- vpc, zone <- vzone
-----------------------------------------------------------------------------
MCInit ==
  /\ Init /\ I!Init /\ S!Init /\ V!Init
  /\ which \in {"ResolveEntry", "IterativeWalk", "StubResolver", "Walker"}
  /\ which # "ResolveEntry" => ~validating
  /\ which # "StubResolver" => host.base = "h"
  /\ which # "Walker" => query = <<<<5>>, "A">>

MCNext ==
  /\ UNCHANGED which
  /\ \/ which = "ResolveEntry" /\ Next /\ UNCHANGED <<walkVars, stubVars, valVars>>
     \/ which = "IterativeWalk" /\ I!Next /\ UNCHANGED <<vars, stubVars, valVars>>
     \/ which = "StubResolver" /\ S!Next /\ UNCHANGED <<vars, walkVars, valVars>>
     \/ which = "Walker" /\ V!Next /\ UNCHANGED <<vars, walkVars, stubVars>>

MCSpec == MCInit /\ [][MCNext]_<<which, vars, walkVars, stubVars, valVars>>

\* IterativeWalk: names are shown to servers one label at a time, and the error for
\* lame servers is the last word on all of them.
WalkSound == I!WalkSound

\* StubResolver: "falling over to the next on transport failure ... AND on the
\* lame-server RCODEs SERVFAIL and REFUSED" (resolver.go:160-163).
AllServersTried == S!AllServersTried

\* Walker: Secure means what the zones say, Insecure that they are not signed, and
\* what arrives whole is not Bogus.
VerdictTrue == V!VerdictTrue

Symmetry == Permutations(Clients)
=============================================================================
