---------------------------- MODULE StubResolver ----------------------------
(* The stub resolver (resolver.go, lookup.go): LookupHost tries the names a  *)
(* search list gives one after the other, asking for A and AAAA at once; a   *)
(* Resolve goes from server to server, tries each Attempts times, and falls  *)
(* back to TCP when a reply is truncated.  The exchange with one server is   *)
(* ClientExchange's subject; here it gives a response or fails.             *)
EXTENDS Integers, FiniteSets, Sequences, SequencesExt, Bailiwick

CONSTANTS
  Hosts,      \* what may be looked up: [base, absolute, dots, suffixed]
  Ndots,
  Servers,    \* a sequence
  Attempts,   \* tries of each server
  Responses,  \* what a server may answer: [rcode, tc, ans]
  Special,    \* names answered locally: a function to "localhost" or "nxdomain"
  None

\* There are servers, and each is tried.
StubAssumption ==
  /\ Servers \in Seq({Servers[i] : i \in DOMAIN Servers}) /\ Servers # <<>>
  /\ Attempts \in Nat \ {0}

VARIABLES
  host, ctx,
  cand,       \* index of the candidate name being resolved
  pc, srv, att, held, sink,  \* each Resolve: server and try, lame reply kept, server reported
  out,        \* each Resolve: what it returned
  arrived,    \* the Resolves that have returned, in order
  tries, lame,  \* history: each Resolve's tries of each server, and who answered lame
  firstErr,   \* LookupHost: the error kept
  result

vars == <<host, ctx, cand, pc, srv, att, held, sink, out, arrived, tries, lame, firstErr, result>>

Types == {"A", "AAAA"}
-----------------------------------------------------------------------------
(* Names to try. *)

candidateNames(h) ==
  IF h.absolute \/ h.suffixed = <<>> THEN <<h.base>>
  ELSE IF h.dots >= Ndots THEN <<h.base>> \o h.suffixed ELSE Append(h.suffixed, h.base)

Name == candidateNames(host)[cand]

Each(v) == [t \in Types |-> v]
NoTries == [s \in DOMAIN Servers |-> 0]

Init ==
  /\ host \in Hosts /\ ctx = "live" /\ cand = 1
  /\ pc = Each("start") /\ srv = Each(1) /\ att = Each(1) /\ held = Each(None) /\ sink = Each(None)
  /\ out = Each(None) /\ arrived = <<>> /\ tries = Each(NoTries) /\ lame = Each({})
  /\ firstErr = None /\ result = None
-----------------------------------------------------------------------------
(* Resolve. *)

isRetryableRCODE_ServFail(rc) == rc = "ServFail"
isRetryableRCODE(rc) == rc \in {"ServFail", "Refused"}

Returned(t, o) ==
  /\ out' = [out EXCEPT ![t] = o] /\ arrived' = Append(arrived, t)
  /\ pc' = [pc EXCEPT ![t] = "done"]

\* resolve's end and wrapRCode: the answer carries the server the sink holds.
wrapRCode(t, m) ==
  Returned(t, [kind |-> IF m.rcode = "NoError" THEN "answer" ELSE "rcode", rcode |-> m.rcode,
               recs |-> IF m.rcode = "NoError" THEN MatchAnswers(m.ans, Name, t) ELSE <<>>,
               server |-> sink'[t], live |-> ctx = "live"])

Failed(t) ==
  Returned(t, [kind |-> IF ctx = "live" THEN "net" ELSE ctx, rcode |-> None, recs |-> <<>>,
               server |-> sink'[t], live |-> ctx = "live"])

\* specialUseAnswer: names that never leave the host.
specialUseAnswer(t) ==
  /\ pc[t] = "start" /\ Name \in DOMAIN Special
  /\ UNCHANGED sink
  /\ LET loop == <<[name |-> Name, type |-> t, target |-> None]>>
     IN  wrapRCode(t, IF Special[Name] = "localhost" THEN [rcode |-> "NoError", ans |-> loop]
                      ELSE [rcode |-> "NXDomain", ans |-> <<>>])
  /\ UNCHANGED <<host, ctx, cand, srv, att, held, tries, lame, firstErr, result>>

Ask(t) ==
  /\ pc' = [pc EXCEPT ![t] = "udp"]
  /\ tries' = [tries EXCEPT ![t][srv'[t]] = @ + 1]

resolve(t) ==
  /\ pc[t] = "start" /\ Name \notin DOMAIN Special
  /\ UNCHANGED srv /\ Ask(t)
  /\ UNCHANGED <<host, ctx, cand, att, held, sink, out, arrived, lame, firstErr, result>>

\* failover.Exchange: the next server, or what there is once all were tried.
NextServer(t, kept) ==
  /\ held' = [held EXCEPT ![t] = kept]
  /\ IF srv[t] < Len(Servers)
     THEN /\ srv' = [srv EXCEPT ![t] = @ + 1] /\ att' = [att EXCEPT ![t] = 1]
          /\ Ask(t) /\ UNCHANGED <<out, arrived>>
     ELSE /\ UNCHANGED <<srv, att, tries>>
          /\ IF kept # None THEN wrapRCode(t, kept) ELSE Failed(t)

\* A response comes back from a server's exchangers; failover is for several servers.
Success(t, m) ==
  /\ IF Len(Servers) > 1 /\ isRetryableRCODE(m.rcode) THEN NextServer(t, m)
     ELSE wrapRCode(t, m) /\ UNCHANGED <<srv, att, held, tries>>
  /\ lame' = IF m.rcode \in {"ServFail", "Refused"} THEN [lame EXCEPT ![t] = @ \cup {srv[t]}] ELSE lame

\* retryExchanger and failover after an error: stop if the caller is gone, else try
\* again, else go on to the next server.
GivesUp(t) == ctx # "live"

Failure(t) ==
  IF GivesUp(t) THEN Failed(t) /\ UNCHANGED <<srv, att, held, tries, lame>>
  ELSE IF att[t] < Attempts
  THEN /\ att' = [att EXCEPT ![t] = @ + 1] /\ UNCHANGED <<srv, held, lame, out, arrived>> /\ Ask(t)
  ELSE NextServer(t, held[t]) /\ UNCHANGED lame

\* tcFallback.Exchange over UDPClient: a reply after the end of the context counts
\* for nothing; a truncated one is asked again over TCP.
UDPResponds(t, m) ==
  /\ pc[t] = "udp" /\ ctx = "live"
  /\ sink' = [sink EXCEPT ![t] = Servers[srv[t]]]
  /\ IF m.tc THEN pc' = [pc EXCEPT ![t] = "tcp"] /\ UNCHANGED <<srv, att, held, out, arrived, tries, lame>>
     ELSE Success(t, m)
  /\ UNCHANGED <<host, ctx, cand, firstErr, result>>

TCPResponds(t, m) ==
  /\ pc[t] = "tcp"
  /\ sink' = [sink EXCEPT ![t] = Servers[srv[t]]]
  /\ IF m.tc THEN Failure(t) ELSE Success(t, m)
  /\ UNCHANGED <<host, ctx, cand, firstErr, result>>

ExchangeFails(t) ==
  /\ pc[t] \in {"udp", "tcp"} /\ UNCHANGED sink
  /\ Failure(t)
  /\ UNCHANGED <<host, ctx, cand, firstErr, result>>

Cancel(how) ==
  /\ ctx = "live" /\ result = None /\ ctx' = how
  /\ UNCHANGED <<host, cand, pc, srv, att, held, sink, out, arrived, tries, lame, firstErr, result>>
-----------------------------------------------------------------------------
(* LookupHost. *)

\* lookupHostAbsolute: addresses of both, or the error that came first.
Addresses == UNION {ToSet(out[t].recs) : t \in Types}
ErrorOf ==
  LET bad == SelectSeq(arrived, LAMBDA t : out[t].kind # "answer")
  IN  IF Addresses = {} /\ bad # <<>>
      THEN [kind |-> out[bad[1]].kind, rcode |-> out[bad[1]].rcode] ELSE None

\* wrapLookupErr: what an error is reported as.
wrapLookupErr(e) ==
  IF e.kind = "rcode"
  THEN IF e.rcode = "NXDomain" THEN "notfound" ELSE IF e.rcode = "ServFail" THEN "temporary" ELSE "rcode"
  ELSE IF e.kind # "net" THEN e.kind ELSE IF ctx # "live" THEN ctx ELSE "net"

FirstError(e) == IF firstErr = None THEN e ELSE firstErr

LookupHost ==
  /\ result = None /\ Len(arrived) = 2
  /\ LET e == ErrorOf
         kept == IF e = None THEN firstErr ELSE FirstError(e)
     IN  /\ firstErr' = kept
         /\ IF Addresses # {}
            THEN /\ result' = [kind |-> "addrs", addrs |-> Addresses, cand |-> cand]
                 /\ UNCHANGED <<cand, pc, srv, att, held, sink, out, arrived, tries, lame>>
            ELSE IF cand < Len(candidateNames(host))
            THEN /\ cand' = cand + 1
                 /\ pc' = Each("start") /\ srv' = Each(1) /\ att' = Each(1) /\ held' = Each(None)
                 /\ sink' = Each(None) /\ out' = Each(None) /\ arrived' = <<>>
                 /\ tries' = Each(NoTries) /\ lame' = Each({}) /\ UNCHANGED result
            ELSE /\ result' = [kind |-> IF kept = None THEN "notfound" ELSE wrapLookupErr(kept),
                               addrs |-> {}, cand |-> cand]
                 /\ UNCHANGED <<cand, pc, srv, att, held, sink, out, arrived, tries, lame>>
  /\ UNCHANGED <<host, ctx>>

Next ==
  \/ \E t \in Types :
       \/ specialUseAnswer(t) \/ resolve(t) \/ ExchangeFails(t)
       \/ \E m \in Responses : UDPResponds(t, m) \/ TCPResponds(t, m)
  \/ \E how \in {"canceled", "timeout"} : Cancel(how)
  \/ LookupHost

Spec == Init /\ [][Next]_vars
-----------------------------------------------------------------------------
(* Properties. *)

\* "falling over to the next on transport failure ... AND on the lame-server RCODEs
\* SERVFAIL and REFUSED" (resolver.go:160-163): a Resolve whose caller has not left
\* fails, or returns a lame response, only after every server was tried, each as
\* often as configured or until it answered.
AllServersTried ==
  \A t \in Types : out[t] # None /\ Name \notin DOMAIN Special =>
    (out[t].live /\ (out[t].kind = "net" \/ out[t].rcode \in {"ServFail", "Refused"})
       => \A s \in DOMAIN Servers :
            tries[t][s] = Attempts \/ (tries[t][s] > 0 /\ s \in lame[t]))
=============================================================================
