------------------------- MODULE StubResolverProofs -------------------------
(* The stub resolver's failover, for any number of servers and attempts, any *)
(* responses and any search list.                                            *)
EXTENDS StubResolver, TLAPS

\* A server has been tried as often as configured, or until it answered lame.
TriedOut(t, s) == tries[t][s] = Attempts \/ (tries[t][s] > 0 /\ s \in lame[t])

\* What a Resolve returns blames the servers only when all were tried.
Blames(t) ==
  out[t] # None /\ Name \notin DOMAIN Special =>
    (out[t].live /\ (out[t].kind = "net" \/ out[t].rcode \in {"ServFail", "Refused"})
       => \A s \in DOMAIN Servers : TriedOut(t, s))

\* Where a Resolve stands: the servers before the one it asks are tried out, and
\* the ones after it untried.
ResolveInv(t) ==
  /\ pc[t] # "done" => out[t] = None
  /\ pc[t] = "start" => srv[t] = 1 /\ att[t] = 1 /\ \A s \in 1 .. Len(Servers) : tries[t][s] = 0
  /\ pc[t] \in {"udp", "tcp"} =>
       /\ tries[t][srv[t]] = att[t]
       /\ \A s \in 1 .. Len(Servers) :
            (s < srv[t] => TriedOut(t, s)) /\ (s > srv[t] => tries[t][s] = 0)
  /\ Blames(t)

StubTypes ==
  /\ pc \in [Types -> {"start", "udp", "tcp", "done"}]
  /\ srv \in [Types -> 1 .. Len(Servers)] /\ att \in [Types -> 1 .. Attempts]
  /\ tries \in [Types -> [1 .. Len(Servers) -> Nat]]
  /\ lame \in [Types -> SUBSET (1 .. Len(Servers))]
  /\ out = [t \in Types |-> out[t]]

StubInv == StubTypes /\ \A t \in Types : ResolveInv(t)

\* Servers are numbered from 1.
LEMMA ServerNumbers ==
  ASSUME StubAssumption
  PROVE
  /\ Len(Servers) \in Nat \ {0} /\ DOMAIN Servers = 1 .. Len(Servers)
  /\ 1 \in 1 .. Len(Servers) /\ 1 \in 1 .. Attempts
BY DEF StubAssumption

\* A lookup starts with nothing tried.
LEMMA StubInit == StubAssumption /\ Init => StubInv
BY ServerNumbers
DEF StubAssumption, Init, Each, NoTries, StubInv, StubTypes, ResolveInv, Blames

\* A step of one Resolve leaves the other one alone.
StubFrame(t) ==
  /\ pc' = [pc EXCEPT ![t] = pc'[t]] /\ srv' = [srv EXCEPT ![t] = srv'[t]]
  /\ att' = [att EXCEPT ![t] = att'[t]] /\ tries' = [tries EXCEPT ![t] = tries'[t]]
  /\ lame' = [lame EXCEPT ![t] = lame'[t]] /\ out' = [out EXCEPT ![t] = out'[t]]
  /\ UNCHANGED <<host, cand>>

LEMMA StubMoves ==
  ASSUME StubAssumption, StubInv, NEW t \in Types, StubFrame(t), ResolveInv(t)',
         pc'[t] \in {"start", "udp", "tcp", "done"},
         srv'[t] \in 1 .. Len(Servers), att'[t] \in 1 .. Attempts,
         tries'[t] \in [1 .. Len(Servers) -> Nat], lame'[t] \in SUBSET (1 .. Len(Servers))
  PROVE  StubInv'
<1>1. StubTypes'
  BY DEF StubInv, StubTypes, StubFrame
<1>2. ASSUME NEW u \in Types, u # t PROVE ResolveInv(u)'
  <2>1. /\ pc'[u] = pc[u] /\ srv'[u] = srv[u] /\ att'[u] = att[u] /\ tries'[u] = tries[u]
        /\ lame'[u] = lame[u] /\ out'[u] = out[u] /\ Name' = Name
    BY <1>2 DEF StubInv, StubTypes, StubFrame, Name, candidateNames
  <2>2. ResolveInv(u)
    BY DEF StubInv
  <2>. QED BY <2>1, <2>2 DEF ResolveInv, Blames, TriedOut
<1>. QED BY <1>1, <1>2 DEF StubInv

\* One more try of a server.
LEMMA Asks ==
  ASSUME StubAssumption, StubInv, NEW t \in Types, Ask(t), srv'[t] \in 1 .. Len(Servers)
  PROVE  /\ pc' = [pc EXCEPT ![t] = pc'[t]] /\ pc'[t] = "udp"
         /\ tries' = [tries EXCEPT ![t] = tries'[t]]
         /\ tries'[t] \in [1 .. Len(Servers) -> Nat]
         /\ tries'[t][srv'[t]] = tries[t][srv'[t]] + 1
         /\ \A s \in 1 .. Len(Servers) : s # srv'[t] => tries'[t][s] = tries[t][s]
BY DEF Ask, StubInv, StubTypes

\* The first try, from the start.
LEMMA FirstTry ==
  ASSUME StubAssumption, StubInv, NEW t \in Types, resolve(t)
  PROVE  StubInv'
<1>1. /\ pc[t] = "start" /\ Ask(t)
      /\ UNCHANGED <<srv, host, cand, att, out, lame>>
  BY DEF resolve
<1>2. StubTypes /\ ResolveInv(t) /\ srv'[t] \in 1 .. Len(Servers)
  BY <1>1 DEF StubInv, StubTypes
<1>3. /\ pc' = [pc EXCEPT ![t] = pc'[t]] /\ pc'[t] = "udp"
      /\ tries' = [tries EXCEPT ![t] = tries'[t]]
      /\ tries'[t] \in [1 .. Len(Servers) -> Nat]
      /\ tries'[t][srv'[t]] = tries[t][srv'[t]] + 1
      /\ \A s \in 1 .. Len(Servers) : s # srv'[t] => tries'[t][s] = tries[t][s]
  BY <1>1, <1>2, Asks
<1>4. StubFrame(t)
  BY <1>1, <1>2, <1>3 DEF StubTypes, StubFrame
<1>5. ResolveInv(t)'
  <2>1. out'[t] = None /\ tries'[t][srv'[t]] = att'[t]
    BY <1>1, <1>2, <1>3 DEF ResolveInv
  <2>2. ASSUME NEW s \in 1 .. Len(Servers) PROVE s >= srv'[t] /\ (s > srv'[t] => tries'[t][s] = 0)
    BY <1>1, <1>2, <1>3 DEF ResolveInv
  <2>. QED BY <1>2, <1>3, <2>1, <2>2, ServerNumbers DEF ResolveInv, Blames
<1>. QED BY <1>1, <1>2, <1>3, <1>4, <1>5, StubMoves DEF StubTypes

\* What a Resolve returns, and that it is over.
LEMMA Ends ==
  ASSUME StubAssumption, StubInv, NEW t \in Types, NEW o, Returned(t, o), Blames(t)',
         UNCHANGED <<host, cand, srv, att, tries>>,
         lame' = [lame EXCEPT ![t] = lame'[t]], lame'[t] \in SUBSET (1 .. Len(Servers))
  PROVE  StubInv'
<1>1. /\ pc' = [pc EXCEPT ![t] = pc'[t]] /\ pc'[t] = "done"
      /\ out' = [out EXCEPT ![t] = out'[t]]
  BY DEF Returned, StubInv, StubTypes
<1>2. StubFrame(t) /\ StubTypes
  BY <1>1 DEF StubFrame, StubInv, StubTypes
<1>3. ResolveInv(t)'
  BY <1>1 DEF ResolveInv
<1>. QED BY <1>1, <1>2, <1>3, StubMoves DEF StubTypes

\* Another try of the same server.
LEMMA TriesAgain ==
  ASSUME StubAssumption, StubInv, NEW t \in Types, Ask(t), pc[t] \in {"udp", "tcp"}, att[t] < Attempts,
         att' = [att EXCEPT ![t] = @ + 1], UNCHANGED <<host, cand, srv, lame, out>>
  PROVE  StubInv'
<1>1. StubTypes /\ ResolveInv(t) /\ srv'[t] \in 1 .. Len(Servers) /\ srv'[t] = srv[t]
  BY DEF StubInv, StubTypes
<1>2. /\ pc' = [pc EXCEPT ![t] = pc'[t]] /\ pc'[t] = "udp"
      /\ tries' = [tries EXCEPT ![t] = tries'[t]]
      /\ tries'[t] \in [1 .. Len(Servers) -> Nat]
      /\ tries'[t][srv'[t]] = tries[t][srv'[t]] + 1
      /\ \A s \in 1 .. Len(Servers) : s # srv'[t] => tries'[t][s] = tries[t][s]
  BY <1>1, Asks
<1>3. att' = [att EXCEPT ![t] = att'[t]] /\ att'[t] = att[t] + 1 /\ att'[t] \in 1 .. Attempts
  BY <1>1 DEF StubAssumption, StubTypes
<1>4. StubFrame(t)
  BY <1>1, <1>2, <1>3 DEF StubTypes, StubFrame
<1>5. ResolveInv(t)'
  <2>1. out'[t] = None /\ tries'[t][srv'[t]] = att'[t]
    BY <1>1, <1>2, <1>3 DEF ResolveInv
  <2>2. ASSUME NEW s \in 1 .. Len(Servers)
        PROVE  (s < srv'[t] => TriedOut(t, s)') /\ (s > srv'[t] => tries'[t][s] = 0)
    <3>1. s # srv[t] => tries'[t][s] = tries[t][s]
      BY <1>1, <1>2
    <3>2. (s < srv[t] => TriedOut(t, s)) /\ (s > srv[t] => tries[t][s] = 0)
      BY <1>1 DEF ResolveInv
    <3>3. srv[t] \in Nat /\ s \in Nat
      BY <1>1, ServerNumbers
    <3>. QED BY <1>1, <3>1, <3>2, <3>3 DEF TriedOut
  <2>. QED BY <1>2, <2>1, <2>2 DEF ResolveInv, Blames
<1>. QED BY <1>1, <1>2, <1>3, <1>4, <1>5, StubMoves DEF StubTypes

\* The next server, once the one asked is tried out; after the last one, all are.
LEMMA FailsOver ==
  ASSUME StubAssumption, StubInv, NEW t \in Types, NEW kept, NextServer(t, kept), pc[t] \in {"udp", "tcp"},
         UNCHANGED <<host, cand>>,
         lame' = [lame EXCEPT ![t] = lame'[t]], lame'[t] \in SUBSET (1 .. Len(Servers)),
         lame[t] \subseteq lame'[t], tries[t][srv[t]] = Attempts \/ srv[t] \in lame'[t]
  PROVE  StubInv'
<1>1. StubTypes /\ ResolveInv(t) /\ srv[t] \in 1 .. Len(Servers) /\ tries[t][srv[t]] > 0
  BY SMTT(30) DEF StubAssumption, StubInv, StubTypes, ResolveInv
<1>2. ASSUME NEW s \in 1 .. Len(Servers), s <= srv[t]
      PROVE  tries[t][s] = Attempts \/ (tries[t][s] > 0 /\ s \in lame'[t])
  BY <1>1, <1>2 DEF ResolveInv, TriedOut
<1>3. CASE srv[t] < Len(Servers)
  <2>1. /\ srv' = [srv EXCEPT ![t] = srv[t] + 1] /\ att' = [att EXCEPT ![t] = 1]
        /\ Ask(t) /\ UNCHANGED out
    BY <1>3 DEF NextServer
  <2>2. /\ srv' = [srv EXCEPT ![t] = srv'[t]] /\ srv'[t] = srv[t] + 1
        /\ att' = [att EXCEPT ![t] = att'[t]] /\ att'[t] = 1 /\ out' = [out EXCEPT ![t] = out'[t]]
        /\ srv'[t] \in 1 .. Len(Servers)
    BY <1>1, <1>3, <2>1, ServerNumbers DEF StubTypes
  <2>3. /\ pc' = [pc EXCEPT ![t] = pc'[t]] /\ pc'[t] = "udp"
        /\ tries' = [tries EXCEPT ![t] = tries'[t]]
        /\ tries'[t] \in [1 .. Len(Servers) -> Nat]
        /\ tries'[t][srv'[t]] = tries[t][srv'[t]] + 1
        /\ \A s \in 1 .. Len(Servers) : s # srv'[t] => tries'[t][s] = tries[t][s]
    BY <2>1, <2>2, Asks
  <2>4. StubFrame(t)
    BY <2>2, <2>3 DEF StubFrame
  <2>5. tries'[t][srv'[t]] = att'[t] /\ out'[t] = None
    BY <1>1, <2>1, <2>2, <2>3 DEF ResolveInv
  <2>6. ASSUME NEW s \in 1 .. Len(Servers)
        PROVE  (s < srv'[t] => TriedOut(t, s)') /\ (s > srv'[t] => tries'[t][s] = 0)
    <3>1. CASE s < srv'[t]
      <4>1. s <= srv[t] /\ tries'[t][s] = tries[t][s]
        BY <1>1, <2>2, <2>3, <3>1
      <4>2. tries[t][s] = Attempts \/ (tries[t][s] > 0 /\ s \in lame'[t])
        BY <1>2, <4>1
      <4>. QED BY <2>2, <3>1, <4>1, <4>2 DEF TriedOut
    <3>2. CASE s > srv'[t]
      BY <1>1, <2>2, <2>3, <3>2 DEF ResolveInv
    <3>. QED BY <1>1, <2>2, <3>1, <3>2
  <2>7. ResolveInv(t)'
    BY <2>2, <2>3, <2>5, <2>6 DEF ResolveInv, Blames
  <2>. QED BY <2>2, <2>3, <2>4, <2>7, ServerNumbers, StubMoves
<1>4. CASE ~(srv[t] < Len(Servers))
  <2>1. UNCHANGED <<srv, att, tries>> /\ \E o : Returned(t, o)
    BY <1>4 DEF NextServer, wrapRCode, Failed
  <2>2. \A s \in 1 .. Len(Servers) : s <= srv[t]
    BY <1>1, <1>4, ServerNumbers
  <2>3. Blames(t)'
    BY <1>2, <2>1, <2>2, ServerNumbers DEF Blames, TriedOut
  <2>. QED BY <2>1, <2>3, Ends
<1>. QED BY <1>3, <1>4

\* A response: a lame one sends the Resolve on, any other ends it.
LEMMA Succeeds ==
  ASSUME StubAssumption, StubInv, NEW t \in Types, NEW m, Success(t, m), pc[t] \in {"udp", "tcp"},
         UNCHANGED <<host, cand>>
  PROVE  StubInv'
<1>1. StubTypes /\ ResolveInv(t) /\ srv[t] \in 1 .. Len(Servers) /\ tries[t][srv[t]] > 0
  BY DEF StubAssumption, StubInv, StubTypes, ResolveInv
<1>2. /\ lame' = [lame EXCEPT ![t] = lame'[t]] /\ lame'[t] \in SUBSET (1 .. Len(Servers))
      /\ lame[t] \subseteq lame'[t]
      /\ m.rcode \in {"ServFail", "Refused"} => srv[t] \in lame'[t]
  BY <1>1 DEF Success, StubTypes
<1>3. CASE Len(Servers) > 1 /\ isRetryableRCODE(m.rcode)
  <2>1. NextServer(t, m) /\ srv[t] \in lame'[t]
    BY <1>2, <1>3 DEF Success, isRetryableRCODE
  <2>. QED BY <1>2, <2>1, FailsOver
<1>4. CASE ~(Len(Servers) > 1 /\ isRetryableRCODE(m.rcode))
  <2>1. wrapRCode(t, m) /\ UNCHANGED <<srv, att, tries>>
    BY <1>4 DEF Success
  <2>2. \E o : Returned(t, o)
    BY <2>1 DEF wrapRCode
  <2>3. out'[t].kind # "net" /\ out'[t].rcode = m.rcode
    BY <1>1, <2>1 DEF wrapRCode, Returned, StubTypes
  <2>4. CASE m.rcode \in {"ServFail", "Refused"}
    <3>1. \A s \in 1 .. Len(Servers) : s = srv[t]
      BY <1>1, <1>4, <2>4, ServerNumbers DEF isRetryableRCODE
    <3>2. Blames(t)'
      BY <1>1, <1>2, <2>1, <2>4, <3>1, ServerNumbers DEF Blames, TriedOut
    <3>. QED BY <1>2, <2>1, <2>2, <3>2, Ends
  <2>5. CASE m.rcode \notin {"ServFail", "Refused"}
    <3>1. Blames(t)'
      BY <2>3, <2>5 DEF Blames
    <3>. QED BY <1>2, <2>1, <2>2, <3>1, Ends
  <2>. QED BY <2>4, <2>5
<1>. QED BY <1>3, <1>4

\* A failed try: the caller has left, or the same server or the next is tried.
LEMMA Fails ==
  ASSUME StubAssumption, StubInv, NEW t \in Types, Failure(t), pc[t] \in {"udp", "tcp"},
         UNCHANGED <<host, cand>>
  PROVE  StubInv'
<1>1. StubTypes /\ ResolveInv(t) /\ UNCHANGED lame
  BY DEF StubInv, Failure
<1>2. lame' = [lame EXCEPT ![t] = lame'[t]] /\ lame'[t] \in SUBSET (1 .. Len(Servers))
  BY <1>1 DEF StubTypes
<1>3. CASE GivesUp(t)
  <2>1. Failed(t) /\ UNCHANGED <<srv, att, tries>>
    BY <1>3 DEF Failure
  <2>2. (\E o : Returned(t, o)) /\ ~out'[t].live
    BY <1>1, <1>3, <2>1 DEF Failed, Returned, GivesUp, StubTypes
  <2>3. Blames(t)'
    BY <2>2 DEF Blames
  <2>. QED BY <1>2, <2>1, <2>2, <2>3, Ends
<1>4. CASE ~GivesUp(t) /\ att[t] < Attempts
  BY <1>4, TriesAgain DEF Failure
<1>5. CASE ~GivesUp(t) /\ ~(att[t] < Attempts)
  <2>1. NextServer(t, held[t])
    BY <1>5 DEF Failure
  <2>2. tries[t][srv[t]] = Attempts
    BY <1>1, <1>5 DEF StubAssumption, StubTypes, ResolveInv
  <2>. QED BY <1>1, <1>2, <2>1, <2>2, FailsOver
<1>. QED BY <1>3, <1>4, <1>5

\* The steps of a Resolve that has servers to ask.
LEMMA ExchangeStep ==
  ASSUME StubAssumption, StubInv, NEW t \in Types,
         ExchangeFails(t) \/ \E m \in Responses : UDPResponds(t, m) \/ TCPResponds(t, m)
  PROVE  StubInv'
<1>1. CASE ExchangeFails(t)
  BY <1>1, Fails DEF ExchangeFails
<1>2. ASSUME NEW m \in Responses, TCPResponds(t, m) PROVE StubInv'
  <2>1. pc[t] \in {"udp", "tcp"} /\ UNCHANGED <<host, cand>> /\ (Failure(t) \/ Success(t, m))
    BY <1>2 DEF TCPResponds
  <2>. QED BY <2>1, Fails, Succeeds
<1>3. ASSUME NEW m \in Responses, UDPResponds(t, m) PROVE StubInv'
  <2>1. pc[t] = "udp" /\ UNCHANGED <<host, cand>>
    BY <1>3 DEF UDPResponds
  <2>2. CASE m.tc
    <3>1. pc' = [pc EXCEPT ![t] = "tcp"] /\ UNCHANGED <<srv, att, out, tries, lame>>
      BY <1>3, <2>2 DEF UDPResponds
    <3>2. StubTypes /\ ResolveInv(t)
      BY DEF StubInv
    <3>3. StubFrame(t) /\ pc'[t] = "tcp"
      BY <2>1, <3>1, <3>2 DEF StubTypes, StubFrame
    <3>4. ResolveInv(t)'
      BY <2>1, <3>1, <3>2, <3>3 DEF ResolveInv, Blames, TriedOut
    <3>. QED BY <3>1, <3>2, <3>3, <3>4, StubMoves DEF StubTypes
  <2>3. CASE ~m.tc
    BY <1>3, <2>1, <2>3, Succeeds DEF UDPResponds
  <2>. QED BY <2>2, <2>3
<1>. QED BY <1>1, <1>2, <1>3

\* Names answered locally, the end of the context, and the lookup itself.
LEMMA LookupStep ==
  ASSUME StubAssumption, StubInv,
         \/ \E t \in Types : specialUseAnswer(t)
         \/ \E how \in {"canceled", "timeout"} : Cancel(how)
         \/ LookupHost
         \/ UNCHANGED vars
  PROVE  StubInv'
<1>1. ASSUME NEW t \in Types, specialUseAnswer(t) PROVE StubInv'
  <2>1. /\ Name \in DOMAIN Special /\ UNCHANGED <<host, cand, srv, att, tries, lame>>
        /\ \E o : Returned(t, o)
    BY <1>1 DEF specialUseAnswer, wrapRCode
  <2>2. Name' = Name
    BY <2>1 DEF Name, candidateNames
  <2>3. Blames(t)'
    BY <2>1, <2>2 DEF Blames
  <2>4. lame' = [lame EXCEPT ![t] = lame'[t]] /\ lame'[t] \in SUBSET (1 .. Len(Servers))
    BY <2>1 DEF StubInv, StubTypes
  <2>. QED BY <2>1, <2>3, <2>4, Ends
<1>2. CASE UNCHANGED <<host, cand, pc, srv, att, out, tries, lame>>
  <2>1. Name' = Name
    BY <1>2 DEF Name, candidateNames
  <2>. QED BY <1>2, <2>1 DEF StubInv, StubTypes, ResolveInv, Blames, TriedOut
<1>3. CASE /\ pc' = Each("start") /\ srv' = Each(1) /\ att' = Each(1) /\ out' = Each(None)
           /\ tries' = Each(NoTries) /\ lame' = Each({})
  BY <1>3, ServerNumbers
  DEF StubAssumption, Each, NoTries, StubInv, StubTypes, ResolveInv, Blames
<1>4. CASE LookupHost
  <2>1. \/ UNCHANGED <<host, cand, pc, srv, att, out, tries, lame>>
        \/ /\ pc' = Each("start") /\ srv' = Each(1) /\ att' = Each(1)
           /\ out' = Each(None) /\ tries' = Each(NoTries) /\ lame' = Each({})
    BY <1>4 DEF LookupHost
  <2>. QED BY <1>2, <1>3, <2>1
<1>. QED BY <1>1, <1>2, <1>4 DEF Cancel, vars

\* Every step of a lookup keeps the invariant.
LEMMA StubStep == StubAssumption /\ StubInv /\ [Next]_vars => StubInv'
BY FirstTry, ExchangeStep, LookupStep DEF Next

\* failover.Exchange and retryExchanger: a Resolve whose caller has not left fails,
\* or returns a lame response, only when every server was tried as often as
\* configured or until it answered, for any number of servers and attempts.
THEOREM ServersAreTried == StubAssumption /\ Spec => []AllServersTried
<1>. SUFFICES ASSUME StubAssumption PROVE Spec => []AllServersTried
  OBVIOUS
<1>2. Init => StubInv
  BY StubInit
<1>3. StubInv /\ [Next]_vars => StubInv'
  BY StubStep
<1>4. StubInv => AllServersTried
  BY ServerNumbers DEF StubInv, ResolveInv, Blames, TriedOut, AllServersTried
<1>. QED BY <1>2, <1>3, <1>4, PTL DEF Spec
=============================================================================
