--------------------------- MODULE TransactionAuth --------------------------
(* Signed messages: TSIG (tsig/tsig.go) and SIG(0) (sig0/sig0.go).  A MAC or *)
(* a signature is the term of what it was computed over, so that two are     *)
(* equal exactly when their inputs are; hmac, rsa and ecdsa are external.    *)
(* A message is [id, body, extra], extra being the additional records that   *)
(* matter: the sequence of signature records at its end.                     *)
EXTENDS Integers, Sequences, SequencesExt

CONSTANTS
  Algorithms,  \* TSIG: [name -> [size, sha1]]; size is that of a whole MAC
  MaxFudge,    \* 2^16 - 1 seconds in the code
  TimeMod,     \* SIG(0) times are taken modulo this; 2^32 in the code
  Rejected,    \* SIG(0): algorithms refused
  NoTSIG

Error(e) == [err |-> e, msg |-> NoTSIG, mac |-> NoTSIG, at |-> 0]
Half(n) == n \div 2
-----------------------------------------------------------------------------
(* TSIG. *)

minMACSize(alg) == Half(Algorithms[alg].size)

computeHMAC(key, input) == [secret |-> key.secret, alg |-> key.alg, over |-> input]
Usable(key) == key.alg \in DOMAIN Algorithms /\ (Algorithms[key.alg].sha1 => key.allowSHA1)

buildTSIGVars(name, alg, at, fudge) == <<name, alg, at, fudge>>

buildSigningInput_Unchained(m, name, alg, prior, at, fudge, timersOnly) ==
  [msg |-> m, prior |-> NoTSIG, vars |-> IF timersOnly THEN <<at, fudge>> ELSE buildTSIGVars(name, alg, at, fudge)]
buildSigningInput(m, name, alg, prior, at, fudge, timersOnly) ==
  [msg |-> m, prior |-> prior, vars |-> IF timersOnly THEN <<at, fudge>> ELSE buildTSIGVars(name, alg, at, fudge)]

buildTSIGRData(alg, at, fudge, mac, origID) ==
  [alg |-> alg, at |-> at, fudge |-> fudge, mac |-> mac, origID |-> origID]
appendTSIGRR(m, owner, rd) == [m EXCEPT !.extra = Append(@, [rd |-> rd, type |-> "TSIG", key |-> owner])]

\* signWithPrefix: a message with a TSIG record at its end.
signWithPrefix(m, key, prior, timersOnly, now, fudge) ==
  LET term == computeHMAC(key, buildSigningInput(m, key.name, key.alg, prior, now, fudge, timersOnly))
      mac == [term |-> term, len |-> Algorithms[key.alg].size]
  IN  IF fudge < 0 \/ fudge > MaxFudge \/ ~Usable(key) THEN Error("sign")
      ELSE [err |-> "none", mac |-> mac, at |-> now,
            msg |-> appendTSIGRR(m, key.name, buildTSIGRData(key.alg, now, fudge, mac, m.id))]

Sign(m, key, now, fudge) == signWithPrefix(m, key, NoTSIG, FALSE, now, fudge)
SignResponse(m, key, requestMAC, now, fudge) == signWithPrefix(m, key, requestMAC, FALSE, now, fudge)
SignAXFRChunk(m, key, priorMAC, now, fudge) == signWithPrefix(m, key, priorMAC, TRUE, now, fudge)

\* messageHasTSIG and hasTSIG of the clients: anywhere among the additionals.
messageHasTSIG(m) == \E i \in DOMAIN m.extra : m.extra[i].type = "TSIG"

\* Where the last record of a message is, 0 if it has none.
findLastRROffset(m) == Len(m.extra)

\* stripTSIG: the last record has to be the TSIG; the message before it.
stripTSIG(m) ==
  LET last == m.extra[findLastRROffset(m)]
  IN  IF m.extra = <<>> THEN Error("missing")
      ELSE IF last.type # "TSIG" THEN Error("missing")
      ELSE [err |-> "none", body |-> [m EXCEPT !.extra = Front(@)], tsig |-> last]

\* verifyWithPrefix: the MAC first, truncated to no less than its floor, then the time.
verifyWithPrefix(m, key, prior, timersOnly, now, fudge) ==
  LET stripped == stripTSIG(m)
      owner == stripped.tsig.key
      rr == stripped.tsig.rd
      body == [stripped.body EXCEPT !.id = rr.origID]
      term == computeHMAC(key, buildSigningInput(body, owner, rr.alg, prior, rr.at, rr.fudge, timersOnly))
  IN  IF stripped.err # "none" THEN stripped
      ELSE IF owner # key.name \/ rr.alg # key.alg THEN Error("key")
      ELSE IF key.alg \notin DOMAIN Algorithms THEN Error("algorithm")
      ELSE IF rr.mac.len < minMACSize(key.alg) THEN Error("truncation")
      ELSE IF ~Usable(key) THEN Error("sha1")
      ELSE IF rr.mac.len > Algorithms[key.alg].size \/ rr.mac.term # term THEN Error("signature")
      ELSE IF now - rr.at > fudge \/ rr.at - now > fudge THEN Error("time")
      ELSE [err |-> "none", msg |-> body, mac |-> rr.mac, at |-> rr.at]

VerifyMAC(m, key, now, fudge) == verifyWithPrefix(m, key, NoTSIG, FALSE, now, fudge)
VerifyResponse(m, key, requestMAC, now, fudge) ==
  IF requestMAC = NoTSIG THEN Error("prior") ELSE verifyWithPrefix(m, key, requestMAC, FALSE, now, fudge)
VerifyAXFRChunk(m, key, priorMAC, now, fudge) ==
  IF priorMAC = NoTSIG THEN Error("prior") ELSE verifyWithPrefix(m, key, priorMAC, TRUE, now, fudge)
-----------------------------------------------------------------------------
(* SIG(0): a key pair is its number, its tag and its algorithm. *)

\* sig0SerialLT: less than, in the arithmetic of serial numbers.
sig0SerialLT(a, b) == (a - b) % TimeMod >= Half(TimeMod)

buildSIGRDataPrefix(rr) == <<rr.alg, rr.expiration, rr.inception, rr.keyTag, rr.signer>>

appendSIGRR(m, rr, signature) ==
  [m EXCEPT !.extra = Append(@, [rr |-> rr, type |-> "SIG", owner |-> "root", class |-> "ANY",
                               signature |-> signature])]

\* External: the key holder's signFn.
signFn(key, data) == [by |-> key, over |-> data]

WithSIG(m, key, signer, inception, expiration) ==
  LET rr == [alg |-> key.alg, expiration |-> expiration, inception |-> inception,
             keyTag |-> key.tag, signer |-> signer]
  IN  appendSIGRR(m, rr, signFn(key, <<buildSIGRDataPrefix(rr), m>>))

\* Sign refuses to sign over the wrap of the clock; other implementations may do so.
SignSIG0(m, key, signer, now, validity) ==
  IF {now, now + validity} \subseteq 0 .. TimeMod - 1
  THEN [Error("none") EXCEPT !.msg = WithSIG(m, key, signer, now, now + validity)]
  ELSE Error("range")

\* stripSIG: the last record has to be a SIG of the root in class ANY; the message
\* before it.
stripSIG(m) ==
  LET last == m.extra[findLastRROffset(m)]
  IN  IF m.extra = <<>> THEN Error("missing")
      ELSE IF last.owner # "root" \/ last.type # "SIG" \/ last.class # "ANY" THEN Error("missing")
      ELSE [err |-> "none", body |-> [m EXCEPT !.extra = Front(@)], sig |-> last]

verifySignature(key, data, sig) == sig = signFn(key, data)

\* verifyExtractSIG: signer, algorithm and tag, the signature, and last the window.
verifyExtractSIG(m, key, expectedSigner, now) ==
  LET stripped == stripSIG(m)
      rr == stripped.sig.rr
      t == now % TimeMod
  IN  IF stripped.err # "none" THEN stripped
      ELSE IF rr.signer # expectedSigner THEN Error("signer")
      ELSE IF key.alg # rr.alg \/ rr.alg \in Rejected THEN Error("algorithm")
      ELSE IF key.tag # rr.keyTag THEN Error("key")
      ELSE IF ~verifySignature(key, <<buildSIGRDataPrefix(rr), stripped.body>>, stripped.sig.signature)
      THEN Error("signature")
      ELSE IF sig0SerialLT(rr.expiration, t) \/ sig0SerialLT(t, rr.inception) THEN Error("time")
      ELSE [err |-> "none", msg |-> stripped.body, mac |-> stripped.sig.signature, at |-> rr.inception]
-----------------------------------------------------------------------------
(* Properties. *)

\* A verifier takes a message if and only if it holds the key the message was signed
\* with, expects the MAC it was chained to, and looks at it within the fudge of the
\* time of signing; it then gives back the message as it was signed, whatever ID it
\* arrived under.
VerifiesWhatWasSigned(m, id, signing, verifying) ==
  LET s == signWithPrefix(m, signing.key, signing.prior, signing.timersOnly, signing.now, signing.fudge)
      v == verifyWithPrefix([s.msg EXCEPT !.id = id], verifying.key, verifying.prior,
                            verifying.timersOnly, verifying.now, verifying.fudge)
      apart == verifying.now - signing.now
  IN  s.err = "none" =>
        /\ v.err = "none" <=>
             /\ verifying.key = signing.key /\ verifying.prior = signing.prior
             /\ verifying.timersOnly = signing.timersOnly
             /\ apart <= verifying.fudge /\ -apart <= verifying.fudge
        /\ v.err = "none" => v.msg = m /\ v.mac = s.mac

\* A SIG(0) message is good from its inception to its expiration and at no other
\* time, across the wrap of the 32-bit clock, for windows shorter than half of it.
GoodWithinWindow(m, key, signer, inception, len, now) ==
  LET signed == WithSIG(m, key, signer, inception, (inception + len) % TimeMod)
      own == SignSIG0(m, key, signer, inception, len)
      good(v) == v.err = "none" /\ v.msg = m
  IN  /\ len < Half(TimeMod) =>
           (good(verifyExtractSIG(signed, key, signer, now)) <=> (now - inception) % TimeMod <= len)
      /\ own.err = "none" => good(verifyExtractSIG(own.msg, key, signer, inception + len))
=============================================================================
