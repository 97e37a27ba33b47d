------------------------------ MODULE DNSCrypt ------------------------------
(* The DNSCrypt server (dnscrypt/server.go) and client (dnscrypt.go): the     *)
(* read loop, a goroutine per packet, the key material Rotate swaps under     *)
(* them, the replay cache, and clients that hold the certificate of some      *)
(* material.  The network may lose, repeat and delay every datagram.  What is *)
(* sealed under a shared key is a record that names the two keys.             *)
EXTENDS Integers, FiniteSets, Sequences

CONSTANTS
  Clients,      \* exchanges, each with a key pair and a nonce of its own
  Certs,        \* id -> [magic, sk, from, until]
  Workers,      \* bound: goroutines at a time
  MaxInflight, ReplayWindow, ReplayMax, ClockSkew,
  MaxClock,     \* bound: the last moment
  None

VARIABLES
  clock, ctx, socket,
  loop,         \* "reading", "draining", "done"
  material,     \* the active certificate, with its secret key
  worker,       \* each goroutine: the packet, where it is, what it loaded
  replay,       \* (client key, nonce) -> when it was seen
  cert, sent,   \* each client's certificate; whether it has asked
  replies,      \* what the server sealed for each client
  answer,       \* what each client returned
  handled       \* history: when each query the handler was given passed the replay cache

vars == <<clock, ctx, socket, loop, material, worker, replay, cert, sent, replies, answer, handled>>

Free == [at |-> "free"]
Busy == {w \in Workers : worker[w] # Free}

certWithinWindow(id) ==
  LET skew == IF ClockSkew < 0 THEN 0 ELSE ClockSkew
  IN  Certs[id].from - skew <= clock /\ clock <= Certs[id].until + skew

Init ==
  /\ clock = 0 /\ ctx = "live" /\ socket = "open" /\ loop = "reading"
  /\ material \in {id \in DOMAIN Certs : certWithinWindow(id)}
  /\ worker = [w \in Workers |-> Free] /\ replay = [c \in {} |-> 0]
  /\ cert \in [Clients -> DOMAIN Certs] /\ sent = {}
  /\ replies = [c \in Clients |-> {}]
  /\ answer = [c \in Clients |-> None] /\ handled = [c \in Clients |-> <<>>]
-----------------------------------------------------------------------------
(* The client. *)

Encrypt(c) == [magic |-> Certs[cert[c]].magic, client |-> c, to |-> Certs[cert[c]].sk]

Exchange(c) ==
  /\ c \notin sent /\ answer[c] = None
  /\ IF certWithinWindow(cert[c]) THEN sent' = sent \cup {c} /\ UNCHANGED answer
     ELSE answer' = [answer EXCEPT ![c] = "expired"] /\ UNCHANGED sent
  /\ UNCHANGED <<clock, ctx, socket, loop, material, worker, replay, cert, replies, handled>>

\* Decrypt: the client's nonce must come back, under the key it asked with.
Decrypt(c, r) == IF r.client = c /\ r.sk = Certs[cert[c]].sk THEN "ok" ELSE "error"

ReceiveReply(c) ==
  /\ c \in sent /\ answer[c] = None
  /\ \E r \in replies[c] : answer' = [answer EXCEPT ![c] = Decrypt(c, r)]
  /\ UNCHANGED <<clock, ctx, socket, loop, material, worker, replay, cert, sent, replies, handled>>

ReadTimesOut(c) ==
  /\ c \in sent /\ answer[c] = None /\ answer' = [answer EXCEPT ![c] = "timeout"]
  /\ UNCHANGED <<clock, ctx, socket, loop, material, worker, replay, cert, sent, replies, handled>>
-----------------------------------------------------------------------------
(* The server. *)

\* run: a packet is given a slot if it has the active magic and one is free.
Admitted(p) == p.magic = Certs[material].magic
               /\ (MaxInflight > 0 => Cardinality(Busy) < MaxInflight)

Read(c) ==
  /\ loop = "reading" /\ socket = "open" /\ c \in sent
  /\ LET p == Encrypt(c)
     IN  IF Admitted(p)
         THEN \E w \in Workers \ Busy :
                worker' = [worker EXCEPT ![w] = [at |-> "load", p |-> p, mat |-> None, since |-> None]]
         ELSE UNCHANGED worker
  /\ UNCHANGED <<clock, ctx, socket, loop, material, replay, cert, sent, replies, answer, handled>>

\* A closed socket, or a read error.
ReadFails ==
  /\ loop = "reading" /\ loop' = "draining"
  /\ UNCHANGED <<clock, ctx, socket, material, worker, replay, cert, sent, replies, answer, handled>>

End(w) == worker' = [worker EXCEPT ![w] = Free]

\* handlePacket takes the material once and looks at the magic again.
handlePacket(w) ==
  /\ worker[w].at = "load"
  /\ IF worker[w].p.magic # Certs[material].magic THEN End(w)
     ELSE worker' = [worker EXCEPT ![w].at = "replay", ![w].mat = material]
  /\ UNCHANGED <<clock, ctx, socket, loop, material, replay, cert, sent, replies, answer, handled>>

\* replayCache.seen; at the limit what has expired goes, and the oldest entry.
Live(c) == replay[c] > clock - ReplayWindow
Swept ==
  IF Cardinality(DOMAIN replay) < ReplayMax THEN DOMAIN replay
  ELSE {c \in DOMAIN replay : Live(c)}
Evicted ==
  LET old == {c \in Swept : replay[c] < clock /\ \A d \in Swept : replay[c] <= replay[d]}
  IN  IF Cardinality(Swept) < ReplayMax \/ old = {} THEN {Swept}
      ELSE {Swept \ {c} : c \in old}

seen(w) ==
  /\ worker[w].at = "replay"
  /\ LET c == worker[w].p.client
     IN  IF c \in DOMAIN replay /\ Live(c) THEN End(w) /\ UNCHANGED replay
         ELSE /\ \E kept \in Evicted :
                   replay' = [d \in kept \cup {c} |-> IF d = c THEN clock ELSE replay[d]]
              /\ worker' = [worker EXCEPT ![w].at = "open", ![w].since = clock]
  /\ UNCHANGED <<clock, ctx, socket, loop, material, cert, sent, replies, answer, handled>>

\* What was sealed to another key does not open; the handler is called.
Open(w) ==
  /\ worker[w].at = "open"
  /\ IF worker[w].p.to # Certs[worker[w].mat].sk THEN End(w) /\ UNCHANGED handled
     ELSE /\ worker' = [worker EXCEPT ![w].at = "handler"]
          /\ handled' = [handled EXCEPT ![worker[w].p.client] = Append(@, worker[w].since)]
  /\ UNCHANGED <<clock, ctx, socket, loop, material, replay, cert, sent, replies, answer>>

\* The handler replies with the AEAD of the packet's key, or returns without.
Seal_Active(w) == [client |-> worker[w].p.client, sk |-> Certs[material].sk]
Seal(w) == [client |-> worker[w].p.client, sk |-> Certs[worker[w].mat].sk]

WriteMsg(w, reply) ==
  /\ worker[w].at = "handler"
  /\ replies' = IF reply /\ socket = "open"
                THEN [replies EXCEPT ![worker[w].p.client] = @ \cup {Seal(w)}] ELSE replies
  /\ End(w)
  /\ UNCHANGED <<clock, ctx, socket, loop, material, replay, cert, sent, answer, handled>>

Rotate(id) ==
  /\ certWithinWindow(id) /\ material' = id
  /\ UNCHANGED <<clock, ctx, socket, loop, worker, replay, cert, sent, replies, answer, handled>>

Cancel ==
  /\ ctx = "live" /\ ctx' = "done"
  /\ UNCHANGED <<clock, socket, loop, material, worker, replay, cert, sent, replies, answer, handled>>

Watch ==
  /\ ctx = "done" /\ socket = "open" /\ loop # "done" /\ socket' = "closed"
  /\ UNCHANGED <<clock, ctx, loop, material, worker, replay, cert, sent, replies, answer, handled>>

Done ==
  /\ loop = "draining" /\ Busy = {} /\ loop' = "done"
  /\ UNCHANGED <<clock, ctx, socket, material, worker, replay, cert, sent, replies, answer, handled>>

Tick ==
  /\ clock < MaxClock /\ clock' = clock + 1
  /\ UNCHANGED <<ctx, socket, loop, material, worker, replay, cert, sent, replies, answer, handled>>

Next ==
  \/ \E c \in Clients : Exchange(c) \/ ReceiveReply(c) \/ ReadTimesOut(c) \/ Read(c)
  \/ \E w \in Workers : handlePacket(w) \/ seen(w) \/ Open(w)
                        \/ \E reply \in BOOLEAN : WriteMsg(w, reply)
  \/ \E id \in DOMAIN Certs : Rotate(id)
  \/ ReadFails \/ Cancel \/ Watch \/ Done \/ Tick

Spec == Init /\ [][Next]_vars
-----------------------------------------------------------------------------
\* Whatever is rotated while a packet is handled, a reply opens with the
\* certificate its client asked with: certificate and key are swapped together
\* and taken once (server.go's keyMaterial).
RepliesOpen == \A c \in Clients : \A r \in replies[c] : Decrypt(c, r) = "ok"

\* A datagram the network repeats reaches the handler once within the window,
\* while the cache has room for every client.
HandledOnce ==
  Cardinality(Clients) <= ReplayMax =>
    \A c \in Clients : \A i, j \in DOMAIN handled[c] :
      i = j \/ handled[c][i] - handled[c][j] >= ReplayWindow
            \/ handled[c][j] - handled[c][i] >= ReplayWindow

\* Done means that no packet is being handled.
DoneIsFinal == loop = "done" => Busy = {}
=============================================================================
