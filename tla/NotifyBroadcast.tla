-------------------------- MODULE NotifyBroadcast ---------------------------
(* The NOTIFY client (notify/notify.go): Broadcast sends to every secondary  *)
(* at once and gathers one result each; a signed NOTIFY takes only a         *)
(* response signed over its own MAC.                                         *)
EXTENDS TransactionAuth, FiniteSets

CONSTANTS
  Secondaries,  \* a sequence of their keys, NoTSIG for one that does not sign
  Keys,         \* the keys the caller may have, NoTSIG for none
  Now, Fudge,
  NoResult

VARIABLES
  key,          \* the caller's key
  pc,           \* each Send: "exchange", "sent" (its slot is in the channel), "read"
  slots,        \* the channel: a sequence of [idx, resp, err]
  results       \* what Broadcast has gathered

vars == <<key, pc, slots, results>>

Init ==
  /\ key \in Keys
  /\ pc = [i \in DOMAIN Secondaries |-> "exchange"] /\ slots = <<>>
  /\ results = [i \in DOMAIN Secondaries |-> NoResult]

\* The request of the i-th Send, and the MAC signMessage takes out of it.
signMessage(i) ==
  LET q == [id |-> i, body |-> "notify", extra |-> <<>>]
  IN  IF key = NoTSIG THEN [msg |-> q, mac |-> NoTSIG] ELSE Sign(q, key, Now, Fudge)

verifyResponseTSIG(resp, mac) ==
  IF ~messageHasTSIG(resp) THEN "missing" ELSE VerifyResponse(resp, key, mac, Now, Fudge).err

\* A secondary acknowledges a request, signing if it has a key and the request did.
Acknowledge(i, q, mac) ==
  LET ack == [id |-> q.id, body |-> "ack", extra |-> <<>>]
  IN  IF Secondaries[i] = NoTSIG \/ mac = NoTSIG THEN ack
      ELSE SignResponse(ack, Secondaries[i], mac, Now, Fudge).msg

Put(i, resp, err) ==
  /\ slots' = Append(slots, [idx |-> i, resp |-> resp, err |-> err])
  /\ pc' = [pc EXCEPT ![i] = "sent"]

\* Send: the exchange ends with a response or without.
Send(i) ==
  /\ pc[i] = "exchange"
  /\ LET q == signMessage(i)
         resp == Acknowledge(i, q.msg, q.mac)
         err == IF key = NoTSIG THEN "none" ELSE verifyResponseTSIG(resp, q.mac)
     IN  Put(i, IF err = "none" THEN resp ELSE NoResult, err)
  /\ UNCHANGED <<key, results>>

\* The exchange fails, or ends with the context.
SendFails(i) ==
  /\ pc[i] = "exchange" /\ Put(i, NoResult, "exchange")
  /\ UNCHANGED <<key, results>>

Broadcast ==
  /\ slots # <<>>
  /\ LET s == Head(slots)
     IN  /\ results' = [results EXCEPT ![s.idx] = [ex |-> s.idx, resp |-> s.resp, err |-> s.err]]
         /\ pc' = [pc EXCEPT ![s.idx] = "read"]
  /\ slots' = Tail(slots) /\ UNCHANGED key

Next == (\E i \in DOMAIN Secondaries : Send(i) \/ SendFails(i)) \/ Broadcast

Spec == Init /\ [][Next]_vars
-----------------------------------------------------------------------------
(* Properties. *)

\* "returns one Result per exchanger, in the order supplied" (notify.go:167-168): a
\* result is its secondary's own response, and with a key only one signed with it.
ResultsInPlace ==
  \A i \in DOMAIN Secondaries : results[i] # NoResult =>
    /\ results[i].ex = i
    /\ results[i].err = "none" => results[i].resp.id = i /\ key \in {NoTSIG, Secondaries[i]}
=============================================================================
