---------------------------- MODULE MCForwarder ----------------------------
(* Small instances of Forwarder for TLC. *)
EXTENDS Forwarder, TLC

CONSTANTS na, nb   \* two (name, type) pairs

MCNames == {na, nb}

Ask(n, d) == [qr |-> FALSE, opcode |-> "QUERY", qdcount |-> 1, in |-> TRUE,
              rd |-> TRUE, name |-> n, do |-> d]

\* One question with and without DO, a second question, one query per gate.
MCQueries == {Ask(na, FALSE), Ask(na, TRUE), [Ask(na, FALSE) EXCEPT !.qr = TRUE]}

MCGated ==
  {Ask(na, FALSE),
   [Ask(na, FALSE) EXCEPT !.qr = TRUE],
   [Ask(na, FALSE) EXCEPT !.qdcount = 0],
   [Ask(na, FALSE) EXCEPT !.opcode = "STATUS", !.qdcount = 2],
   [Ask(na, FALSE) EXCEPT !.in = FALSE],
   [Ask(na, FALSE) EXCEPT !.rd = FALSE]}

Positive == [rcode |-> "NoError", answers |-> TRUE, ttl |-> 1, soa |-> <<>>]
NoData == [rcode |-> "NoError", answers |-> FALSE, ttl |-> 1, soa |-> <<2, 1>>]
Name_Error == [rcode |-> "NXDomain", answers |-> FALSE, ttl |-> 0, soa |-> <<>>]
Broken == [rcode |-> "ServFail", answers |-> FALSE, ttl |-> 0, soa |-> <<>>]

\* A name error whose SOA forbids caching it.
Uncacheable == [Name_Error EXCEPT !.soa = <<1, 0>>]

MCNegative == {NoData, Uncacheable}

MCResponses == {Positive, Broken}

Symmetry == Permutations(Requests) \cup Permutations(Calls)
=============================================================================
