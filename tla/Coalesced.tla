------------------------------ MODULE Coalesced ------------------------------
(* What a coalescing query path promises the upstream it talks to: at most   *)
(* one exchange under way per question, and, when the limit is positive, at  *)
(* most Limit of them in all.  Nothing is promised about who asked.          *)
EXTENDS Integers, FiniteSets

CONSTANTS Calls, Questions, Limit

VARIABLE busy   \* the exchanges under way: each a call and its question

Init == busy = {}

Begin(c, q) ==
  /\ \A x \in busy : x[1] # c /\ x[2] # q
  /\ Limit > 0 => Cardinality(busy) < Limit
  /\ busy' = busy \cup {<<c, q>>}

End(c, q) == <<c, q>> \in busy /\ busy' = busy \ {<<c, q>>}

Next == \E c \in Calls, q \in Questions : Begin(c, q) \/ End(c, q)

Spec == Init /\ [][Next]_busy
=============================================================================
