-------------------------- MODULE MCStreamListener --------------------------
(* A small instance of StreamListener for TLC and, beside it, one of         *)
(* DoHServer, whose listener has the same caps: a behaviour takes the steps  *)
(* of one of them.                                                           *)
EXTENDS StreamListener, Sequences

CONSTANTS HConns, HSources, HStreams, HMaxConnections, HMaxConnsPerSource, HMaxRequestBytes,
          HRequests, HReplies                                        \* DoHServer

\* The configurations the DoH server accepts.
ASSUME DoHAssumption ==
  /\ IsFiniteSet(HConns) /\ None \notin HSources /\ None \notin HRequests
  /\ HMaxConnections \in Int /\ HMaxConnsPerSource \in Int

VARIABLES which,               \* the module whose steps a behaviour takes
          hctx, hlistener, accept, hsem, perSource, hconn, stream, shutdown, done

dohVars == <<hctx, hlistener, accept, hsem, perSource, hconn, stream, shutdown, done>>

H == INSTANCE DoHServer WITH Conns <- HConns, Sources <- HSources, Streams <- HStreams,
       MaxConnections <- HMaxConnections, MaxConnsPerSource <- HMaxConnsPerSource,
       MaxRequestBytes <- HMaxRequestBytes, Requests <- HRequests, Replies <- HReplies,
       ctx <- hctx, listener <- hlistener, sem <- hsem, conn <- hconn

\* Good requests of both methods, and one for each way to be refused.
Post(ctype, size) == [method |-> "POST", ctype |-> ctype, advertised |-> 1, size |-> size,
                      cut |-> FALSE, decodes |-> TRUE, dns |-> TRUE, preflight |-> "dispatch"]
Get(decodes, dns, to) == [method |-> "GET", ctype |-> TRUE, advertised |-> 0, size |-> 1,
                          cut |-> FALSE, decodes |-> decodes, dns |-> dns, preflight |-> to]
MCRequests == {Post(TRUE, 1), Post(FALSE, 1), Post(TRUE, 2), Get(TRUE, TRUE, "reply"),
               Get(TRUE, TRUE, "drop"), Get(FALSE, TRUE, "drop"), Get(TRUE, FALSE, "drop"),
               [Post(TRUE, 1) EXCEPT !.method = "PUT"], [Post(TRUE, 1) EXCEPT !.cut = TRUE]}
MCReplies == {<<>>, <<"ok">>, <<"unpackable">>, <<"ok", "ok">>}

MCInit == Init /\ H!Init /\ which \in {"StreamListener", "DoHServer"}

MCNext ==
  /\ UNCHANGED which
  /\ \/ which = "StreamListener" /\ Next /\ UNCHANGED dohVars
     \/ which = "DoHServer" /\ H!Next /\ UNCHANGED vars

\* StreamListener's fairness, while it is the one that takes steps.
Takes(A) == which = "StreamListener" /\ A

MCFair ==
  /\ WF_vars(Takes(AcquireSlot)) /\ WF_vars(Takes(AcquireCancelled))
  /\ WF_vars(Takes(AcceptStopped /\ listener = "closed"))
  /\ WF_vars(Takes(BackoffEnds \/ BackoffCancelled)) /\ WF_vars(Takes(Drained))
  /\ \A c \in Conns : WF_vars(Takes(connection(c)))
  /\ WF_vars(Takes(watch))

MCSpec == MCInit /\ [][MCNext]_<<which, vars, dohVars>> /\ MCFair

\* DoHServer: the slots taken are those of the open connections and the accept loop,
\* in all and by source, and every HTTP request is given exactly one response,
\* whether its handler writes nothing, once or twice, or what cannot be packed.
RequestsServed == H!ConnsAccounted /\ H!AnsweredOnce
=============================================================================
