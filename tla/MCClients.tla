------------------------------ MODULE MCClients ------------------------------
(* Small instances of the clients for TLC: the keep-alive clients over TCP   *)
(* and DoT (KeepAlive) and over QUIC (DoQKeepAlive), and those that use a    *)
(* fresh connection for each query (ClientExchange).  A behaviour takes the  *)
(* steps of one of them.                                                     *)
EXTENDS KeepAlive, TLC

CONSTANT Kinds               \* ClientExchange: the clients looked at

VARIABLES which,             \* the module whose steps a behaviour takes
          dconn, ddialing, dpc, dheld, dattempt, dctx, dresult, dstatus, closing, died,
          kind, timeout, ctxDl, xctx, call, xpc, xdeadline, xwatchers, bad, result

doqVars == <<dconn, ddialing, dpc, dheld, dattempt, dctx, dresult, dstatus, closing, died>>
xVars == <<kind, timeout, ctxDl, xctx, call, xpc, xdeadline, xwatchers, bad, result>>

D == INSTANCE DoQKeepAlive WITH conn <- dconn, dialing <- ddialing,
       pc <- dpc, held <- dheld, attempt <- dattempt, ctx <- dctx, result <- dresult,
       status <- dstatus

\* All with and without a timeout, but for dnscrypt.Client, which watches no context.
X == INSTANCE ClientExchange WITH
       Timeouts <- [k \in Kinds |-> IF k = "dnscrypt" THEN {TRUE} ELSE BOOLEAN],
       Budget <- [f \in {"malformed", "id", "question", "case"} |-> 2], MaxCalls <- 3,
       ctx <- xctx, pc <- xpc, deadline <- xdeadline, watchers <- xwatchers

MCInit ==
  /\ Init /\ D!Init /\ X!Init
  /\ which \in {"KeepAlive", "DoQKeepAlive", "ClientExchange"}
  /\ which # "ClientExchange" => kind = CHOOSE k \in Kinds : TRUE
  /\ which # "ClientExchange" => timeout /\ ctxDl
  /\ which # "KeepAlive" => client = CHOOSE c \in Clients : TRUE

MCNext ==
  /\ UNCHANGED which
  /\ \/ which = "KeepAlive" /\ Next /\ UNCHANGED <<doqVars, xVars>>
     \/ which = "DoQKeepAlive" /\ D!Next /\ UNCHANGED <<vars, xVars>>
     \/ which = "ClientExchange" /\ X!Next /\ UNCHANGED <<vars, doqVars>>

\* KeepAlive's fairness, which asks nothing while all its callers are idle, and
\* ClientExchange's while it is the one that takes steps.
MCFair == Fairness /\ WF_xVars(which = "ClientExchange" /\ X!Progress)

MCSpec == MCInit /\ [][MCNext]_<<which, vars, doqVars, xVars>> /\ MCFair

\* ClientExchange on its own.
ExchangeSpec == MCSpec /\ which = "ClientExchange"

\* The keep-alive clients lose no open connection; the one over TCP never has an
\* exchange's connection closed by another Exchange; the one over QUIC dials one at a
\* time (doq/keepalive.go:288-289) and hides one that died from its caller
\* (doq/keepalive.go:215-217).
ConnectionsKept == NoLeak /\ Undisturbed /\ D!OneDial /\ D!NoLeak /\ D!TransparentRedial

\* ClientExchange: "Implementations MUST honor the context deadline and cancellation"
\* (exchanger.go:16-17).
HonorsContext == (which = "ClientExchange" /\ X!Due) ~> ~X!Busy

\* Every call returns: of the TCP keep-alive client whatever other callers do, of the
\* clients without one when its context ends or its time is up.
CallsReturn == EveryCallReturns /\ HonorsContext
=============================================================================
