------------------------------ MODULE MCZones -------------------------------
(* Small instances, for TLC, of what is kept of zones and messages and how   *)
(* they travel: dynamic updates (Authoritative), transfers (Transfer), NOTIFY*)
(* (NotifyBroadcast), multicast DNS (Mdns); and, over inputs that a behaviour *)
(* chooses at the start, lookups and the bailiwick filters (Authoritative,   *)
(* Bailiwick), signatures (TransactionAuth), the wire codec (WireCodec) and  *)
(* zone files (ZoneFile).  A behaviour takes the steps of one of them.       *)
EXTENDS WireCodec, TLC

CONSTANTS None, Requests,
          u1, u2,            \* Authoritative: two updaters
          a1, a2             \* Mdns: two announcers

VARIABLES which,             \* the module that a behaviour is of
          input,             \* what a module without steps is given
          zone, upc, req, serials, rcode, onUpdate, handlers, notified, replaced,  \* Authoritative
          hist, proto, tsigKey, whole, change, reader, tpc, kind, newSOA, emittedFirstSOA, done, events,
          outcome,           \* Transfer
          key, npc, slots, results,                                        \* NotifyBroadcast
          pubs, mpc, n, mctx, inbox, current, reason, heard, bctx, merged, found  \* Mdns

updateVars == <<zone, upc, req, serials, rcode, onUpdate, handlers, notified, replaced>>
xferVars == <<hist, proto, tsigKey, whole, change, reader, tpc, kind, newSOA, emittedFirstSOA, done, events,
              outcome>>
notifyVars == <<key, npc, slots, results>>
mdnsVars == <<pubs, mpc, n, mctx, inbox, current, reason, heard, bctx, merged, found>>
-----------------------------------------------------------------------------
(* Authoritative, with each kind of prerequisite and of change, two of which *)
(* undo what another relies on; the messages are the client's builder's.     *)

Under(x) == <<"z">> \o x
Rec(name, t, to) == [name |-> name, type |-> t, data |-> 1, target |-> to, ttl |-> 0]
Base == <<Rec(<<"z">>, "SOA", None), Rec(<<"z">>, "NS", Under(<<"a">>))>>

U == INSTANCE Authoritative WITH
       Updaters <- {u1, u2}, Origin <- <<"z">>, MaxRecords <- 3, MaxLabels <- 3, MaxNotify <- 1, MaxSerial <- 4, pc <- upc,
       Files <- {Base, Base \o <<Rec(Under(<<"a">>), "A", None), Rec(Under(<<"b", "c">>), "A", None)>>}

MCRequests ==
  LET new == U!NewBuilder(<<"z">>)
      a == Rec(Under(<<"a">>), "A", None)
      soa == [Rec(<<"z">>, "SOA", None) EXCEPT !.data = 3]
      bc == Under(<<"b", "c">>)
  IN  {U!Build(b) : b \in
        {U!AddRRset(U!PrereqNameNotInUse(new, a.name), a),
         U!DeleteAll(U!PrereqNameInUse(new, a.name), a.name),
         U!DeleteRRset(U!PrereqRRsetExists(new, bc, "A"), bc, "A"),
         U!DeleteRecord(U!AddRRset(U!PrereqRRsetAbsent(new, a.name, "TXT"),
                                   [a EXCEPT !.name = Under(<<"b">>)]), a),
         U!AddRRset(U!DeleteAll(new, <<"z">>), soa), U!AddRRset(new, [a EXCEPT !.name = <<"y">>]),
         U!DeleteAll(U!DeleteAll(U!DeleteAll(U!DeleteAll(new, bc), a.name), bc), a.name)}}
-----------------------------------------------------------------------------
(* Authoritative and Bailiwick. *)

\* Addresses, aliases, a DNAME, a delegation and wildcards, three of them at a time.
Pool ==
  <<Rec(Under(<<"a">>), "A", None), Rec(Under(<<"a">>), "CNAME", Under(<<"b">>)),
    Rec(Under(<<"b">>), "A", None), Rec(Under(<<"*">>), "A", None),
    Rec(Under(<<"*">>), "CNAME", Under(<<"b">>)), Rec(Under(<<"d">>), "DNAME", Under(<<"a">>)),
    Rec(Under(<<"d">>), "NS", Under(<<"a">>)), Rec(Under(<<"b", "c">>), "A", None),
    Rec(Under(<<"a", "*">>), "CNAME", Under(<<"d", "c">>)), Rec(Under(<<"d", "c">>), "A", None),
    Rec(Under(<<"d">>), "DNAME", Under(<<"b", "c">>))>>

Lookups ==
  [zone : {U!AddZone(<<"z">>, Base \o SelectSeq(Pool, LAMBDA r : r \in s)) :
             s \in UNION {kSubset(k, ToSet(Pool)) : k \in 0 .. 3}},
   q : {<<"z">>, <<"y">>} \cup {Under(x) : x \in {<<"a">>, <<"b">>, <<"d">>, <<"x">>, <<"a", "c">>,
                                                 <<"b", "c">>, <<"d", "c">>}},
   t : {"A", "CNAME", "NS", "ANY"}]

\* Responses with records of this zone, its parent and another.
Messages ==
  LET upTo2(S) == UNION {[1 .. k -> S] : k \in 0 .. 2}
      at(x) == Rec(x, "A", None)
      ans == {at(Under(<<"a">>)), at(<<"y">>), Rec(Under(<<"a">>), "CNAME", Under(<<"b">>)),
              Rec(Under(<<"b">>), "CNAME", <<"y">>)}
      auth == {Rec(x, t, Under(<<"a">>)) : x \in {<<>>, <<"z">>, <<"y">>}, t \in {"NS", "SOA", "NSEC"}}
      add == {at(Under(<<"a">>)), at(<<"y">>), Rec(<<>>, "OPT", None)}
  IN  [q : {Under(<<"a">>), Under(<<"b">>)}, ans : upTo2(ans), auth : upTo2(auth),
       add : {<<>>} \cup {<<r>> : r \in add}]
-----------------------------------------------------------------------------
(* Transfer, NotifyBroadcast, TransactionAuth. *)

Version(serial, recs) == [serial |-> serial, recs |-> recs]
KeyOf(name, alg, secret) == [name |-> name, alg |-> alg, secret |-> secret, allowSHA1 |-> FALSE]
K1 == KeyOf("k", "sha256", "s")
K2 == KeyOf("k", "sha256", "s2")
K3 == KeyOf("k2", "sha256", "s")

\* One version, and several, over the wrap of the serial and without a record.
X == INSTANCE Transfer WITH
       Histories <- {<<Version(1, <<1, 2, 3>>)>>, <<Version(7, <<1, 2>>), Version(1, <<2, 3, 4>>)>>,
                     <<Version(6, <<1>>), Version(7, <<1, 2>>), Version(0, <<2, 3>>)>>,
                     <<Version(3, <<>>), Version(4, <<>>)>>},
       Key <- K1, ChunkBudget <- 3, SerialMod <- 8, MaxUnsigned <- 2, SignEvery <- {1, 2},
       Algorithms <- [sha256 |-> [size |-> 4, sha1 |-> FALSE], sha1 |-> [size |-> 2, sha1 |-> TRUE]],
       MaxFudge <- 5, TimeMod <- 16, Rejected <- {}, NoTSIG <- None, pc <- tpc

\* Secondaries with the caller's key, another one and none.
B == INSTANCE NotifyBroadcast WITH
       Secondaries <- <<K1, K2, None>>, Keys <- {K1, None}, Now <- 3, Fudge <- 1, NoResult <- None,
       Algorithms <- [sha256 |-> [size |-> 4, sha1 |-> FALSE]], MaxFudge <- 5, TimeMod <- 16,
       Rejected <- {}, NoTSIG <- None, pc <- npc

Message(id) == [id |-> id, body |-> "b", extra |-> <<>>]
Prior(id) == X!Sign(Message(id), K1, 0, 1).mac
Side == [key : {K1, K2, K3, [K1 EXCEPT !.alg = "sha1"]}, prior : {None, Prior(1), Prior(2)},
         timersOnly : BOOLEAN, now : {0, 2}, fudge : {1, 6}]
Windows == [inception : 0 .. 15, len : 0 .. 7, now : 0 .. 15]
SIG0Key == [id |-> 1, tag |-> 7, alg |-> "ec"]
-----------------------------------------------------------------------------
(* Mdns: the same instance and host, with other ports and addresses; other   *)
(* hosts; and two TXT strings, which may come in either order.               *)

Pub(host, port, texts, addrs) ==
  [instance |-> 50, host |-> host, port |-> port, texts |-> texts, addrs |-> addrs]

SameNames == [a \in {a1, a2} |-> IF a = a1 THEN Pub(60, 80, {1}, {1}) ELSE Pub(60, 81, {1}, {1, 2})]
OtherHosts == [a \in {a1, a2} |-> IF a = a1 THEN Pub(60, 80, {1}, {1}) ELSE Pub(61, 80, {}, {2})]
TwoTexts == [a \in {a1, a2} |-> IF a = a1 THEN Pub(60, 80, {1, 4}, {1}) ELSE Pub(60, 80, {2}, {1})]

M == INSTANCE Mdns WITH
       Announcers <- {a1, a2}, ProbeCount <- 2, AnnounceCount <- 2, Typ <- 70, pc <- mpc, ctx <- mctx,
       Publications <- {SameNames, OtherHosts}
T == INSTANCE Mdns WITH
       Announcers <- {a1, a2}, ProbeCount <- 1, AnnounceCount <- 1, Typ <- 70, pc <- mpc, ctx <- mctx,
       Publications <- {TwoTexts}
-----------------------------------------------------------------------------
(* WireCodec: every type of record between two others that share its names,  *)
(* and messages with each section empty or not.                              *)

la == <<97>>
lb == <<98>>
lab == <<97, 98>>

\* Values of a field; an octet that says what another field is has two.
Sample(t, f) ==
  CASE f.kind = "octets" -> {[i \in 1 .. f.n |-> IF i = 1 THEN 1 ELSE 0]}
                              \cup IF f.n = 1 /\ t \in {"HIP", "IPSECKEY", "AMTRELAY"} THEN {<<3>>} ELSE {}
    [] f.kind = "name" -> {<<la, lb>>, <<lab, lb>>, <<>>}
    [] f.kind = "uname" -> {<<la, lb>>, <<>>}
    [] f.kind = "unames" -> {<<>>, <<<<la>>, <<lb, la>>>>}
    [] f.kind = "counted" -> {<<>>, <<65>>}
    [] f.kind = "lengthIn" -> {<<7>>, <<8, 9, 10>>}
    [] f.kind \in {"gateway", "relay"} -> {[name |-> TRUE, gw |-> <<la, lb>>], [name |-> FALSE, gw |-> <<1, 2, 3, 4>>]}
    [] f.kind = "chars" -> {<<>>, <<0, 255>>}
    [] f.kind = "charses" -> {<<<<>>>>, <<<<1>>, <<>>, <<2, 192>>>>, <<<<1>>, <<2>>>>}
    [] f.kind = "rest" -> {<<>>, <<192, 12>>}
    [] f.kind = "bitmap" -> {{}, {1, 2, 46}, {6, 257, 512}}
    [] f.kind = "params" -> {<<>>, <<[key |-> 0, data |-> <<0, 1>>], [key |-> 1, data |-> <<1, 104>>]>>}
    [] f.kind = "apl" -> {<<[family |-> 1, bits |-> 8, neg |-> TRUE, addr |-> <<10, 0, 0, 0>>]>>,
                          <<[family |-> 2, bits |-> 0, neg |-> FALSE, addr |-> [i \in 1 .. 16 |-> 0]],
                            [family |-> 1, bits |-> 32, neg |-> FALSE, addr |-> <<1, 0, 0, 9>>]>>}

\* Fields whose values depend on each other.
Linked(t, v) ==
  CASE t = "HIP" -> Number(v[1]) = Len(v[4]) /\ Number(v[3]) = Len(v[5])
    [] t = "IPSECKEY" -> v[2] = IF v[4].name THEN <<3>> ELSE <<1>>
    [] t = "AMTRELAY" -> v[2] = IF v[3].name THEN <<3>> ELSE <<1>>
    [] OTHER -> TRUE

FieldValues(t) ==
  LET upTo[k \in 0 .. Len(Format[t])] ==
        IF k = 0 THEN {<<>>} ELSE {Append(v, x) : v \in upTo[k - 1], x \in Sample(t, Format[t][k])}
  IN  upTo[Len(Format[t])]
RDatas(t) ==
  {v \in FieldValues(t) : Linked(t, v) /\ Valid(t, v) /\ packRData(NewPacker(<<>>), t, v).buf # <<>>}
    \cup IF t = "AMTRELAY" THEN {<<<<3>>, <<131>>, [name |-> TRUE, gw |-> <<la, lb>>]>>} ELSE {}

LongLabel(size) == [i \in 1 .. size |-> 97]
\* A name of size octets, in labels as long as they may be and a shorter one.
Long(size) ==
  LET full == (size - 2) \div (maxLabelLen + 1)
      rest == size - 2 - full * (maxLabelLen + 1)
  IN  [i \in 1 .. full |-> LongLabel(maxLabelLen)] \o <<LongLabel(rest)>>

\* Texts of names, with letters, dots, escapes and all octets; and labels and names
\* as long as they may be, and longer.
NameTexts ==
  UNION {[1 .. k -> {65, 48, 53, 54, Dot, Backslash}] : k \in 0 .. 5}
    \cup {<<Backslash>> \o Decimal(c) \o <<97>> : c \in 0 .. 260}
    \cup {LongLabel(k) : k \in {maxLabelLen, maxLabelLen + 1}}
    \cup {String(Long(k)) : k \in (maxNameLen - 1) .. (maxNameLen + 1)}

Wire(name, t, v) ==
  [name |-> name, type |-> t, class |-> <<0, 1>>, ttl |-> <<0, 0, 0, 60>>, rdata |-> v]
Question(name, raw) == [name |-> name, rawName |-> raw, type |-> <<0, 1>>, class |-> <<0, 1>>]
Edns(opts) ==
  [udpSize |-> <<4, 208>>, extRCODE |-> 1, version |-> 0, do |-> TRUE, opts |-> opts]
Option(code, data) == [code |-> code, data |-> data]
Host(name) == Wire(name, "A", <<<<1, 2, 3, 4>>>>)
Longest == Long(maxNameLen)

WireMessages ==
  LET of(qs, an, ns, ar, e) ==
        [id |-> <<1, 2>>, flags |-> <<129, 128>>, questions |-> qs, answers |-> an,
         authorities |-> ns, additionals |-> ar, edns |-> e]
      q == Question(<<la, lb>>, <<>>)
      alias == Wire(<<lb>>, "CNAME", <<<<la, lb>>>>)
      named(t) == \E i \in DOMAIN Format[t] : Format[t][i].kind \in {"name", "uname"}
      before(t) == {<<alias>>} \cup
                   IF named(t) THEN {<<>>, <<alias, Host(<<lab, la, lb>>), Host(<<lb>>)>>} ELSE {}
      around(t, v, some) == some \o <<Wire(<<la, lb>>, t, v), Host(<<lab, la, lb>>), Host(<<la, lab, lb>>)>>
      nested(k) == [i \in 1 .. k |-> Wire([j \in 1 .. i |-> IF j = i THEN lb ELSE la], "TXT", <<>>)]
      delegation == [Wire(<<la, lb>>, "NS", <<<<lab, lb>>>>) EXCEPT !.ttl = <<200, 0, 0, 1>>]
  IN  UNION {{of(<<q>>, around(t, v, some), <<>>, <<>>, <<>>) : v \in RDatas(t), some \in before(t)} : t \in DOMAIN Format}
      \cup {of(<<>>, nested(k), <<>>, <<>>, <<>>) : k \in 1 .. 5}
      \cup {of(<<Question(Longest, <<>>)>>, <<Host(Longest)>>, <<>>, <<>>, <<>>)}
      \cup {of(<<q2>>, an, ns, ar, e) :
              q2 \in {q, Question(<<lab>>, <<2, 65, 98, 0>>)}, an \in {<<>>, <<delegation>>},
              ns \in {<<>>, <<Wire(<<lab, lb>>, "MX", <<<<0, 5>>, <<la, lab, lb>>>>),
                              Wire(<<la, lab, lb>>, "NS", <<<<lab, lb>>>>)>>},
              ar \in {<<>>, <<Host(<<lab, lb>>), Wire(<<>>, "TXT", <<>>)>>},
              e \in {<<>>, <<Edns(<<>>)>>, <<Edns(<<Option(10, <<1, 2, 3>>)>>)>>,
                     <<Edns(<<Option(3, <<1>>), Option(12, <<0, 0>>)>>)>>}}
-----------------------------------------------------------------------------
(* ZoneFile: a head and one or two lines of each kind. *)

w(x) == <<x>>
SP == <<" ">>
NL == <<"\n">>
Line(ws) == Tail(FlattenSeq([i \in DOMAIN ws |-> <<SP, ws[i]>>])) \o <<NL>>
Head1 == Line(<<w("$ORIGIN"), <<"ex", ".">>>>)
TTL(x) == Line(<<w("$TTL"), w(x)>>)
Www == Line(<<w("www"), w("10"), w("A"), w("addr")>>)
Indented == <<SP>> \o Line(<<w("MX"), w("10"), w("www")>>)
Reverse10 == Line(<<w("10"), w("PTR"), <<"www", "ex", ".">>>>)
Sub == Line(<<w("$ORIGIN"), <<"sub", "ex">>>>)
Blank == <<<<";">>, w("x"), NL>>
TextLines ==
  {Www, Indented, Reverse10, Sub, Blank, TTL("5"), Line(<<w("$INCLUDE"), w("f")>>),
   Line(<<w("$INCLUDE"), w("g"), <<"sub", "ex">>>>), Line(<<w("$ORIGIN"), w(".")>>),
   Line(<<w("sub"), w("DS"), w("9"), w("8"), w("1"), w("a"), w("b")>>),
   Line(<<<<"sub", "ex", ".">>, w("CH"), w("7"), w("TXT"), w("a"), w("b")>>),
   Line(<<w("$GENERATE"), <<"1", "-", "5", "/", "2">>, w("$"), w("PTR"), <<"$", "sub">>>>),
   <<w("@"), SP, <<"(">>, w("7"), NL, SP, w("CAA"), SP, <<";">>, w("x"), NL, SP, <<")">>, w("1"), w("i"),
     w("v"), NL>>}
Soa == Line(<<w("@"), w("IN"), w("SOA"), w("ns"), <<"h", ".">>, w("1"), w("2"), w("3"), w("4"), w("5")>>)
Texts == {Head1 \o TTL("5") \o x \o y : x \in TextLines \cup {Soa}, y \in TextLines} \cup TextLines
         \cup {Head1 \o Soa \o x \o y \o z : x \in {Www, Sub, Blank}, y, z \in TextLines}

Ranges == {<<"1", "-", "5", "/", "2">>, <<"0", "-", "2">>, <<"1", "-", "4", "/", "2">>, <<"3", "-", "3">>,
           <<"1", "-", "4">>}
Includes == {<<w("$INCLUDE"), SP, w("f")>>, <<w("$INCLUDE"), SP, w("g"), SP, <<"sub", "ex", ".">>>>}

F == INSTANCE ZoneFile WITH
       Files <- [f |-> Sub \o TTL("7") \o Www, g |-> Www \o Indented \o Line(<<w("$INCLUDE"), w("f")>>)],
       Numbers <- [i \in {ToString(k) : k \in 0 .. 12} |-> CHOOSE k \in 0 .. 12 : ToString(k) = i],
       Largest <- [octet |-> 8, short |-> 10, long |-> 11],
       maxTTL <- 10, maxGenerateIterations <- 3, maxIncludeDepth <- 2
-----------------------------------------------------------------------------
Inputs(kd) ==
  CASE kd = "lookup" -> Lookups
    [] kd = "filter" -> Messages
    [] kd = "tsig" -> {<<k, signing>> : k \in {1, 2}, signing \in Side}
    [] kd = "sig0" -> Windows
    [] kd = "wire" -> WireMessages
    [] kd = "name" -> NameTexts
    [] kd = "text" -> Texts
    [] OTHER -> {}

MCInit ==
  /\ which \in {"update", "transfer", "notify", "mdns", "mdnsTexts", "lookup", "filter", "tsig", "sig0", "wire", "name",
               "text"}
  /\ input = None
  /\ U!Init /\ B!Init
  /\ IF which = "mdnsTexts" THEN T!Init ELSE M!Init
  /\ which # "update" => zone = U!AddZone(<<"z">>, Base)
  /\ which # "notify" => key = None
  /\ which \notin {"mdns", "mdnsTexts"} => pubs = SameNames
  /\ IF which = "transfer" THEN X!Init
     ELSE /\ hist = None /\ proto = None /\ tsigKey = None /\ whole = None /\ change = None /\ reader = None
          /\ tpc = None /\ kind = None /\ newSOA = None /\ emittedFirstSOA = None /\ done = None
          /\ events = None /\ outcome = None

\* An input of an algorithm.
Give ==
  /\ input = None /\ input' \in Inputs(which)
  /\ UNCHANGED <<which, updateVars, xferVars, notifyVars, mdnsVars>>

Given(kd) == which = kd /\ input # None

MCNext ==
  \/ Give
  \/ /\ UNCHANGED <<which, input>>
     /\ \/ which = "update" /\ U!Next /\ UNCHANGED <<xferVars, notifyVars, mdnsVars>>
        \/ which = "transfer" /\ X!Next /\ UNCHANGED <<updateVars, notifyVars, mdnsVars>>
        \/ which = "notify" /\ B!Next /\ UNCHANGED <<updateVars, xferVars, mdnsVars>>
        \/ which = "mdnsTexts" /\ T!Next /\ UNCHANGED <<updateVars, xferVars, notifyVars>>
        \/ which = "mdns" /\ M!Next /\ UNCHANGED <<updateVars, xferVars, notifyVars>>

MCSpec == MCInit /\ [][MCNext]_<<which, input, updateVars, xferVars, notifyVars, mdnsVars>>
-----------------------------------------------------------------------------
(* Properties. *)

\* What the authoritative server answers reaches the client of a resolver: no
\* alias, synthesised alias or wildcard leaves the final records out of its chain,
\* and the forwarder's filter and the recursive resolver's keep and drop alike
\* what both documents say they keep (authoritative.go lookupAuthoritative,
\* forward/bailiwick.go, recursive.go bailiwickFilter).
AnswersReachClient ==
  /\ Given("lookup") => U!ReachesClient(input.zone, input.q, input.t)
  /\ Given("filter") => U!FilteredAlike(input.q, "A", input) /\ U!ReferralSafe(input)

\* Updates and reloads that race leave a zone indexed as if it had been loaded, and
\* none is applied to a zone that its prerequisites do not hold of (authoritative/
\* update.go serveUpdate).
UpdatesSound == which = "update" => U!ZoneConsistent /\ U!PrereqsHeld

\* A transfer that ends well is the server's zone, in whatever pieces it comes
\* (axfr.go, ixfr.go, StreamAXFR).
TransferredWhole == which = "transfer" => X!TransferredWhole

\* A signature is accepted for the message, key, chain and time it was made for and
\* no other; a broadcast pairs each response with its secondary, and takes only one
\* signed with its key (tsig.go, sig0.go, notify.go Broadcast).
SignaturesHold ==
  /\ Given("tsig") => \A id \in {1, 2}, verifying \in Side :
       X!VerifiesWhatWasSigned(Message(input[1]), id, input[2], verifying)
  /\ Given("sig0") =>
       X!GoodWithinWindow(Message(1), SIG0Key, "n", input.inception, input.len, input.now)
  /\ which = "notify" => B!ResultsInPlace

\* Every message is read as it was written and can be written again, none of its
\* proper prefixes is taken for it, and padding keeps its meaning; a name is read
\* back from its text and its octets (wire/dnsmsg.go, rdata, edns_padding.go,
\* wirebb/name.go).
CodecSound ==
  /\ Given("wire") => Reencodable(input) /\ CutRefused(input) /\ PaddedWhole(input)
  /\ Given("name") => Respelled(input)

\* A zone written is the zone that was read; a $GENERATE is its lines, an $INCLUDE
\* leaves the owner, origin and TTL of what follows alone, and a comment line is no
\* line (zonefile/parser.go, generate.go, include.go, writer.go).
TextsKeep ==
  Given("text") =>
    /\ F!Rewritten(input)
    /\ \A r \in Ranges : F!SpelledOut(input, <<"$", "sub">>, r, <<w("PTR"), w("$")>>, Indented)
    /\ \A after \in {Www, Indented} :
         /\ \A b \in {<<>>, <<SP>>, <<<<";">>, w("x")>>, <<<<";">>, SP, w("x")>>, <<SP, <<";">>, w("x")>>} :
              F!Squeezed(input, b, after)
         /\ \A d \in Includes : F!IncludeScoped(input, d, after)

=============================================================================
