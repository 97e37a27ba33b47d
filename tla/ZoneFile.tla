------------------------------ MODULE ZoneFile ------------------------------
(***************************************************************************)
(* zonefile: reading and writing master files.  A text is a sequence of    *)
(* elements and an element a sequence of strings: white space, a newline,  *)
(* a comment sign, a parenthesis, or a word.  A word is the sequence of    *)
(* its labels, closed by "." when it is absolute, so that the owner 10 of  *)
(* a reverse zone and the TTL 10 are the same word; a range is its numbers *)
(* and separators.  Quoting, escapes and the formats of addresses, hex and *)
(* base64 are left out: such a field is a word that is kept as it is.      *)
(***************************************************************************)
EXTENDS Integers, Sequences, SequencesExt, FiniteSetsExt

CONSTANTS Files,                \* what the IncludeResolver can open
          Numbers,              \* the words strconv.ParseUint accepts, and their values
          Largest,              \* what 8, 16 and 32 bits hold: [octet, short, long]
          maxTTL, maxGenerateIterations, maxIncludeDepth,
          None                  \* no origin, no previous owner

SP == <<" ">>
NL == <<"\n">>
Comment == <<";">>
Open == <<"(">>
Close == <<")">>

Root == <<>>

(* The RR types and the fields parseRData reads for each: a name, a        *)
(* number of so many bits, a timer, a word, words that are joined, or one  *)
(* or more words.                                                          *)
parseSRV == <<"short", "short", "short", "name">>
parseCAA == <<"octet", "word", "word">>
parseDNAME == <<"name">>
parseDS == <<"short", "octet", "octet", "joined">>
parseDNSKEY == <<"short", "octet", "octet", "joined">>
parseSOA == <<"name", "name", "long", "timer", "timer", "timer", "timer">>
Fields == [A |-> <<"word">>, AAAA |-> <<"word">>, NS |-> <<"name">>, CNAME |-> <<"name">>,
    PTR |-> <<"name">>, MX |-> <<"short", "name">>, TXT |-> <<"words">>, SRV |-> parseSRV,
    CAA |-> parseCAA, DNAME |-> parseDNAME, DS |-> parseDS, DNSKEY |-> parseDNSKEY,
    SOA |-> parseSOA]
Classes == {"IN", "CH", "HS", "ANY", "NONE"}

Number(w) == Len(w) = 1 /\ w[1] \in DOMAIN Numbers
parseSOATimer(w) == Number(w) /\ Numbers[w[1]] <= Largest.long /\ Numbers[w[1]] <= maxTTL
isType(w) == Len(w) = 1 /\ w[1] \in DOMAIN Fields
-----------------------------------------------------------------------------
(* The lexer, one element at a time.  A newline ends a logical line only   *)
(* outside parentheses and after a token, and only then is the record of   *)
(* leading white space cleared.                                            *)
newLexer == [lines |-> <<>>, toks |-> <<>>, ws |-> FALSE, parenDepth |-> 0, inLine |-> FALSE,
             sawLeadingWS |-> FALSE, comment |-> FALSE, bad |-> FALSE]

endLine(l) ==
    IF l.inLine
    THEN [l EXCEPT !.lines = Append(@, [ws |-> l.ws, toks |-> l.toks]), !.toks = <<>>,
                   !.inLine = FALSE, !.sawLeadingWS = FALSE]
    ELSE l

next(l, e) ==
    CASE l.comment /\ e # NL -> l
      [] e = NL ->
             LET m == [l EXCEPT !.comment = FALSE] IN IF l.parenDepth = 0 THEN endLine(m) ELSE m
      [] ~l.comment /\ e = SP -> [l EXCEPT !.sawLeadingWS = @ \/ ~l.inLine]
      [] ~l.comment /\ e = Comment -> [l EXCEPT !.comment = TRUE]
      [] ~l.comment /\ e = Open -> [l EXCEPT !.parenDepth = @ + 1]
      [] ~l.comment /\ e = Close ->
             IF l.parenDepth = 0 THEN [l EXCEPT !.bad = TRUE] ELSE [l EXCEPT !.parenDepth = @ - 1]
      [] OTHER -> [l EXCEPT !.ws = IF l.inLine THEN @ ELSE l.sawLeadingWS,
                            !.inLine = TRUE, !.toks = Append(@, e)]

(* The end of the file: a pending line is ended; open parentheses are an   *)
(* error, except in a final comment with no token before it.               *)
flushOnEOF(l) ==
    IF l.bad \/ (l.parenDepth # 0 /\ ~(l.comment /\ ~l.inLine)) THEN [l EXCEPT !.bad = TRUE]
    ELSE endLine(l)

(* The elements lo to hi of a text, one after the other up to an error     *)
(* (in halves, so that an evaluation does not nest as deep as a text is    *)
(* long), and the logical lines of all of it.                              *)
RECURSIVE scan(_, _, _, _)
scan(l, text, lo, hi) ==
    LET mid == (lo + hi) \div 2
        half == scan(l, text, lo, mid)
    IN  IF lo > hi \/ l.bad THEN l
        ELSE IF lo = hi THEN next(l, text[lo])
        ELSE IF half.bad THEN half ELSE scan(half, text, mid + 1, hi)
readLines(text) == flushOnEOF(scan(newLexer, text, 1, Len(text)))
-----------------------------------------------------------------------------
Failed(p) == [p EXCEPT !.bad = TRUE]

(* resolveName: the origin, an absolute name, or one relative to the       *)
(* origin.  A relative name is refused without an origin, and under the    *)
(* root, where the text "label.." has an empty label.                      *)
resolveName(p, w) ==
    CASE w = <<"@">> -> p.origin
      [] w # <<"@">> /\ Last(w) = "." -> Front(w)
      [] OTHER -> IF p.origin \in {None, Root} THEN None ELSE w \o p.origin

(* ParseName: a missing final dot makes no difference.                     *)
ParseName(w) == IF Last(w) = "." THEN Front(w) ELSE w

(* The fields of the rdata, or None; what is left of the words is joined   *)
(* where the last field may be split.                                      *)
parseRData(p, t, words) ==
    LET kinds == IF Fields[t] = <<"words">> THEN [i \in DOMAIN words |-> "word"] ELSE Fields[t]
        n == Len(kinds)
        joins == kinds # <<>> /\ Last(kinds) = "joined"
        fits(i) == CASE kinds[i] = "timer" -> parseSOATimer(words[i])
                     [] kinds[i] \in DOMAIN Largest ->
                            Number(words[i]) /\ Numbers[words[i][1]] <= Largest[kinds[i]]
                     [] OTHER -> TRUE
        field(i) == CASE kinds[i] = "name" -> resolveName(p, words[i])
                      [] kinds[i] = "joined" -> FlattenSeq(SubSeq(words, i, Len(words)))
                      [] OTHER -> words[i]
    IN  IF words = <<>> \/ Len(words) < n \/ (Len(words) > n /\ ~joins) THEN None
        ELSE IF \E i \in DOMAIN kinds : ~fits(i) THEN None
        ELSE IF \E i \in DOMAIN kinds : field(i) = None THEN None
        ELSE [i \in DOMAIN kinds |-> field(i)]

(* [TTL] [CLASS] in any order and any number, up to the first class that   *)
(* is not IN or TTL that is out of range; the type has to be what is left. *)
RECURSIVE ttlAndClass(_, _, _)
ttlAndClass(words, ttl, class) ==
    IF words = <<>> \/ class # "IN" THEN [ttl |-> ttl, class |-> class, rest |-> words]
    ELSE IF Number(words[1]) /\ Numbers[words[1][1]] \in 0..maxTTL
    THEN ttlAndClass(Tail(words), Numbers[words[1][1]], class)
    ELSE IF Len(words[1]) = 1 /\ words[1][1] \in Classes THEN ttlAndClass(Tail(words), ttl, words[1][1])
    ELSE [ttl |-> ttl, class |-> class, rest |-> words]

(* The record with this owner that the words after the owner describe.     *)
addRecord(p, owner, words) ==
    LET Added(tc, rd) ==
            IF rd = None THEN Failed(p)
            ELSE [p EXCEPT !.prev = owner,
                           !.recs = Append(@, [name |-> owner, ttl |-> tc.ttl, class |-> tc.class,
                                               type |-> tc.rest[1][1], rdata |-> rd])]
        Typed(tc) ==
            IF tc.rest = <<>> THEN Failed(p)
            ELSE IF ~isType(tc.rest[1]) \/ tc.ttl \notin 0..maxTTL THEN Failed(p)
            ELSE Added(tc, parseRData(p, tc.rest[1][1], Tail(tc.rest)))
    IN  IF owner = None THEN Failed(p) ELSE Typed(ttlAndClass(words, p.ttl, "IN"))

(* An indented line belongs to the previous owner.                         *)
handleRecord(p, line) ==
    IF line.ws THEN addRecord(p, p.prev, line.toks)
    ELSE addRecord(p, resolveName(p, line.toks[1]), Tail(line.toks))

-----------------------------------------------------------------------------
(* start-stop or start-stop/step.                                          *)
parseGenerateRange(w) ==
    LET n(i) == Numbers[w[i]]
    IN  IF \/ Len(w) \notin {3, 5} \/ w[2] # "-" \/ (Len(w) = 5 /\ w[4] # "/")
           \/ \E i \in {1, 3, 5} \cap DOMAIN w : w[i] \notin DOMAIN Numbers
        THEN None
        ELSE LET step == IF Len(w) = 5 THEN n(5) ELSE 1
             IN  IF n(1) < 0 \/ n(3) < n(1) \/ step <= 0 THEN None
                 ELSE [start |-> n(1), stop |-> n(3), step |-> step]

iterations(g) == (g.stop - g.start) \div g.step + 1

(* A "$" label becomes the value, an escaped one a plain "$".              *)
substituteGenerate(w, v) ==
    [i \in DOMAIN w |-> IF w[i] = "$" THEN ToString(v) ELSE IF w[i] = "\\$" THEN "$" ELSE w[i]]

(* One record for each value of the range, in order: what follows the type  *)
(* is substituted.                                                          *)
RECURSIVE generate(_, _, _, _, _)
generate(p, toks, type, g, v) ==
    LET words == [i \in 1..(Len(toks) - 3) |-> IF i > type THEN substituteGenerate(toks[i + 3], v) ELSE toks[i + 3]]
        Further(done) == IF done.bad \/ v = g.stop \/ v + g.step > g.stop THEN done
                         ELSE generate(done, toks, type, g, v + g.step)
    IN  Further(addRecord(p, resolveName(p, substituteGenerate(toks[3], v)), words))

handleGenerate(p, toks) ==
    LET Each(g, tc) ==
            IF g = None THEN Failed(p)
            ELSE IF iterations(g) > maxGenerateIterations \/ tc.rest = <<>> THEN Failed(p)
            ELSE IF ~isType(tc.rest[1]) \/ tc.ttl < 0 THEN Failed(p)
            ELSE generate(p, toks, Len(toks) - 2 - Len(tc.rest), g, g.start)
    IN  IF Len(toks) < 5 THEN Failed(p)
        ELSE Each(parseGenerateRange(toks[2]), ttlAndClass(SubSeq(toks, 4, Len(toks)), p.ttl, "IN"))
-----------------------------------------------------------------------------
newParser(origin, ttl, depth, resolver) ==
    [origin |-> origin, ttl |-> ttl, prev |-> None, recs |-> <<>>, depth |-> depth,
     includeResolver |-> resolver, bad |-> FALSE]

RECURSIVE run(_, _)
\* Mutant: the included file's $ORIGIN and $TTL propagate back.
handleInclude_Leaks(p, toks) ==
    LET origin == IF Len(toks) = 3 THEN ParseName(toks[3]) ELSE p.origin
        Kept(nested) ==
            IF nested.bad THEN Failed(p)
            ELSE [p EXCEPT !.recs = @ \o nested.recs, !.origin = nested.origin, !.ttl = nested.ttl]
    IN  IF ~p.includeResolver \/ Len(toks) \notin 2..3 \/ p.depth >= maxIncludeDepth THEN Failed(p)
        ELSE IF toks[2][1] \notin DOMAIN Files THEN Failed(p)
        ELSE Kept(run(Files[toks[2][1]], newParser(origin, p.ttl, p.depth + 1, TRUE)))

(* A file is included, where there is a resolver, by a parser of its own,  *)
(* with the current origin and TTL; only its records are kept.             *)
handleInclude(p, toks) ==
    LET origin == IF Len(toks) = 3 THEN ParseName(toks[3]) ELSE p.origin
        Kept(nested) == IF nested.bad THEN Failed(p) ELSE [p EXCEPT !.recs = @ \o nested.recs]
    IN  IF ~p.includeResolver \/ Len(toks) \notin 2..3 \/ p.depth >= maxIncludeDepth THEN Failed(p)
        ELSE IF toks[2][1] \notin DOMAIN Files THEN Failed(p)
        ELSE Kept(run(Files[toks[2][1]], newParser(origin, p.ttl, p.depth + 1, TRUE)))

handleDirective(p, toks) ==
    CASE toks[1][1] = "$ORIGIN" ->
             IF Len(toks) # 2 THEN Failed(p) ELSE [p EXCEPT !.origin = ParseName(toks[2])]
      [] toks[1][1] = "$TTL" ->
             IF Len(toks) # 2 THEN Failed(p)
             ELSE IF ~Number(toks[2]) THEN Failed(p)
             ELSE IF Numbers[toks[2][1]] \notin 0..maxTTL THEN Failed(p)
             ELSE [p EXCEPT !.ttl = Numbers[toks[2][1]]]
      [] toks[1][1] = "$GENERATE" -> handleGenerate(p, toks)
      [] toks[1][1] = "$INCLUDE" -> handleInclude(p, toks)
      [] OTHER -> Failed(p)

handleLine(p, line) ==
    IF p.bad THEN p
    ELSE IF line.toks[1][1] \in {"$ORIGIN", "$TTL", "$GENERATE", "$INCLUDE", "$"}
    THEN handleDirective(p, line.toks)
    ELSE handleRecord(p, line)

(* run handles the logical lines, one after the other.                     *)
run(text, p0) ==
    LET Lines(lex) == IF lex.bad THEN Failed(p0) ELSE FoldLeft(handleLine, p0, lex.lines)
    IN  Lines(readLines(text))

(* Parse, with or without WithIncludeResolver: all or nothing; the zone's   *)
(* origin is the last one set.                                             *)
ParseWith(text, resolver) ==
    LET Zone(p) == IF p.bad THEN None ELSE [origin |-> p.origin, recs |-> p.recs]
    IN  Zone(run(text, newParser(None, -1, 0, resolver)))
Parse(text) == ParseWith(text, TRUE)
-----------------------------------------------------------------------------
(* The owner relative to the origin where it can be.                       *)
relativise(n, origin) ==
    LET k == Len(n) - Len(origin)
    IN  IF n = origin THEN <<"@">>
        ELSE IF origin # Root /\ k > 0 /\ SubSeq(n, k + 1, Len(n)) = origin THEN SubSeq(n, 1, k)
        ELSE Append(n, ".")

Word(n) == LET v == {s \in DOMAIN Numbers : Numbers[s] = n} IN <<CHOOSE s \in v : s = ToString(n)>>

(* The words of a list, each after white space.                            *)
Spaced(words) == FlattenSeq([i \in DOMAIN words |-> <<SP, words[i]>>])

(* A name in full, and a SOA in parentheses, a number to a line with its   *)
(* comment.                                                                *)
formatRDataPresentation(r) ==
    LET kinds == Fields[r.type]
        field(i) == IF kinds # <<"words">> /\ kinds[i] = "name" THEN Append(r.rdata[i], ".") ELSE r.rdata[i]
        timer(i) == <<NL, SP, field(i)>> \o (IF i = 7 THEN <<SP, Close>> ELSE <<>>) \o <<SP, Comment, <<"timer">>>>
    IN  IF r.type # "SOA" THEN Spaced([i \in DOMAIN r.rdata |-> field(i)])
        ELSE Spaced(<<field(1), field(2), Open>>) \o FlattenSeq([i \in 1..5 |-> timer(i + 2)])

formatRecord(r, origin) ==
    <<relativise(r.name, origin)>> \o Spaced(<<Word(r.ttl), <<r.class>>, <<r.type>>>>)
    \o formatRDataPresentation(r) \o <<NL>>

(* $ORIGIN, $TTL when the first SOA has a positive minimum, the records.   *)
Write(z) ==
    LET soas == SelectSeq(z.recs, LAMBDA r : r.type = "SOA")
        min == soas[1].rdata[7]
        ttl == IF soas = <<>> THEN <<>>
               ELSE IF Numbers[min[1]] = 0 THEN <<>> ELSE <<<<"$TTL">>, SP, min, NL>>
    IN  <<<<"$ORIGIN">>, SP, Append(z.origin, "."), NL>> \o ttl
        \o FlattenSeq([i \in DOMAIN z.recs |-> formatRecord(z.recs[i], z.origin)])
-----------------------------------------------------------------------------
(* What Write makes of a zone that was read is read back as that zone,     *)
(* whatever directives, relative names and inherited owners the first text *)
(* used, and without the resolver it may have needed (zonefile/writer.go   *)
(* Write, zonefile.go Parse).                                              *)
Rewritten(text) ==
    LET ReadBack(z) == (z # None /\ z.origin # None) => ParseWith(Write(z), FALSE) = z
    IN  ReadBack(Parse(text))

(* $GENERATE stands for one line per value: replacing the directive by     *)
(* those lines changes nothing.                                            *)
SpelledOut(before, lhs, rng, rhs, after) ==
    LET g == parseGenerateRange(rng)
        values == {v \in g.start..g.stop : (v - g.start) % g.step = 0}
        line(v) == <<substituteGenerate(lhs, v)>>
                   \o FlattenSeq([i \in DOMAIN rhs |-> <<SP, substituteGenerate(rhs[i], v)>>]) \o <<NL>>
        lines == FlattenSeq([i \in 1..(g.stop - g.start + 1) |->
                     IF g.start + i - 1 \in values THEN line(g.start + i - 1) ELSE <<>>])
        directive == <<<<"$GENERATE">>, SP, rng, SP, lhs>>
                     \o FlattenSeq([i \in DOMAIN rhs |-> <<SP, rhs[i]>>]) \o <<NL>>
    IN  (g # None /\ Cardinality(values) <= maxGenerateIterations) =>
            Parse(before \o directive \o after) = Parse(before \o lines \o after)

(* A line that holds white space or a comment only is no line: the text    *)
(* without it means the same, save that white space before the comment, or *)
(* on its own, is taken to be the next line's, which so belongs to the     *)
(* previous owner (lexer.go: the lexer "hides comments"; sawLeadingWS is   *)
(* kept until a token, lines 73-82).                                       *)
Squeezed(before, blank, after) ==
    LET indent == IF blank # <<>> /\ blank[1] = SP THEN <<SP>> ELSE <<>>
    IN  Parse(before \o blank \o <<NL>> \o after) = Parse(before \o indent \o after)

(* An $INCLUDE adds the records of the file and leaves no other trace: the *)
(* lines after it mean what they mean without it.                          *)
IncludeScoped(before, directive, after) ==
    LET Scoped(with, without, own) ==
            (with # None /\ own # None) =>
                LET n == Len(own.recs)
                    added == Len(with.recs) - Len(without.recs)
                IN  /\ without # None
                    /\ with.origin = without.origin
                    /\ SubSeq(with.recs, 1, n) = own.recs
                    /\ SubSeq(with.recs, n + added + 1, Len(with.recs))
                           = SubSeq(without.recs, n + 1, Len(without.recs))
    IN  Scoped(Parse(before \o directive \o <<NL>> \o after), Parse(before \o after), Parse(before))
=============================================================================
