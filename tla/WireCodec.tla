------------------------------ MODULE WireCodec ------------------------------
(***************************************************************************)
(* wire/wirebb and wire: domain names, the Packer and the Unpacker, the    *)
(* question, record and OPT codecs, and Pack, Unpack and PadEncrypted.     *)
(*                                                                         *)
(* A packed message is a sequence of octets and offsets count from 0, as   *)
(* in the code.  A label is a sequence of octets and a name a sequence of  *)
(* labels, already lowercase (Name holds the folded wire form).  A field   *)
(* of rdata is a sequence of octets, a name, or a sequence of those.  The  *)
(* second part gives the fields of every type.  The limits that a small    *)
(* message cannot reach are constants: PtrSpace stands for 2^14 (what a    *)
(* pointer can address), maxLabelLen for 63 and maxNameLen for 255 octets, *)
(* paddingBlock for the 128 octets of RFC 8467.                            *)
(***************************************************************************)
EXTENDS Integers, Sequences, SequencesExt, FiniteSetsExt

(***************************************************************************)
(* wire/wirebb: names, the Packer with its compression table and the       *)
(* bounds-checked Unpacker.  Reading yields [ok, off, val]: the offset     *)
(* after what was read and its value.                                      *)
(***************************************************************************)

CONSTANTS PtrSpace, maxPtrHops, maxLabelLen, maxNameLen

Good(off, val) == [ok |-> TRUE, off |-> off, val |-> val]
Bad == [ok |-> FALSE, off |-> 0, val |-> <<>>]

(* What is read next, unless an error was returned.                        *)
Then(read, More(_)) == IF read.ok THEN More(read) ELSE Bad

U16(n) == <<n \div 256, n % 256>>

(* Big-endian value of one or two octets.                                  *)
Number(octets) == FoldLeft(LAMBDA acc, o : acc * 256 + o, 0, octets)

Suffix(n, i) == SubSeq(n, i, Len(n))

foldByte(b) == IF b \in 65..90 THEN b + 32 ELSE b

(* FromLabels: what may be a name.                                         *)
FromLabels(labels) ==
    LET wire == FlattenSeq([i \in DOMAIN labels |-> <<Len(labels[i])>> \o labels[i]])
    IN  IF (\A i \in DOMAIN labels : Len(labels[i]) \in 1..maxLabelLen) /\ Len(wire) < maxNameLen
        THEN Good(Len(labels), [i \in DOMAIN labels |-> [j \in DOMAIN labels[i] |-> foldByte(labels[i][j])]])
        ELSE Bad

Labels(n) == FlattenSeq([i \in DOMAIN n |-> <<Len(n[i])>> \o n[i]])

AppendWire(n) == Labels(n) \o <<0>>

NewPacker(buf) == [buf |-> buf, comp |-> <<>>]

Raw(p, octets) == [p EXCEPT !.buf = @ \o octets]

NameUncompressed(p, n) == Raw(p, AppendWire(n))

\* Mutant: every suffix is entered at the name's start.
Name_Start(p, n) ==
    LET known(i) == {e \in ToSet(p.comp) : e.suffix = Suffix(n, i)}
        cuts == {i \in DOMAIN n : known(i) # {}}
        k == IF cuts = {} THEN Len(n) + 1 ELSE Min(cuts)
        ptr == (CHOOSE e \in known(k) : TRUE).at
    IN  [buf |-> p.buf \o Labels(SubSeq(n, 1, k - 1))
                 \o (IF k > Len(n) THEN <<0>> ELSE <<192 + ptr \div 256, ptr % 256>>),
         comp |-> p.comp \o [i \in 1..(k - 1) |-> [suffix |-> Suffix(n, i), at |-> Len(p.buf)]]]

(* Name emits labels until the rest of the name is in the compression      *)
(* table, then a pointer; every suffix it spells out is entered at its     *)
(* offset.  comp is a sequence of [suffix, at].                            *)
Name(p, n) ==
    LET at(i) == Len(p.buf) + Len(Labels(SubSeq(n, 1, i - 1)))
        known(i) == {e \in ToSet(p.comp) : e.suffix = Suffix(n, i) /\ e.at < PtrSpace /\ at(i) < PtrSpace}
        cuts == {i \in DOMAIN n : known(i) # {}}
        k == IF cuts = {} THEN Len(n) + 1 ELSE Min(cuts)
        ptr == (CHOOSE e \in known(k) : TRUE).at
        new == SelectSeq([i \in 1..(k - 1) |-> [suffix |-> Suffix(n, i), at |-> at(i)]],
                         LAMBDA e : e.at < PtrSpace)
    IN  [buf |-> p.buf \o Labels(SubSeq(n, 1, k - 1))
                 \o (IF k > Len(n) THEN <<0>> ELSE <<192 + ptr \div 256, ptr % 256>>),
         comp |-> p.comp \o new]

-----------------------------------------------------------------------------
Bytes(msg, off, n) ==
    IF n < 0 \/ off + n > Len(msg) THEN Bad ELSE Good(off + n, SubSeq(msg, off + 1, off + n))

CharStringInRange(msg, off, end) ==
    IF off >= end THEN Bad
    ELSE IF off + 1 + msg[off + 1] > end THEN Bad
    ELSE Bytes(msg, off + 1, msg[off + 1])

(* DecodeWire follows pointers, each strictly backwards and at most        *)
(* maxPtrHops of them; next is the offset behind the first pointer, or -1. *)
RECURSIVE decode(_, _, _, _, _)
decode(msg, cur, next, hops, name) ==
    LET b == msg[cur + 1]
        label == [i \in 1..b |-> foldByte(msg[cur + 1 + i])]
        ptr == (b - 192) * 256 + msg[cur + 2]
    IN  IF cur >= Len(msg) THEN Bad
        ELSE IF b = 0 THEN Good(IF next < 0 THEN cur + 1 ELSE next, name)
        ELSE IF b < 64 THEN
            IF cur + 1 + b > Len(msg) \/ Len(AppendWire(Append(name, label))) > maxNameLen THEN Bad
            ELSE decode(msg, cur + 1 + b, next, hops, Append(name, label))
        ELSE IF b < 192 \/ cur + 1 >= Len(msg) THEN Bad
        ELSE IF ptr >= cur \/ hops = maxPtrHops THEN Bad
        ELSE decode(msg, ptr, IF next < 0 THEN cur + 2 ELSE next, hops + 1, name)

DecodeWire(msg, off) == decode(msg, off, -1, 0, <<>>)

NameInRange(msg, off, end) ==
    IF off > end THEN Bad
    ELSE Then(DecodeWire(msg, off), LAMBDA n : IF n.off > end THEN Bad ELSE n)

(* A name without pointers: one with a pointer is never as long as it      *)
(* reads.                                                                  *)
DecodeWireUncompressed(msg, off) ==
    Then(DecodeWire(msg, off), LAMBDA n : IF n.off - off # Len(AppendWire(n.val)) THEN Bad ELSE n)

(* No octet beyond the window is looked at.                                *)
UncompressedName(msg, off, end) ==
    IF off > end THEN Bad ELSE DecodeWireUncompressed(SubSeq(msg, 1, end), off)
-----------------------------------------------------------------------------
(* The presentation form of a name, a sequence of characters' codes.       *)

Dot == 46
Backslash == 92
Digit(c) == c \in 48..57
Decimal(c) == <<48 + (c \div 100), 48 + ((c \div 10) % 10), 48 + (c % 10)>>

(* String escapes dots, backslashes and what is not printable, and ends    *)
(* every label with a dot.                                                 *)
String(n) ==
    LET char(c) == IF c \in {Dot, Backslash} THEN <<Backslash, c>>
                   ELSE IF c < 33 \/ c > 126 THEN <<Backslash>> \o Decimal(c) ELSE <<c>>
        label(l) == FlattenSeq([i \in DOMAIN l |-> char(l[i])]) \o <<Dot>>
    IN  IF n = <<>> THEN <<Dot>> ELSE FlattenSeq([i \in DOMAIN n |-> label(n[i])])

(* What Parse does with a character: a dot ends a label, which is not      *)
(* empty, and a backslash takes the next character or three        *)
(* digits, kept until there are three; a length is tested as it grows.     *)
parseChar(p, c) ==
    LET refused == [p EXCEPT !.ok = FALSE]
        whole == Append(p.name, p.label)
        flush == IF p.label = <<>> \/ Len(Labels(whole)) > maxNameLen THEN refused
                 ELSE [p EXCEPT !.label = <<>>, !.name = whole]
        appendLabel(b) == IF b \notin 1..255 \/ Len(p.label) >= maxLabelLen THEN refused
                          ELSE [p EXCEPT !.label = Append(@, b), !.escaped = FALSE, !.digits = <<>>]
        v == FoldLeft(LAMBDA acc, d : (acc * 10) + (d - 48), 0, Append(p.digits, c))
    IN  IF ~p.ok THEN p
        ELSE IF ~p.escaped
        THEN IF c = Dot THEN flush
             ELSE IF c = Backslash THEN [p EXCEPT !.escaped = TRUE] ELSE appendLabel(foldByte(c))
        ELSE IF ~Digit(c) THEN IF p.digits = <<>> THEN appendLabel(foldByte(c)) ELSE refused
        ELSE IF Len(p.digits) < 2 THEN [p EXCEPT !.digits = Append(@, c)]
        ELSE appendLabel(v)

Parse(s) ==
    LET start == [ok |-> TRUE, escaped |-> FALSE, digits |-> <<>>, label |-> <<>>, name |-> <<>>]
        end == FoldLeft(parseChar, start, s)
        name == IF end.label = <<>> THEN end.name ELSE Append(end.name, end.label)
    IN  IF s = <<>> THEN Bad
        ELSE IF s = <<Dot>> THEN Good(0, <<>>)
        ELSE IF ~end.ok \/ end.escaped \/ Len(AppendWire(name)) > maxNameLen THEN Bad
        ELSE Good(Len(name), name)
-----------------------------------------------------------------------------
(***************************************************************************)
(* wire/rdata: the wire form of every record type.  A type's rdata is the  *)
(* sequence of its fields, and the definition named after the type gives   *)
(* the kind of each: its Pack method writes them in this order and its     *)
(* unpack function reads them back inside the RDLENGTH window.  What an    *)
(* unpack function and a constructor refuse beyond that is in Valid.       *)
(***************************************************************************)

CONSTANT MaxMessage

(* Kinds of field.  Octets(n) is a fixed number of octets, Counted(n) is   *)
(* preceded by its length in n octets, LengthIn(i) is as long as field i   *)
(* says, Gateway(i) depends on the address kind in field i and Relay(i) on *)
(* the one below the top bit of field i.                                   *)
Octets(n) == [kind |-> "octets", n |-> n]
Counted(n) == [kind |-> "counted", n |-> n]
LengthIn(i) == [kind |-> "lengthIn", n |-> i]
Gateway(i) == [kind |-> "gateway", n |-> i]
Relay(i) == [kind |-> "relay", n |-> i]
Field(kind) == [kind |-> kind, n |-> 0]
Compressible == Field("name")
Uncompressed == Field("uname")
Names == Field("unames")
CharString == Field("chars")
CharStrings == Field("charses")
Rest == Field("rest")
TypeBitmap == Field("bitmap")
SvcParams == Field("params")
APLItems == Field("apl")

A == <<Octets(4)>>
AAAA == <<Octets(16)>>
CNAME == <<Compressible>>
NS == <<Compressible>>
PTR == <<Compressible>>
NSAPPTR == <<Compressible>>
MX == <<Octets(2), Compressible>>
SOA == <<Compressible, Compressible, Octets(4), Octets(4), Octets(4), Octets(4), Octets(4)>>
RP == <<Compressible, Compressible>>
TXT == <<CharStrings>>
SPF == <<CharStrings>>
RESINFO == <<CharStrings>>
HINFO == <<CharString, CharString>>
X25 == <<CharString>>
ISDN == <<CharStrings>>
DNAME == <<Uncompressed>>
SRV == <<Octets(2), Octets(2), Octets(2), Uncompressed>>
KX == <<Octets(2), Uncompressed>>
AFSDB == <<Octets(2), Uncompressed>>
RT == <<Octets(2), Uncompressed>>
LP == <<Octets(2), Uncompressed>>
NAPTR == <<Octets(2), Octets(2), CharString, CharString, CharString, Uncompressed>>
DNSKEY == <<Octets(2), Octets(1), Octets(1), Rest>>
CDNSKEY == <<Octets(2), Octets(1), Octets(1), Rest>>
DS == <<Octets(2), Octets(1), Octets(1), Rest>>
CDS == <<Octets(2), Octets(1), Octets(1), Rest>>
RRSIG == <<Octets(2), Octets(1), Octets(1), Octets(4), Octets(4), Octets(4), Octets(2),
           Uncompressed, Rest>>
NSEC == <<Uncompressed, TypeBitmap>>
NSEC3 == <<Octets(1), Octets(1), Octets(2), Counted(1), Counted(1), TypeBitmap>>
NSEC3PARAM == <<Octets(1), Octets(1), Octets(2), Counted(1)>>
CSYNC == <<Octets(4), Octets(2), TypeBitmap>>
CAA == <<Octets(1), Counted(1), Rest>>
CERT == <<Octets(2), Octets(2), Octets(1), Rest>>
DHCID == <<Rest>>
OPENPGPKEY == <<Rest>>
NSAP == <<Rest>>
Unknown == <<Rest>>
EUI48 == <<Octets(6)>>
EUI64 == <<Octets(8)>>
NID == <<Octets(2), Octets(8)>>
L64 == <<Octets(2), Octets(8)>>
L32 == <<Octets(2), Octets(4)>>
LOC == <<Octets(1), Octets(1), Octets(1), Octets(1), Octets(4), Octets(4), Octets(4)>>
TLSA == <<Octets(1), Octets(1), Octets(1), Rest>>
SMIMEA == <<Octets(1), Octets(1), Octets(1), Rest>>
SSHFP == <<Octets(1), Octets(1), Rest>>
URI == <<Octets(2), Octets(2), Rest>>
ZONEMD == <<Octets(4), Octets(1), Octets(1), Rest>>
TKEY == <<Uncompressed, Octets(4), Octets(4), Octets(2), Octets(2), Counted(2), Counted(2)>>
HIP == <<Octets(1), Octets(1), Octets(2), LengthIn(1), LengthIn(3), Names>>
IPSECKEY == <<Octets(1), Octets(1), Octets(1), Gateway(2), Rest>>
AMTRELAY == <<Octets(1), Octets(1), Relay(2)>>
APL == <<APLItems>>
svcbBody == <<Octets(2), Uncompressed, SvcParams>>

(* unpackTyped: the type codes and the format each one selects.            *)
Format == [A |-> A, NS |-> NS, CNAME |-> CNAME, SOA |-> SOA, PTR |-> PTR, HINFO |-> HINFO,
    MX |-> MX, TXT |-> TXT, RP |-> RP, AFSDB |-> AFSDB, X25 |-> X25, ISDN |-> ISDN, RT |-> RT,
    NSAP |-> NSAP, NSAPPTR |-> NSAPPTR, AAAA |-> AAAA, LOC |-> LOC, SRV |-> SRV,
    NAPTR |-> NAPTR, KX |-> KX, CERT |-> CERT, DNAME |-> DNAME, APL |-> APL, DS |-> DS,
    SSHFP |-> SSHFP, IPSECKEY |-> IPSECKEY, RRSIG |-> RRSIG, NSEC |-> NSEC, DNSKEY |-> DNSKEY,
    DHCID |-> DHCID, NSEC3 |-> NSEC3, NSEC3PARAM |-> NSEC3PARAM, TLSA |-> TLSA,
    SMIMEA |-> SMIMEA, HIP |-> HIP, CDS |-> CDS, CDNSKEY |-> CDNSKEY, OPENPGPKEY |-> OPENPGPKEY,
    CSYNC |-> CSYNC, ZONEMD |-> ZONEMD, SVCB |-> svcbBody, HTTPS |-> svcbBody, SPF |-> SPF,
    NID |-> NID, L32 |-> L32, L64 |-> L64, LP |-> LP, EUI48 |-> EUI48, EUI64 |-> EUI64,
    TKEY |-> TKEY, URI |-> URI, CAA |-> CAA, AMTRELAY |-> AMTRELAY, RESINFO |-> RESINFO,
    Unknown |-> Unknown]

(* The codes of package rrtype; Unknown stands for a code none of them has. *)
Type == [A |-> 1, NS |-> 2, CNAME |-> 5, SOA |-> 6, PTR |-> 12, HINFO |-> 13,
    MX |-> 15, TXT |-> 16, RP |-> 17, AFSDB |-> 18, X25 |-> 19, ISDN |-> 20,
    RT |-> 21, NSAP |-> 22, NSAPPTR |-> 23, AAAA |-> 28, LOC |-> 29, SRV |-> 33,
    NAPTR |-> 35, KX |-> 36, CERT |-> 37, DNAME |-> 39, APL |-> 42, DS |-> 43,
    SSHFP |-> 44, IPSECKEY |-> 45, RRSIG |-> 46, NSEC |-> 47, DNSKEY |-> 48,
    DHCID |-> 49, NSEC3 |-> 50, NSEC3PARAM |-> 51, TLSA |-> 52, SMIMEA |-> 53,
    HIP |-> 55, CDS |-> 59, CDNSKEY |-> 60, OPENPGPKEY |-> 61, CSYNC |-> 62,
    ZONEMD |-> 63, SVCB |-> 64, HTTPS |-> 65, SPF |-> 99, NID |-> 104, L32 |-> 105,
    L64 |-> 106, LP |-> 107, EUI48 |-> 108, EUI64 |-> 109, TKEY |-> 249,
    URI |-> 256, CAA |-> 257, AMTRELAY |-> 260, RESINFO |-> 261, Unknown |-> 65280]

TypeCode(t) == U16(Type[t])
OptCode == U16(41)
CodeType(code) ==
    IF \E t \in DOMAIN Type : TypeCode(t) = code THEN CHOOSE t \in DOMAIN Type : TypeCode(t) = code
    ELSE "Unknown"
-----------------------------------------------------------------------------
(* Windows of 256 types in ascending order, each a bitmap of at most 32    *)
(* octets cut after its last set bit.                                      *)
encodeTypeBitmap(types) ==
    LET octet(w, i) == FoldSet(LAMBDA t, acc : acc + 2 ^ (7 - (t % 8)), 0,
                               {t \in types : t \div 256 = w /\ (t % 256) \div 8 = i})
        last(w) == Max({(t % 256) \div 8 : t \in {u \in types : u \div 256 = w}})
        window(w) == <<w, last(w) + 1>> \o [i \in 1..(last(w) + 1) |-> octet(w, i - 1)]
        used == SelectSeq([i \in 1..256 |-> i - 1], LAMBDA w : \E t \in types : t \div 256 = w)
    IN  FlattenSeq([i \in DOMAIN used |-> window(used[i])])

RECURSIVE decodeTypeBitmap(_, _, _, _)
decodeTypeBitmap(msg, off, end, lastWin) ==
    LET win == msg[off + 1]
        ln == msg[off + 2]
        bits == {win * 256 + 8 * i + b : i \in 0..(ln - 1), b \in 0..7}
        set == {t \in bits : (msg[off + 3 + ((t % 256) \div 8)] \div (2 ^ (7 - (t % 8)))) % 2 = 1}
    IN  IF off >= end THEN Good(off, {})
        ELSE IF off + 2 > Len(msg) THEN Bad
        ELSE IF win <= lastWin \/ ln \notin 1..32 \/ off + 2 + ln > end THEN Bad
        ELSE Then(decodeTypeBitmap(msg, off + 2 + ln, end, win),
                  LAMBDA rest : Good(rest.off, set \cup rest.val))

(* encodeAPLAFD drops the trailing zero octets of an address,              *)
(* decodeAPLAFD puts them back.                                            *)
encodeAPLAFD(addr) ==
    LET sig == {i \in DOMAIN addr : addr[i] # 0}
    IN  IF sig = {} THEN <<>> ELSE SubSeq(addr, 1, Max(sig))

decodeAPLAFD(family, bits, afd) ==
    LET width == IF family = 1 THEN 4 ELSE 16
    IN  IF family \notin {1, 2} \/ bits > 8 * width \/ Len(afd) > width THEN Bad
        ELSE Good(0, afd \o [i \in 1..(width - Len(afd)) |-> 0])

packAPL(items) ==
    FlattenSeq([i \in DOMAIN items |->
        LET it == items[i]
            afd == encodeAPLAFD(it.addr)
        IN  U16(it.family) \o <<it.bits, Len(afd) + (IF it.neg THEN 128 ELSE 0)>> \o afd])

RECURSIVE unpackAPL(_, _, _)
unpackAPL(msg, off, end) ==
    LET item(head, addr) == [family |-> Number(SubSeq(head, 1, 2)), bits |-> head[3],
                             neg |-> head[4] >= 128, addr |-> addr]
    IN  IF off >= end THEN Good(off, <<>>)
        ELSE Then(Bytes(msg, off, 4), LAMBDA head :
               IF head.off + (head.val[4] % 128) > end THEN Bad
               ELSE Then(Bytes(msg, head.off, head.val[4] % 128), LAMBDA afd :
                      Then(decodeAPLAFD(Number(SubSeq(head.val, 1, 2)), head.val[3], afd.val),
                           LAMBDA addr :
                             Then(unpackAPL(msg, afd.off, end), LAMBDA rest :
                                    Good(rest.off, <<item(head.val, addr.val)>> \o rest.val)))))

packBody(params) ==
    FlattenSeq([i \in DOMAIN params |-> U16(params[i].key) \o U16(Len(params[i].data)) \o params[i].data])

(* An ALPN value is a list of non-empty strings.                           *)
RECURSIVE decodeALPN(_)
decodeALPN(data) ==
    IF data = <<>> THEN TRUE
    ELSE IF data[1] = 0 \/ 1 + data[1] > Len(data) THEN FALSE
    ELSE decodeALPN(SubSeq(data, 2 + data[1], Len(data)))

validateSvcParam(param) == param.key = 1 => decodeALPN(param.data)

(* The keys a record declares mandatory: some, ascending, not key 0        *)
(* itself, and all of them there.                                          *)
validateMandatoryParam(params) ==
    \A i \in DOMAIN params : params[i].key = 0 =>
        LET data == params[i].data
            key(j) == data[2 * j - 1] * 256 + data[2 * j]
        IN  /\ data # <<>> /\ Len(data) % 2 = 0
            /\ \A j \in 1..(Len(data) \div 2) :
                   /\ key(j) # 0
                   /\ j > 1 => key(j) > key(j - 1)
                   /\ \E n \in DOMAIN params : params[n].key = key(j)

RECURSIVE unpackSvcbBody(_, _, _, _)
unpackSvcbBody(msg, off, end, lastKey) ==
    LET key(head) == Number(SubSeq(head, 1, 2))
        length(head) == Number(SubSeq(head, 3, 4))
    IN  IF off >= end THEN Good(off, <<>>)
        ELSE Then(Bytes(msg, off, 4), LAMBDA head :
               IF key(head.val) <= lastKey \/ head.off + length(head.val) > end THEN Bad
               ELSE Then(Bytes(msg, head.off, length(head.val)), LAMBDA data :
                      IF ~validateSvcParam([key |-> key(head.val), data |-> data.val]) THEN Bad
                      ELSE Then(unpackSvcbBody(msg, data.off, end, key(head.val)), LAMBDA rest :
                             Good(rest.off, <<[key |-> key(head.val), data |-> data.val]>> \o rest.val))))
-----------------------------------------------------------------------------
(* The fixed lengths of the registered ZONEMD digests.                     *)
validateZONEMDDigestLength(hash, n) == (hash = 1 => n = 48) /\ (hash = 2 => n = 64)

validateLOCSizeByte(b) == b \div 16 <= 9 /\ b % 16 <= 9

(* The tag of a CAA record.                                                *)
validTag(tag) ==
    Len(tag) \in 1..15 /\ \A i \in DOMAIN tag : tag[i] \in (48..57) \cup (65..90) \cup (97..122)

Valid(t, v) ==
    CASE t = "DNSKEY" -> v[2] = <<3>>
      [] t = "NSEC3" -> v[5] # <<>>
      [] t = "CAA" -> validTag(v[2])
      [] t = "LOC" -> \A i \in 2..4 : validateLOCSizeByte(v[i][1])
      [] t = "ISDN" -> Len(v[1]) \in 1..2
      [] t = "ZONEMD" -> validateZONEMDDigestLength(v[3][1], Len(v[4]))
      [] t = "URI" -> v[3] # <<>>
      [] t \in {"SVCB", "HTTPS"} -> validateMandatoryParam(v[3])
      [] OTHER -> TRUE

(* How Pack writes one field.                                              *)
packField(p, f, val) ==
    CASE f.kind = "name" -> Name(p, val)
      [] f.kind = "uname" -> NameUncompressed(p, val)
      [] f.kind = "unames" -> Raw(p, FlattenSeq([i \in DOMAIN val |-> AppendWire(val[i])]))
      [] f.kind = "counted" -> Raw(p, (IF f.n = 1 THEN <<Len(val)>> ELSE U16(Len(val))) \o val)
      [] f.kind = "chars" -> Raw(p, <<Len(val)>> \o val)
      [] f.kind = "charses" -> Raw(p, FlattenSeq([i \in DOMAIN val |-> <<Len(val[i])>> \o val[i]]))
      [] f.kind = "bitmap" -> Raw(p, encodeTypeBitmap(val))
      [] f.kind = "params" -> Raw(p, packBody(val))
      [] f.kind = "apl" -> Raw(p, packAPL(val))
      [] f.kind \in {"gateway", "relay"} -> IF val.name THEN NameUncompressed(p, val.gw) ELSE Raw(p, val.gw)
      [] OTHER -> Raw(p, val)

(* One field after the next, as far as the value has them: an rdata of     *)
(* length zero is an Unknown without fields whatever the type.             *)
packRData(p, t, v) ==
    FoldLeft(LAMBDA q, i : packField(q, Format[t][i], v[i]), p, [i \in DOMAIN v |-> i])

(* As many names, or as many strings, as the window holds.                 *)
RECURSIVE readList(_, _, _, _)
readList(names, msg, off, end) ==
    IF off >= end THEN Good(off, <<>>)
    ELSE Then(IF names THEN UncompressedName(msg, off, end) ELSE CharStringInRange(msg, off, end),
              LAMBDA x : Then(readList(names, msg, x.off, end),
                              LAMBDA rest : Good(rest.off, <<x.val>> \o rest.val)))

(* A gateway: none, an IPv4 or IPv6 address inside the window, or a name.  *)
readGateway(msg, off, end, kind) ==
    LET width == CASE kind = 0 -> 0 [] kind = 1 -> 4 [] OTHER -> 16
    IN  IF kind = 3 THEN Then(UncompressedName(msg, off, end),
                              LAMBDA n : Good(n.off, [name |-> TRUE, gw |-> n.val]))
        ELSE IF kind > 3 \/ off + width > end THEN Bad
        ELSE Good(off + width, [name |-> FALSE, gw |-> Bytes(msg, off, width).val])

(* How an unpack function reads one field.  A fixed-size integer is        *)
(* checked against the message only; all else against the rdata window.    *)
unpackField(msg, off, end, f, got) ==
    LET windowed(at, n) == IF at + n > end THEN Bad ELSE Bytes(msg, at, n)
    IN  CASE f.kind = "octets" -> Bytes(msg, off, f.n)
          [] f.kind = "name" -> NameInRange(msg, off, end)
          [] f.kind = "uname" -> UncompressedName(msg, off, end)
          [] f.kind \in {"unames", "charses"} -> readList(f.kind = "unames", msg, off, end)
          [] f.kind = "counted" -> Then(Bytes(msg, off, f.n),
                                        LAMBDA n : windowed(n.off, Number(n.val)))
          [] f.kind = "lengthIn" -> windowed(off, Number(got[f.n]))
          [] f.kind = "gateway" -> readGateway(msg, off, end, got[f.n][1])
          [] f.kind = "relay" -> readGateway(msg, off, end, got[f.n][1] % 128)
          [] f.kind = "chars" -> CharStringInRange(msg, off, end)
          [] f.kind = "bitmap" -> decodeTypeBitmap(msg, off, end, -1)
          [] f.kind = "params" -> unpackSvcbBody(msg, off, end, -1)
          [] f.kind = "apl" -> unpackAPL(msg, off, end)
          [] f.kind = "rest" -> Bytes(msg, off, end - off)

(* Unpack: the window must lie in the message and be consumed exactly.     *)
RECURSIVE unpackTyped(_, _, _, _, _)
unpackTyped(msg, off, end, t, got) ==
    IF Len(got) = Len(Format[t]) THEN (IF Valid(t, got) /\ off = end THEN Good(off, got) ELSE Bad)
    ELSE Then(unpackField(msg, off, end, Format[t][Len(got) + 1], got),
              LAMBDA x : unpackTyped(msg, x.off, end, t, Append(got, x.val)))

unpackRData(msg, off, t, rdlen) ==
    IF off + rdlen > Len(msg) THEN Bad
    ELSE IF rdlen = 0 THEN Good(off, <<>>)
    ELSE unpackTyped(msg, off, off + rdlen, t, <<>>)
-----------------------------------------------------------------------------
(* wire: questions, records, EDNS, messages, padding.                      *)

CONSTANTS paddingBlock, Padding

(* A question echoes the octets it arrived with, case included; one built  *)
(* by NewQuestion has none and is packed in lower case.  Neither goes      *)
(* through the compression table, and a compressed one is refused.         *)
packQuestion(p, q) ==
    LET name == IF q.rawName # <<>> THEN q.rawName ELSE AppendWire(q.name)
    IN  Raw(p, name \o q.type \o q.class)

unpackQuestion(msg, off) ==
    Then(DecodeWire(msg, off), LAMBDA n :
      IF n.off - off # Len(AppendWire(n.val)) THEN Bad
      ELSE Then(Bytes(msg, n.off, 4), LAMBDA x :
             Good(x.off, [name |-> n.val, rawName |-> SubSeq(msg, off + 1, n.off),
                          type |-> SubSeq(x.val, 1, 2), class |-> SubSeq(x.val, 3, 4)])))

(* The rdata is packed behind a two-octet placeholder that is patched with *)
(* its length.                                                             *)
packRecord(p, r) ==
    LET patched(head, body, n) ==
            [body EXCEPT !.buf[head - 1] = n \div 256, !.buf[head] = n % 256]
        withRData(head, body) == patched(Len(head.buf), body, Len(body.buf) - Len(head.buf))
        after(head) == withRData(head, packRData(head, r.type, r.rdata))
    IN  after(Raw(Name(p, r.name), TypeCode(r.type) \o r.class \o r.ttl \o <<0, 0>>))

(* A TTL with its high bit set counts as zero.                             *)
clampTTL(ttl) == IF ttl[1] >= 128 THEN <<0, 0, 0, 0>> ELSE ttl

unpackRecord(msg, off) ==
    LET rdata(x, t) == unpackRData(msg, x.off, t, Number(SubSeq(x.val, 9, 10)))
    IN  Then(DecodeWire(msg, off), LAMBDA n :
          Then(Bytes(msg, n.off, 10), LAMBDA x :
            Then(rdata(x, CodeType(SubSeq(x.val, 1, 2))), LAMBDA rd :
              Good(rd.off, [name |-> n.val, type |-> CodeType(SubSeq(x.val, 1, 2)),
                            class |-> SubSeq(x.val, 3, 4),
                            ttl |-> clampTTL(SubSeq(x.val, 5, 8)), rdata |-> rd.val]))))

(* The OPT pseudo-record: root owner, payload size as class, extended      *)
(* RCODE, version and the DO bit as TTL, and the options as rdata.         *)
packOPT(p, e) ==
    LET opts == FlattenSeq([i \in DOMAIN e.opts |->
                    U16(e.opts[i].code) \o U16(Len(e.opts[i].data)) \o e.opts[i].data])
    IN  Raw(p, <<0>> \o OptCode \o e.udpSize \o <<e.extRCODE, e.version, IF e.do THEN 128 ELSE 0, 0>>
               \o U16(Len(opts)) \o opts)

RECURSIVE options(_, _, _, _)
options(msg, off, end, seen) ==
    LET code(head) == Number(SubSeq(head, 1, 2))
        length(head) == Number(SubSeq(head, 3, 4))
    IN  IF off >= end THEN Good(off, <<>>)
        ELSE Then(Bytes(msg, off, 4), LAMBDA head :
               IF head.off + length(head.val) > end \/ code(head.val) \in seen THEN Bad
               ELSE Then(Bytes(msg, head.off, length(head.val)), LAMBDA data :
                      Then(options(msg, data.off, end, seen \cup {code(head.val)}), LAMBDA rest :
                        Good(rest.off, <<[code |-> code(head.val), data |-> data.val]>> \o rest.val))))

unpackOPT(msg, off) ==
    LET end(x) == x.off + Number(SubSeq(x.val, 9, 10))
    IN  Then(DecodeWire(msg, off), LAMBDA n :
          Then(Bytes(msg, n.off, 10), LAMBDA x :
            IF n.val # <<>> \/ end(x) > Len(msg) THEN Bad
            ELSE Then(options(msg, x.off, end(x), {}), LAMBDA opts :
                   IF opts.off # end(x) THEN Bad
                   ELSE Good(opts.off, [udpSize |-> SubSeq(x.val, 3, 4), extRCODE |-> x.val[5],
                                        version |-> x.val[6], do |-> x.val[7] >= 128,
                                        opts |-> opts.val]))))

RECURSIVE unpackRRs(_, _, _)
unpackRRs(msg, off, n) ==
    IF n = 0 THEN Good(off, <<>>)
    ELSE Then(unpackRecord(msg, off), LAMBDA r :
           Then(unpackRRs(msg, r.off, n - 1), LAMBDA rest : Good(rest.off, <<r.val>> \o rest.val)))

RECURSIVE unpackQuestions(_, _, _)
unpackQuestions(msg, off, n) ==
    IF n = 0 THEN Good(off, <<>>)
    ELSE Then(unpackQuestion(msg, off), LAMBDA q :
           Then(unpackQuestions(msg, q.off, n - 1), LAMBDA rest : Good(rest.off, <<q.val>> \o rest.val)))

(* The type of every additional is peeked at: one OPT may be among them,   *)
(* anywhere, and it is kept apart.                                         *)
RECURSIVE unpackAdditionals(_, _, _, _)
unpackAdditionals(msg, off, n, edns) ==
    IF n = 0 THEN Good(off, [recs |-> <<>>, edns |-> edns])
    ELSE Then(DecodeWire(msg, off), LAMBDA name :
           Then(Bytes(msg, name.off, 2), LAMBDA t :
             IF t.val = OptCode THEN
               IF edns # <<>> THEN Bad
               ELSE Then(unpackOPT(msg, off), LAMBDA e : unpackAdditionals(msg, e.off, n - 1, <<e.val>>))
             ELSE Then(unpackRecord(msg, off), LAMBDA r :
                    Then(unpackAdditionals(msg, r.off, n - 1, edns), LAMBDA rest :
                      Good(rest.off, [rest.val EXCEPT !.recs = <<r.val>> \o @])))))

(* The octets of a message as any encoder with this compression makes      *)
(* them, whatever its TTLs.                                                *)
packed(m) ==
    LET header == m.id \o m.flags \o U16(Len(m.questions)) \o U16(Len(m.answers))
                  \o U16(Len(m.authorities)) \o U16(Len(m.additionals) + Len(m.edns))
        asked == FoldLeft(packQuestion, NewPacker(header), m.questions)
        all == FoldLeft(packRecord, asked, m.answers \o m.authorities \o m.additionals)
    IN  FoldLeft(packOPT, all, m.edns).buf

(* Pack refuses a TTL that NewRecord would refuse and an oversized result. *)
Pack(m) ==
    LET records == m.answers \o m.authorities \o m.additionals
        sized(buf) == IF Len(buf) > MaxMessage THEN Bad ELSE Good(Len(buf), buf)
    IN  IF \E i \in DOMAIN records : records[i].ttl[1] >= 128 THEN Bad ELSE sized(packed(m))

Unpack(buf) ==
    LET count(i) == Number(SubSeq(buf, i, i + 1))
        message(qs, an, ns, ar) ==
            [id |-> SubSeq(buf, 1, 2), flags |-> SubSeq(buf, 3, 4), questions |-> qs, answers |-> an,
             authorities |-> ns, additionals |-> ar.recs, edns |-> ar.edns]
    IN  IF Len(buf) < 12 THEN Bad
        ELSE Then(unpackQuestions(buf, 12, count(5)), LAMBDA qs :
               Then(unpackRRs(buf, qs.off, count(7)), LAMBDA an :
                 Then(unpackRRs(buf, an.off, count(9)), LAMBDA ns :
                   Then(unpackAdditionals(buf, ns.off, count(11), <<>>), LAMBDA ar :
                     Good(ar.off, message(qs.val, an.val, ns.val, ar.val))))))

(* PadEncrypted adds (or extends) the OPT with a Padding option that       *)
(* rounds the packed size up to a block; a message that carries one        *)
(* already, or that cannot be packed, is returned as it is.                *)
PadEncrypted(m) ==
    LET base == IF m.edns # <<>> THEN m.edns[1]
                ELSE [udpSize |-> <<4, 208>>, extRCODE |-> 0, version |-> 0, do |-> FALSE, opts |-> <<>>]
        build(n) == [m EXCEPT !.edns = <<[base EXCEPT !.opts =
                        Append(@, [code |-> Padding, data |-> [i \in 1..n |-> 0]])]>>]
        missing(n) == IF n % paddingBlock = 0 THEN 0 ELSE paddingBlock - (n % paddingBlock)
        packable(padded) == IF Pack(padded).ok THEN padded ELSE m
    IN  IF \E i \in DOMAIN base.opts : base.opts[i].code = Padding THEN m
        ELSE packable(build(missing(Len(packed(build(0))))))

-----------------------------------------------------------------------------
(* What Unpack makes of a packed message: the questions keep their octets. *)
Received(m) ==
    [m EXCEPT !.questions = [i \in DOMAIN @ |-> [@[i] EXCEPT !.rawName =
                                IF @ = <<>> THEN AppendWire(m.questions[i].name) ELSE @]],
              !.answers = [i \in DOMAIN @ |-> [@[i] EXCEPT !.ttl = clampTTL(@)]],
              !.authorities = [i \in DOMAIN @ |-> [@[i] EXCEPT !.ttl = clampTTL(@)]],
              !.additionals = [i \in DOMAIN @ |-> [@[i] EXCEPT !.ttl = clampTTL(@)]]]

(* An owner so nested in earlier ones that the Packer, which counts no     *)
(* hops, may reach its last label over more pointers than are followed.    *)
LongChain(m) ==
    LET owners == [i \in DOMAIN (m.answers \o m.authorities \o m.additionals) |->
                       (m.answers \o m.authorities \o m.additionals)[i].name]
    IN  \E i \in DOMAIN owners :
            Cardinality({owners[j] : j \in {k \in 1..(i - 1) : \E l \in 2..Len(owners[i]) :
                                               owners[k] = Suffix(owners[i], l)}}) > maxPtrHops

(* A message that arrives is understood as it was meant, whatever mix of   *)
(* compressed and uncompressed names it is made of, and what Unpack makes  *)
(* of it can be packed again and means the same, the name asked for being  *)
(* one the constructors make, up to the longest (wire/dnsmsg.go Pack and   *)
(* Unpack; wire/fuzz_test.go calls a parsed message that cannot be         *)
(* re-encoded a real bug).  Only a message with a chain of owners longer   *)
(* than maxPtrHops is refused (name.go:392).                               *)
Reencodable(m) ==
    LET again(in, out) == out.ok /\ Unpack(out.val).val = in
        understood(in) ==
            IF ~in.ok THEN LongChain(m) ELSE
            /\ in.val = Received(m)
            /\ \A i \in DOMAIN m.questions :
                   FromLabels(in.val.questions[i].name).val = m.questions[i].name
            /\ again(in.val, Pack(in.val))
    IN  understood(Unpack(packed(m)))

(* No message cut short is taken for a whole one: Unpack refuses every     *)
(* proper prefix, so a torn read never yields fewer records than were      *)
(* sent.                                                                   *)
CutRefused(m) ==
    LET refused(buf) == \A n \in 0..(Len(buf) - 1) : ~Unpack(SubSeq(buf, 1, n)).ok
    IN  refused(packed(m))

(* The code of a capital written as three digits, which Parse does not fold. *)
CapitalEscaped(s) ==
    \E c \in 65..90, i \in DOMAIN s : SubSeq(s, i, i + 3) = <<Backslash>> \o Decimal(c)

(* A text that Parse takes is a name in lower case that FromLabels takes,  *)
(* and that name is what is read back from its text and its wire form,     *)
(* unless three digits spell a capital: that one stays in the name, which  *)
(* is read back folded (wirebb/name.go Parse, String, AppendWire,          *)
(* DecodeWireUncompressed).                                                *)
Respelled(s) ==
    LET kept(name, n) ==
            /\ n.ok
            /\ n.val = name \/ CapitalEscaped(s)
            /\ Parse(String(name)) = n
            /\ DecodeWireUncompressed(AppendWire(name), 0).val = n.val
    IN  Parse(s).ok => kept(Parse(s).val, FromLabels(Parse(s).val))

(* A padded query fills whole blocks and asks what the original asked, and *)
(* every query that can be sent and is not padded yet gets padded.         *)
PaddedWhole(m) ==
    LET whole(buf) == Len(buf) % paddingBlock = 0 /\ (Unpack(buf).ok \/ LongChain(m))
        kept(p) ==
            /\ \A f \in {"id", "flags", "questions", "answers", "authorities", "additionals"} : p[f] = m[f]
            /\ p # m => whole(packed(p))
            /\ Pack(m).ok /\ (\A i \in DOMAIN m.edns :
                   \A j \in DOMAIN m.edns[i].opts : m.edns[i].opts[j].code # Padding) => p # m
    IN  kept(PadEncrypted(m))
=============================================================================
