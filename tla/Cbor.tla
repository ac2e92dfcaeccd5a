-------------------------------- MODULE Cbor --------------------------------
(***************************************************************************)
(* The CBOR codec with its streaming reader, and the types it is used for. *)
(***************************************************************************)
EXTENDS ActorBase, FiniteSets, TLC

(***************************************************************************)
(* The CBOR codec: tokens (core/codec/cbor/cbor_token.hpp), the encode and *)
(* decode streams, the scalar types that have a CBOR form of their own     *)
(* (big integers, addresses, signatures, bitfields, CIDs), and the framing *)
(* of objects on a libp2p stream (core/common/libp2p/cbor_buffering.cpp,   *)
(* cbor_stream.cpp).                                                       *)
(*                                                                         *)
(* A byte is a number below 256.  A 64-bit number is the sequence of its   *)
(* eight bytes, the highest first; a negative one is in two's complement.  *)
(* A type is a record with its kind; encode and decode are by type, as the *)
(* overloads of << and >> are.  Digests and signatures keep their place    *)
(* and their fixed size, which is a small one.                             *)
(***************************************************************************)

Rle == INSTANCE RlePlus WITH RlPoints <- {}, rlRuns <- <<>>, rlSet <- {}

kHashSize == 3  \* bytes of a digest: 32
kBlsSize == 4   \* bytes of a BLS signature: 96
kSecpSize == 3  \* bytes of a secp256k1 signature: 65

Concat(seqs) ==
  LET RECURSIVE cat(_, _)
      cat(from, to) ==
        CASE from > to -> <<>>
          [] from = to -> seqs[from]
          [] from < to -> LET mid == (from + to) \div 2 IN cat(from, mid) \o cat(mid + 1, to)
  IN  cat(1, Len(seqs))

\* A loop: step until go is false.  2 ^ k turns are taken by two times half of
\* them, which keeps the recursion shallow.
While(step(_), s) ==
  LET RECURSIVE turns(_, _)
      turns(x, k) ==
        IF ~x.go THEN x ELSE IF k = 0 THEN step(x) ELSE turns(turns(x, k - 1), k - 1)
      RECURSIVE from(_, _)
      from(x, k) == IF ~x.go THEN x ELSE from(turns(x, k), k + 1)
  IN  from(s, 0)

---------------------------------------------------------------------------
(* 64-bit numbers.                                                         *)

Num(n) == <<0, 0, 0, 0, 0, (n \div 65536) % 256, (n \div 256) % 256, n % 256>>
CbZero == Num(0)
Invert(e) == [i \in 1..8 |-> 255 - e[i]]
Negative(e) == e[1] >= 128
ZeroUpTo(e, n) == \A i \in 1..n : e[i] = 0

\* e - 1.
Decrement(e) ==
  LET last == Max({0} \cup {i \in 1..8 : e[i] # 0}) IN
  [i \in 1..8 |-> IF i < last THEN e[i] ELSE IF i = last THEN e[i] - 1 ELSE 255]

\* A length or count as a number; no input is as long as Huge.
Huge == 2 ^ 24
SizeOf(e) == IF ZeroUpTo(e, 5) THEN 65536 * e[6] + 256 * e[7] + e[8] ELSE Huge

BitsOfNum(e) == {p \in 0..63 : (e[8 - p \div 8] \div (2 ^ (p % 8))) % 2 = 1}

---------------------------------------------------------------------------
(* uvarint.                                                                *)

VarintEncoder(e) ==
  LET bits == BitsOfNum(e)
      last == Max({0} \cup bits) \div 7
      group(g) == SumOf([i \in {j \in 0..6 : 7 * g + j \in bits} |-> 2 ^ i])
  IN  [g \in 1..(last + 1) |-> group(g - 1) + (IF g - 1 < last THEN 128 ELSE 0)]

\* read: the number, of less than 2^28, and what is behind it.  Larger ones
\* shift an int past its width (VarintDecoder::update).
RECURSIVE varintFrom(_, _)
varintFrom(input, shift) ==
  IF input = <<>> \/ shift > 21 THEN [ok |-> FALSE, v |-> 0, rest |-> input]
  ELSE IF Head(input) < 128
  THEN [ok |-> TRUE, v |-> Head(input) * (2 ^ shift), rest |-> Tail(input)]
  ELSE LET more == varintFrom(Tail(input), shift + 7) IN
       [more EXCEPT !.v = @ + (Head(input) - 128) * (2 ^ shift)]
readVarint(input) == varintFrom(input, 0)

---------------------------------------------------------------------------
(* Tokens.                                                                 *)

UINT == 0
INT == 1
BYTES == 2
STR == 3
LIST == 4
MAP == 5
CID == 6
SPECIAL == 7
INVALID == 8

kExtraFalse == 20
kExtraTrue == 21
kExtraNull == 22
kExtraCid == 42

Widths == 24 :> 1 @@ 25 :> 2 @@ 26 :> 4 @@ 27 :> 8

_more(extra) ==
  CASE ZeroUpTo(extra, 7) /\ extra[8] < 24 -> 0
    [] ZeroUpTo(extra, 7) /\ extra[8] >= 24 -> 1
    [] ZeroUpTo(extra, 6) /\ ~ZeroUpTo(extra, 7) -> 2
    [] ZeroUpTo(extra, 4) /\ ~ZeroUpTo(extra, 6) -> 4
    [] ~ZeroUpTo(extra, 4) -> 8

CborTokenEncoder(type, extra) ==
  LET more == _more(extra) IN
  IF more = 0 THEN <<32 * type + extra[8]>>
  ELSE <<32 * type + (CHOOSE first \in DOMAIN Widths : Widths[first] = more)>>
       \o SubSeq(extra, 9 - more, 8)

NewToken == [type |-> INVALID, extra |-> CbZero, more |-> 1,
             error |-> FALSE, tag |-> FALSE, cid |-> FALSE]

\* CborTokenDecoder::update.
updateToken(d, byte) ==
  LET fresh == d.type = INVALID
      type == IF fresh THEN byte \div 32 ELSE d.type
      low == byte % 32
      extra == IF fresh THEN (IF low < 24 THEN Num(low) ELSE CbZero)
               ELSE Append(Tail(d.extra), byte)
      more == IF fresh THEN GetOr(Widths, low, 0) ELSE d.more - 1
      error == fresh /\ ((d.tag /\ type # BYTES) \/ low > 27)
      read == [d EXCEPT !.type = type, !.extra = extra, !.more = more, !.error = error]
  IN  CASE d.cid -> [d EXCEPT !.more = @ - 1]
        [] ~d.cid /\ (error \/ more > 0) -> read
        [] ~d.cid /\ ~error /\ more = 0 /\ d.tag ->
             [read EXCEPT !.type = CID, !.extra = Decrement(@), !.more = 1, !.cid = TRUE]
        [] ~d.cid /\ ~error /\ more = 0 /\ ~d.tag ->
             IF type # CID THEN read
             ELSE IF extra # Num(kExtraCid) THEN [read EXCEPT !.error = TRUE]
             ELSE [NewToken EXCEPT !.tag = TRUE]

\* read(token, input): the token, whether there was one, and what is behind.
RECURSIVE tokenFrom(_, _)
tokenFrom(d, input) ==
  IF d.error \/ (d.more # 0 /\ input = <<>>)
  THEN [ok |-> FALSE, type |-> INVALID, extra |-> CbZero, rest |-> input]
  ELSE IF d.more = 0 THEN [ok |-> TRUE, type |-> d.type, extra |-> d.extra, rest |-> input]
  ELSE tokenFrom(updateToken(d, Head(input)), Tail(input))
read(input) == tokenFrom(NewToken, input)

anySize(t) == IF t.type \in {BYTES, STR, CID} THEN SizeOf(t.extra) ELSE 0
anyCount(t) ==
  CASE t.type = LIST -> SizeOf(t.extra)
    [] t.type = MAP -> 2 * SizeOf(t.extra)
    [] t.type \notin {LIST, MAP} -> 0

Drop(bytes, n) == SubSeq(bytes, n + 1, Len(bytes))
Take(bytes, n) == SubSeq(bytes, 1, n)

\* read(CborNestedDecoder, input): what is behind the item at the input.
skipItem(s) ==
  LET past(t, count) ==
        IF ~t.ok \/ Len(t.rest) < anySize(t) THEN [ok |-> FALSE, rest |-> <<>>, count |-> 0, go |-> FALSE]
        ELSE [ok |-> TRUE, rest |-> Drop(t.rest, anySize(t)), count |-> count - 1, go |-> count > 0]
  IN  Bind(read(s.rest), LAMBDA t : past(t, s.count + anyCount(t)))
skipItems(input) == While(skipItem, [ok |-> TRUE, rest |-> input, count |-> 0, go |-> TRUE])

readNested(input) ==
  Bind(skipItems(input), LAMBDA past :
    [ok |-> past.ok, rest |-> past.rest,
     nested |-> IF past.ok THEN Take(input, Len(input) - Len(past.rest)) ELSE <<>>])

RECURSIVE skipNested(_, _)
skipNested(input, count) ==
  IF count = 0 THEN [ok |-> TRUE, rest |-> input]
  ELSE Bind(readNested(input), LAMBDA past :
         IF past.ok THEN skipNested(past.rest, count - 1) ELSE [ok |-> FALSE, rest |-> <<>>])

\* The CIDs that findCid, called until it fails, finds.
findCid(s) ==
  LET found(t, size) ==
        IF ~t.ok \/ Len(t.rest) < size THEN [s EXCEPT !.go = FALSE]
        ELSE [rest |-> Drop(t.rest, size), go |-> TRUE,
              cids |-> IF t.type = CID THEN Append(s.cids, Take(t.rest, size)) ELSE s.cids]
  IN  Bind(read(s.rest), LAMBDA t : found(t, anySize(t)))
findCids(input) == While(findCid, [rest |-> input, go |-> TRUE, cids |-> <<>>]).cids

writeInt(e) ==
  IF Negative(e) THEN CborTokenEncoder(INT, Invert(e)) ELSE CborTokenEncoder(UINT, e)

writeCid(bytes) ==
  CborTokenEncoder(CID, Num(kExtraCid))
    \o CborTokenEncoder(BYTES, Num(Len(bytes) + 1)) \o <<0>> \o bytes

---------------------------------------------------------------------------
(* Types.                                                                  *)

Unsigned(bytes) == [kind |-> "uint", bytes |-> bytes]
Signed(bytes) == [kind |-> "int", bytes |-> bytes]
Bool == [kind |-> "bool"]
Bytes == [kind |-> "bytes"]
Blob(size) == [kind |-> "blob", size |-> size]
Text == [kind |-> "text"]
Cid == [kind |-> "cid"]
CbCid == [kind |-> "cbcid"]
BlockParentCbCids == [kind |-> "parents"]
BigInt == [kind |-> "bigint"]
Address == [kind |-> "address"]
Signature == [kind |-> "signature"]
RleBitset == [kind |-> "bitset"]
Label == [kind |-> "label"]
CborRaw == [kind |-> "raw"]
None == [kind |-> "none"]
SetValue == [kind |-> "set"]
RestartChannel == [kind |-> "restart"]
Opt(type) == [kind |-> "opt", of |-> type]
ListOf(type) == [kind |-> "list", of |-> type]
\* CBOR_TUPLE of the leading members; lost ones are no part of it.
TupleBut(fields, lost) == [kind |-> "tuple", fields |-> fields, lost |-> lost]
Tuple(fields) == TupleBut(fields, <<>>)
\* A map of named members, by CborEncodeStream::map or orderedMap.
Named(fields) == [kind |-> "map", fields |-> fields]

---------------------------------------------------------------------------
(* Conversions of the scalar types.                                        *)

kDagPb == 112
kDagCbor == 113
kSha256 == 18
kBlake2b == 45600
kCborBlakePrefix == <<1, kDagCbor, 160, 228, 2, kHashSize>>
kMainnetGenesisBlockParent == <<1, kDagCbor, kSha256, kHashSize, 16, 125, 130>>

\* CID::toBytes of a CID [version, codec, type, hash].
toBytes(cid) ==
  (IF cid.version = 0 THEN <<>>
   ELSE VarintEncoder(Num(1)) \o VarintEncoder(Num(cid.codec)))
  \o VarintEncoder(Num(cid.type)) \o VarintEncoder(Num(Len(cid.hash))) \o cid.hash

\* CID::read.
readCid(input) ==
  LET v0 == Len(input) >= 2 /\ input[1] = kSha256 /\ input[2] = kHashSize
      version == readVarint(input)
      codec == readVarint(version.rest)
      type == readVarint(IF v0 THEN input ELSE codec.rest)
      size == readVarint(type.rest)
  IN  IF \/ ~v0 /\ (~version.ok \/ version.v \notin {0, 1} \/ ~codec.ok)
         \/ ~type.ok \/ ~size.ok \/ Len(size.rest) < size.v
      THEN [ok |-> FALSE, v |-> <<>>, rest |-> input]
      ELSE [ok |-> TRUE, rest |-> Drop(size.rest, size.v),
            v |-> [version |-> IF v0 THEN 0 ELSE version.v,
                   codec |-> IF v0 THEN kDagPb ELSE codec.v,
                   type |-> type.v, hash |-> Take(size.rest, size.v)]]

\* light_reader::readCborBlake: the digest, if that is what the bytes are.
readCborBlake(bytes) ==
  LET ok == Len(bytes) = Len(kCborBlakePrefix) + kHashSize
            /\ Take(bytes, Len(kCborBlakePrefix)) = kCborBlakePrefix
  IN  [ok |-> ok, v |-> IF ok THEN Drop(bytes, Len(kCborBlakePrefix)) ELSE <<>>]

\* A big integer [negative, magnitude]; the magnitude has no leading zero.
bigIntBytes(n) ==
  IF n.magnitude = <<>> THEN <<>>
  ELSE <<IF n.negative THEN 1 ELSE 0>> \o n.magnitude

RECURSIVE import_bits(_)
import_bits(bytes) ==
  IF bytes # <<>> /\ Head(bytes) = 0 THEN import_bits(Tail(bytes)) ELSE bytes

bigIntOf(bytes) ==
  IF bytes = <<>> THEN [negative |-> FALSE, magnitude |-> <<>>]
  ELSE LET magnitude == import_bits(Tail(bytes)) IN
       [negative |-> Head(bytes) = 1 /\ magnitude # <<>>, magnitude |-> magnitude]

\* An address [protocol, payload]: an actor id as a varint, or the hash or key
\* of its protocol.
kPayloadSize == 1 :> 2 @@ 2 :> 2 @@ 3 :> 3

addressBytes(a) ==
  <<a.protocol>> \o (IF a.protocol = 0 THEN VarintEncoder(Num(a.payload[1])) ELSE a.payload)

addressOf(bytes) ==
  LET protocol == Head(bytes)
      payload == Tail(bytes)
      id == readVarint(payload)
      ok == /\ bytes # <<>>
            /\ \/ protocol = 0 /\ id.ok
               \/ protocol \in DOMAIN kPayloadSize /\ Len(payload) = kPayloadSize[protocol]
  IN  IF ok THEN [ok |-> TRUE, v |-> [protocol |-> protocol,
                                      payload |-> IF protocol = 0 THEN <<id.v>> ELSE payload]]
      ELSE [ok |-> FALSE, v |-> <<>>]

\* Signature::toBytes and fromBytes of [bls, data].
signatureBytes(s) == <<IF s.bls THEN 2 ELSE 1>> \o s.data

signatureOf(bytes) ==
  IF \/ Len(bytes) = 1 + kSecpSize /\ Head(bytes) = 1
     \/ Len(bytes) = 1 + kBlsSize /\ Head(bytes) = 2
  THEN [ok |-> TRUE, v |-> [bls |-> Head(bytes) = 2, data |-> Tail(bytes)]]
  ELSE [ok |-> FALSE, v |-> <<>>]

bitsetBytes(set) == LET b == Rle!encodeRle(set) IN [i \in DOMAIN b |-> Rle!NatOf(b[i])]
bitsetOf(bytes) == Rle!decodeRle([i \in DOMAIN bytes |-> Rle!BitsOf(bytes[i])])

---------------------------------------------------------------------------
(* CborEncodeStream.  An encoder is its data and how many elements it      *)
(* holds; ok is FALSE once it has raised an error.                         *)

Element(data) == [ok |-> TRUE, data |-> data, count |-> 1]
NothingEncoded == [ok |-> TRUE, data |-> <<>>, count |-> 0]

\* s << a << b.
All(es) ==
  [ok |-> \A i \in DOMAIN es : es[i].ok,
   data |-> Concat([i \in DOMAIN es |-> es[i].data]),
   count |-> SumOf([i \in DOMAIN es |-> es[i].count])]

\* s << l of a list substream: one element, headed by the count of l.
appendList(l) ==
  [ok |-> l.ok, count |-> 1, data |-> CborTokenEncoder(LIST, Num(l.count)) \o l.data]

\* gsl::span: headed by its size, whatever each element counts.
encodeSpan(es) ==
  [ok |-> All(es).ok, count |-> 1,
   data |-> CborTokenEncoder(LIST, Num(Len(es))) \o All(es).data]

encodeBytes(bytes) == Element(CborTokenEncoder(BYTES, Num(Len(bytes))) \o bytes)
encodeText(text) == Element(CborTokenEncoder(STR, Num(Len(text))) \o text)
encodeNull == Element(<<32 * SPECIAL + kExtraNull>>)

\* The name of the i-th member of a map.
Name(i) == <<96 + i>>

\* A map of one value for each name; another number raises
\* kExpectedMapValueSingle.
encodeMap(es) ==
  LET pair(i) == encodeText(Name(i)).data \o es[i].data IN
  [ok |-> All(es).ok /\ \A i \in DOMAIN es : es[i].count = 1, count |-> 1,
   data |-> CborTokenEncoder(MAP, Num(Len(es))) \o Concat([i \in DOMAIN es |-> pair(i)])]

\* The restart channel of a data transfer request: none, or the peers, as
\* texts, and an id.  With one, the peers are written to the stream of the
\* request and only the id to the list: before holds what goes to the stream.
encodeRestart(v) ==
  IF v = <<>>
  THEN [before |-> NothingEncoded,
        list |-> appendList(All(<<encodeText(<<>>), encodeText(<<>>), Element(writeInt(CbZero))>>))]
  ELSE [before |-> All(<<encodeText(v[1]), encodeText(v[2])>>),
        list |-> appendList(Element(writeInt(v[3])))]

RECURSIVE Encode(_, _)

encodeTuple(fields, v) == appendList(All([i \in DOMAIN fields |-> Encode(fields[i], v[i])]))

encodeNamed(fields, v) ==
  LET restarts(i) == fields[i].kind = "restart"
      before == All([i \in DOMAIN fields |->
                       IF restarts(i) THEN encodeRestart(v[i]).before ELSE NothingEncoded])
      member(i) == IF restarts(i) THEN encodeRestart(v[i]).list ELSE Encode(fields[i], v[i])
  IN  All(<<before, encodeMap([i \in DOMAIN fields |-> member(i)])>>)

encodeParents(v) ==
  IF v.genesis
  THEN Element(CborTokenEncoder(LIST, Num(1)) \o writeCid(kMainnetGenesisBlockParent))
  ELSE encodeSpan([i \in DOMAIN v.parents |-> Encode(CbCid, v.parents[i])])

encodeScalar(t, v) ==
  CASE t.kind = "uint" -> Element(CborTokenEncoder(UINT, v))
    [] t.kind = "int" -> Element(writeInt(v))
    [] t.kind = "bool" -> Element(<<32 * SPECIAL + (IF v THEN kExtraTrue ELSE kExtraFalse)>>)
    [] t.kind \in {"bytes", "blob"} -> encodeBytes(v)
    [] t.kind = "text" -> encodeText(v)
    [] t.kind = "cid" -> Element(writeCid(toBytes(v)))
    [] t.kind = "cbcid" -> Element(writeCid(kCborBlakePrefix \o v))
    [] t.kind = "bigint" -> encodeBytes(bigIntBytes(v))
    [] t.kind = "address" -> encodeBytes(addressBytes(v))
    [] t.kind = "signature" -> encodeBytes(signatureBytes(v))
    [] t.kind = "bitset" -> encodeBytes(bitsetBytes(v))
    [] t.kind = "label" -> IF v.text THEN encodeText(v.data) ELSE encodeBytes(v.data)
    [] t.kind = "raw" -> [Element(v) EXCEPT !.ok = v # <<>>]
    [] t.kind = "none" -> NothingEncoded
    [] t.kind = "set" -> encodeNull

Encode(t, v) ==
  CASE t.kind = "opt" -> IF v = <<>> THEN encodeNull ELSE Encode(t.of, v[1])
    [] t.kind = "list" -> encodeSpan([i \in DOMAIN v |-> Encode(t.of, v[i])])
    [] t.kind = "tuple" -> encodeTuple(t.fields, v)
    [] t.kind = "map" -> encodeNamed(t.fields, v)
    [] t.kind = "parents" -> encodeParents(v)
    [] OTHER -> encodeScalar(t, v)

---------------------------------------------------------------------------
(* CborDecodeStream: the bytes behind the current token, those from it on, *)
(* and the token; ok is FALSE once it has raised an error.                 *)

readToken(d) ==
  IF ~d.ok THEN d
  ELSE IF d.partial = <<>>
  THEN [ok |-> TRUE, partial |-> <<>>, input |-> <<>>, type |-> INVALID, extra |-> CbZero]
  ELSE Bind(read(d.partial), LAMBDA t :
    [ok |-> t.ok, partial |-> t.rest, input |-> d.partial, type |-> t.type, extra |-> t.extra])

CborDecodeStream(bytes) ==
  readToken([ok |-> TRUE, partial |-> bytes, input |-> <<>>, type |-> INVALID, extra |-> CbZero])

\* What >> leaves: the value and the stream behind it, or an error.
Got(v, d) == [ok |-> d.ok, v |-> v, d |-> d]
Raised(d) == [ok |-> FALSE, v |-> <<>>, d |-> [d EXCEPT !.ok = FALSE]]

isNull(d) == d.type = SPECIAL /\ d.extra = Num(kExtraNull)

\* The nested item at the stream, and the stream behind it.
nestedOf(d) ==
  Bind(readNested(d.input), LAMBDA raw :
    [v |-> raw.nested, d |-> readToken([d EXCEPT !.ok = @ /\ raw.ok, !.partial = raw.rest])])

\* The size bytes of a token of the type.
decodeSized(d, type) ==
  LET size == SizeOf(d.extra) IN
  IF ~d.ok \/ d.type # type \/ Len(d.partial) < size THEN Raised(d)
  ELSE Got(Take(d.partial, size), readToken([d EXCEPT !.partial = Drop(@, size)]))

fitsUnsigned(e, bytes) == ZeroUpTo(e, 8 - bytes)
fitsSigned(e, bytes) ==
  \/ ZeroUpTo(e, 8 - bytes) /\ e[9 - bytes] < 128
  \/ ZeroUpTo(Invert(e), 8 - bytes) /\ e[9 - bytes] >= 128

asInt(d) == IF d.type = INT THEN Invert(d.extra) ELSE d.extra

decodeInteger(d, t) ==
  IF \/ ~d.ok
     \/ t.kind = "uint" /\ (d.type # UINT \/ ~fitsUnsigned(d.extra, t.bytes))
     \/ t.kind = "int" /\ (d.type \notin {UINT, INT} \/ ~fitsSigned(asInt(d), t.bytes))
  THEN Raised(d)
  ELSE Got(asInt(d), readToken(d))

decodeBool(d) ==
  IF ~d.ok \/ d.type # SPECIAL \/ d.extra \notin {Num(kExtraFalse), Num(kExtraTrue)}
  THEN Raised(d)
  ELSE Got(d.extra = Num(kExtraTrue), readToken(d))

\* A value that the bytes of a token are converted to.
Converted(got, result) == IF got.ok /\ result.ok THEN [got EXCEPT !.v = result.v] ELSE Raised(got.d)

decodeText(t, got) ==
  IF t.kind = "text" THEN got ELSE Converted(got, [ok |-> TRUE, v |-> [text |-> TRUE, data |-> got.v]])

decodeCid(t, got) == Converted(got, IF t.kind = "cid" THEN readCid(got.v) ELSE readCborBlake(got.v))

decodeBytes(t, got) ==
  LET whole(v) == [ok |-> TRUE, v |-> v] IN
  Converted(got, CASE t.kind = "bytes" -> whole(got.v)
                   [] t.kind = "blob" -> [ok |-> Len(got.v) = t.size, v |-> got.v]
                   [] t.kind = "bigint" -> whole(bigIntOf(got.v))
                   [] t.kind = "address" -> addressOf(got.v)
                   [] t.kind = "signature" -> signatureOf(got.v)
                   [] t.kind = "bitset" -> whole(bitsetOf(got.v))
                   [] t.kind = "label" -> whole([text |-> FALSE, data |-> got.v]))

decodeScalar(t, d) ==
  CASE t.kind \in {"uint", "int"} -> decodeInteger(d, t)
    [] t.kind = "bool" -> decodeBool(d)
    [] t.kind = "text" \/ (t.kind = "label" /\ d.type = STR) -> decodeText(t, decodeSized(d, STR))
    [] t.kind \in {"cid", "cbcid"} -> decodeCid(t, decodeSized(d, CID))
    [] \/ t.kind \in {"bytes", "blob", "bigint", "address", "signature", "bitset"}
       \/ t.kind = "label" /\ d.type # STR -> decodeBytes(t, decodeSized(d, BYTES))
    [] t.kind = "raw" -> Bind(nestedOf(d), LAMBDA raw : Got(raw.v, raw.d))
    [] t.kind = "set" -> Got(<<>>, nestedOf(d).d)
    [] t.kind = "none" -> Got(<<>>, d)

RECURSIVE Decode(_, _)

\* l >> a >> b of the members.
decodeFields(fields, l) ==
  While(LAMBDA s : Bind(Decode(fields[Len(s.v) + 1], s.d), LAMBDA got :
          [ok |-> got.ok, d |-> got.d, v |-> Append(s.v, got.v),
           go |-> got.ok /\ Len(s.v) + 1 < Len(fields)]),
        [ok |-> l.ok, d |-> l, v |-> <<>>, go |-> fields # <<>>])

\* list(): the stream of the elements, and the stream behind the list.
listOf(d) ==
  Bind(nestedOf(d), LAMBDA raw :
    IF d.ok /\ d.type = LIST /\ raw.d.ok
    THEN [ok |-> TRUE, l |-> readToken(CborDecodeStream(raw.v)), d |-> raw.d]
    ELSE [ok |-> FALSE, l |-> d, d |-> d])

\* Members that a tuple leaves out keep what T{} gives them.
DefaultOf(t) ==
  CASE t.kind = "bool" -> FALSE
    [] t.kind \in {"opt", "list"} -> <<>>
    [] t.kind = "bigint" -> bigIntOf(<<>>)

\* The members of a list, as Result(members) makes a value of them.
decodeMembers(fields, d, Result(_)) ==
  Bind(listOf(d), LAMBDA list : Bind(decodeFields(fields, list.l), LAMBDA got :
    IF list.ok /\ got.ok THEN Got(Result(got.v), list.d) ELSE Raised(d)))

decodeTuple(t, d) ==
  decodeMembers(t.fields, d, LAMBDA v : v \o [i \in DOMAIN t.lost |-> DefaultOf(t.lost[i])])

decodeList(t, d) == decodeMembers([i \in 1..SizeOf(d.extra) |-> t.of], d, LAMBDA v : v)

\* map(): the streams of the values by their names; the first of two of a
\* name counts.
RECURSIVE mapEntries(_, _)
mapEntries(d, n) ==
  LET failed == [ok |-> FALSE, m |-> Empty, d |-> d] IN
  IF n = 0 THEN [ok |-> d.ok, m |-> Empty, d |-> d]
  ELSE Bind(decodeSized(d, STR), LAMBDA name : Bind(nestedOf(name.d), LAMBDA value :
         IF ~name.ok \/ ~value.d.ok THEN failed
         ELSE Bind(mapEntries(value.d, n - 1), LAMBDA more :
                IF more.ok THEN [more EXCEPT !.m = With(@, name.v, CborDecodeStream(value.v))] ELSE failed)))
mapOf(d) ==
  IF d.ok /\ d.type = MAP THEN mapEntries(readToken(d), SizeOf(d.extra))
  ELSE [ok |-> FALSE, m |-> Empty, d |-> d]

\* The peers and the id of a restart channel; without a peer there is none.
decodeRestart(d) ==
  decodeMembers(<<Text, Text, Unsigned(8)>>, d, LAMBDA v : IF v[1] = <<>> \/ v[2] = <<>> THEN <<>> ELSE v)

decodeNamed(t, d) ==
  LET named(entries, i) == IF Name(i) \in DOMAIN entries.m THEN Decode(t.fields[i], entries.m[Name(i)])
                           ELSE Raised(d)
  IN  Bind(mapOf(d), LAMBDA entries : Bind([i \in DOMAIN t.fields |-> named(entries, i)], LAMBDA got :
        IF entries.ok /\ \A i \in DOMAIN got : got[i].ok
        THEN Got([i \in DOMAIN got |-> got[i].v], entries.d)
        ELSE Raised(d)))

\* readBlockParents: the parents a list token heads, n of them left to read.
RECURSIVE blockParents(_, _)
blockParents(input, n) ==
  LET failed == [ok |-> FALSE, v |-> <<>>, rest |-> input]
      first(t, size) ==
        IF ~t.ok \/ t.type # CID \/ Len(t.rest) < size THEN failed
        ELSE Bind(readCborBlake(Take(t.rest, size)), LAMBDA blake :
               IF ~blake.ok THEN failed
               ELSE Bind(blockParents(Drop(t.rest, size), n - 1), LAMBDA more :
                      IF more.ok THEN [more EXCEPT !.v = <<blake.v>> \o @] ELSE failed))
  IN  IF n = 0 THEN [ok |-> TRUE, v |-> <<>>, rest |-> input]
      ELSE Bind(read(input), LAMBDA t : first(t, SizeOf(t.extra)))
readBlockParents(count, input) ==
  Bind(read(input), LAMBDA t :
    IF count = 1 /\ t.ok /\ t.type = CID /\ IsPrefix(kMainnetGenesisBlockParent, t.rest)
    THEN [ok |-> TRUE, v |-> [genesis |-> TRUE, parents |-> <<>>], rest |-> Drop(t.rest, SizeOf(t.extra))]
    ELSE [blockParents(input, count) EXCEPT !.v = [genesis |-> FALSE, parents |-> @]])

decodeParents(d) ==
  IF ~d.ok \/ d.type # LIST THEN Raised(d)
  ELSE Bind(readBlockParents(SizeOf(d.extra), d.partial), LAMBDA parents :
         IF parents.ok THEN Got(parents.v, readToken([d EXCEPT !.partial = parents.rest])) ELSE Raised(d))

Decode(t, d) ==
  CASE ~d.ok -> Raised(d)
    [] d.ok /\ t.kind = "opt" ->
         IF isNull(d) THEN Got(<<>>, readToken(d))
         ELSE Bind(Decode(t.of, d), LAMBDA got : IF got.ok THEN [got EXCEPT !.v = <<@>>] ELSE got)
    [] d.ok /\ t.kind = "list" -> decodeList(t, d)
    [] d.ok /\ t.kind = "tuple" -> decodeTuple(t, d)
    [] d.ok /\ t.kind = "map" -> decodeNamed(t, d)
    [] d.ok /\ t.kind = "parents" -> decodeParents(d)
    [] d.ok /\ t.kind = "restart" -> decodeRestart(d)
    [] OTHER -> decodeScalar(t, d)

\* codec::cbor::encode and decode; what is behind the object is not looked at.
encode(t, v) == Bind(Encode(t, v), LAMBDA e : [ok |-> e.ok, data |-> e.data])
decode(t, bytes) == Bind(Decode(t, CborDecodeStream(bytes)), LAMBDA got : [ok |-> got.ok, v |-> got.v])

\* resolve(stream, part): the stream of the i-th element of a list or member
\* of a map.
nextOf(l, n) ==
  LET next(s) == [d |-> nestedOf(s.d).d, n |-> s.n - 1, go |-> s.n > 1] IN
  While(next, [d |-> l, n |-> n, go |-> n > 0]).d
resolve(d, i) ==
  CASE d.type = LIST -> IF i > SizeOf(d.extra) THEN Raised(d).d ELSE nextOf(listOf(d).l, i - 1)
    [] d.type = MAP -> GetOr(mapOf(d).m, Name(i), Raised(d).d)
    [] OTHER -> Raised(d).d

---------------------------------------------------------------------------
(* light_reader: what the chain index needs of a block header, without     *)
(* decoding it.                                                            *)

NoBlock == [ok |-> FALSE, ticket |-> <<>>, parents |-> <<>>, height |-> CbZero]

\* A token of the type is next, and more can be read behind it.
Expect(input, type, more(_)) ==
  Bind(read(input), LAMBDA t : IF t.ok /\ t.type = type THEN more(t) ELSE NoBlock)

Skip(input, count, more(_)) ==
  Bind(skipNested(input, count), LAMBDA past : IF past.ok THEN more(past.rest) ELSE NoBlock)

\* Behind the ticket: three members, the parents, the weight and the height.
readBlockTail(input, ticket) ==
  Skip(input, 3, LAMBDA proofs : Expect(proofs, LIST, LAMBDA count :
    Bind(readBlockParents(SizeOf(count.extra), count.rest), LAMBDA parents :
      IF ~parents.ok THEN NoBlock
      ELSE Skip(parents.rest, 1, LAMBDA weight : Expect(weight, UINT, LAMBDA height :
             [ok |-> TRUE, ticket |-> ticket, parents |-> parents.v, height |-> height.extra])))))

readBlock(bytes) ==
  Expect(bytes, LIST, LAMBDA header : IF header.extra # Num(16) THEN NoBlock
    ELSE Skip(header.rest, 1, LAMBDA miner : Expect(miner, LIST, LAMBDA ticket :
      IF ticket.extra # Num(1) THEN NoBlock
      ELSE Expect(ticket.rest, BYTES, LAMBDA data : IF Len(data.rest) < SizeOf(data.extra) THEN NoBlock
        ELSE readBlockTail(Drop(data.rest, SizeOf(data.extra)), Take(data.rest, SizeOf(data.extra)))))))

---------------------------------------------------------------------------
(* CborBuffering: finds the end of an object in the bytes of a stream,     *)
(* however they are cut.  nested counts the items left on each level,      *)
(* bytes what is left of a head or of the bytes it announces.              *)

NewBuffering == [nested |-> <<>>, bytes |-> 0, head |-> <<>>]
done(b) == b.bytes = 0 /\ b.nested = <<>>
reset(b) == [b EXCEPT !.nested = Append(@, 1)]

\* Head::first and Head::next on one byte.
headByte(b, byte) ==
  IF b.head = <<>>
  THEN [b EXCEPT !.bytes = GetOr(Widths, byte % 32, 0),
                 !.head = <<[type |-> byte \div 32,
                             value |-> IF byte % 32 < 24 THEN Num(byte % 32) ELSE CbZero]>>]
  ELSE [b EXCEPT !.bytes = @ - 1, !.head[1].value = Append(Tail(@), byte)]

RECURSIVE popNested(_)
popNested(nested) ==
  IF nested # <<>> /\ Last(nested) = 0 THEN popNested(Front(nested)) ELSE nested

\* levelOf if a tag were an item by itself.
levelOfUntagged(head) ==
  CASE head.type = LIST -> <<SizeOf(head.value)>>
    [] head.type = MAP -> <<2 * SizeOf(head.value)>>
    [] head.type \notin {LIST, MAP} -> <<>>

\* The level a head opens.
levelOf(head) ==
  CASE head.type = LIST -> <<SizeOf(head.value)>>
    [] head.type = MAP -> <<2 * SizeOf(head.value)>>
    [] head.type = CID -> <<1>>
    [] head.type \notin {LIST, MAP, CID} -> <<>>

\* A head is complete: what it announces is taken from rest, as far as it goes.
endHead(b, rest) ==
  LET head == b.head[1]
      size == IF head.type \in {BYTES, STR} THEN SizeOf(head.value) ELSE 0
      partial == Smaller(size, Len(rest))
      outer == [b.nested EXCEPT ![Len(b.nested)] = @ - 1]
  IN  [rest |-> Drop(rest, partial),
       b |-> [nested |-> popNested(outer \o levelOf(head)), bytes |-> size - partial,
              head |-> <<>>]]

\* One byte of a head, and what follows the last one.
consumeHead(s) ==
  LET next == headByte(s.b, Head(s.rest))
      ended == endHead(next, Tail(s.rest))
  IN  IF s.rest = <<>> \/ s.b.nested = <<>> THEN [s EXCEPT !.go = FALSE]
      ELSE IF s.b.head = <<>> /\ Head(s.rest) % 32 > 27 THEN [s EXCEPT !.ok = FALSE, !.go = FALSE]
      ELSE IF next.bytes > 0 THEN [s EXCEPT !.b = next, !.rest = Tail(@)]
      ELSE [s EXCEPT !.b = ended.b, !.rest = ended.rest]

\* consume: the bytes taken of the input, and the state behind them.
consume(b, input) ==
  LET partial == IF b.head = <<>> THEN Smaller(b.bytes, Len(input)) ELSE 0
      heads == While(consumeHead, [b |-> [b EXCEPT !.bytes = @ - partial], ok |-> TRUE,
                                   rest |-> Drop(input, partial), go |-> TRUE])
  IN  [ok |-> heads.ok, b |-> heads.b, consumed |-> Len(input) - Len(heads.rest)]

-----------------------------------------------------------------------------
(***************************************************************************)
(* The objects the node keeps or sends as CBOR, each as the type that its  *)
(* CBOR_TUPLE, or its own pair of encode and decode, gives it, and their   *)
(* ways through the codec: those of the protocols over a CborStream        *)
(* (core/common/libp2p/cbor_stream.cpp) that cuts the bytes at will, the   *)
(* others in one piece.  What a caller encodes as core/vm/actor/builtin/   *)
(* methods has it, the actor decodes as its own structure.                 *)
(***************************************************************************)

CONSTANTS CbVariants,  \* which samples of each type are tried
          CbChunks,    \* how many bytes a read of a stream may return
          CbLost,      \* members that a tuple leaves out are set too
          CbRestart    \* data transfer requests may name a channel to restart

U64 == Unsigned(8)
I64 == Signed(8)
I32 == Signed(4)
Digest == Blob(kHashSize)
TokenAmount == BigInt
ChainEpoch == I64

---------------------------------------------------------------------------
(* Primitives.                                                             *)

FilterEstimate == Tuple(<<BigInt, BigInt>>)
BeaconEntry == Tuple(<<U64, Bytes>>)
PeerInfo == Tuple(<<Bytes, ListOf(Bytes)>>)
PaddedPieceSize == U64
UnpaddedPieceSize == U64
PieceInfo == Tuple(<<PaddedPieceSize, Cid>>)
SectorId == Tuple(<<U64, U64>>)
PoStProof == Tuple(<<I64, Bytes>>)
SealVerifyInfo == Tuple(<<I64, SectorId, ListOf(U64), Digest, Digest, Bytes, Cid, Cid>>)
ProvenSector == Tuple(<<I64, U64, Cid>>)
WindowPoStVerifyInfo == Tuple(<<Digest, ListOf(PoStProof), ListOf(ProvenSector), U64>>)
AggregateSealVerifyInfo == Tuple(<<U64, Digest, Digest, Cid, Cid>>)
AggregateSealVerifyProofAndInfos == Tuple(<<U64, I64, I64, Bytes, ListOf(AggregateSealVerifyInfo)>>)
ReplicaUpdateInfo == Tuple(<<I64, Cid, Cid, Cid, Bytes>>)
SectorStorageWeightDesc == TupleBut(<<U64, I64, BigInt>>, <<BigInt>>)

Actor == Tuple(<<Cid, Cid, U64, TokenAmount>>)
UnsignedMessage ==
  Tuple(<<I64, Address, Address, U64, TokenAmount, I64, TokenAmount, TokenAmount, U64, Bytes>>)
SignedMessage == Tuple(<<UnsignedMessage, Signature>>)
MessageReceipt == Tuple(<<I64, Bytes, I64>>)
StateTreeInfo == Tuple(<<>>)
StateRoot == Tuple(<<U64, Cid, Cid>>)
InterpreterResult == Tuple(<<Cid, Cid, BigInt>>)

Ticket == Tuple(<<Bytes>>)
ElectionProof == Tuple(<<I64, Bytes>>)
BlockHeader ==
  Tuple(<<Address, Opt(Ticket), ElectionProof, ListOf(BeaconEntry), ListOf(PoStProof),
          BlockParentCbCids, BigInt, ChainEpoch, Cid, Cid, Cid, Opt(Signature), U64,
          Opt(Signature), U64, BigInt>>)
MsgMeta == Tuple(<<Cid, Cid>>)
BlockWithCids == Tuple(<<BlockHeader, ListOf(Cid), ListOf(Cid)>>)

---------------------------------------------------------------------------
(* Types of the actors.                                                    *)

CronTableEntry == Tuple(<<Address, U64>>)
DealState == Tuple(<<ChainEpoch, ChainEpoch, ChainEpoch>>)
DealProposalWith(label) ==
  Tuple(<<Cid, PaddedPieceSize, Bool, Address, Address, label, ChainEpoch, ChainEpoch,
          TokenAmount, TokenAmount, TokenAmount>>)
DealProposal == DealProposalWith(Text)
DealProposalV8 == DealProposalWith(Label)
ClientDealProposal == Tuple(<<DealProposal, Signature>>)
SectorDataSpec == Tuple(<<ListOf(U64), I64>>)
SectorDeals == Tuple(<<ChainEpoch, ListOf(U64)>>)
SectorWeights == Tuple(<<U64, BigInt, BigInt>>)

CronEventPayload == Tuple(<<I32>>)
Deadlines == Tuple(<<ListOf(Cid)>>)
PowerPair == Tuple(<<BigInt, BigInt>>)
ExpirationSet == Tuple(<<RleBitset, RleBitset, TokenAmount, PowerPair, PowerPair>>)
ExpirationExtension == Tuple(<<U64, U64, RleBitset, ChainEpoch>>)
PoStPartition == Tuple(<<U64, RleBitset>>)
ReplicaUpdate == Tuple(<<U64, U64, U64, Cid, ListOf(U64), I64, Bytes>>)
SectorDeclaration == Tuple(<<U64, U64, RleBitset>>)
SectorPreCommitInfo ==
  Tuple(<<I64, U64, Cid, ChainEpoch, ListOf(U64), ChainEpoch, Bool, U64, U64, U64>>)
SectorPreCommitOnChainInfo ==
  Tuple(<<SectorPreCommitInfo, TokenAmount, ChainEpoch, BigInt, BigInt>>)
VestingFund == Tuple(<<ChainEpoch, TokenAmount>>)
VestingFunds == Tuple(<<ListOf(VestingFund)>>)
WindowedPoSt == Tuple(<<RleBitset, ListOf(PoStProof)>>)
WorkerKeyChange == Tuple(<<Address, ChainEpoch>>)

SectorOnChainInfoV0 ==
  Tuple(<<U64, I64, Cid, ListOf(U64), ChainEpoch, ChainEpoch, BigInt, BigInt,
          TokenAmount, TokenAmount, TokenAmount>>)
SectorOnChainInfoV7 ==
  Tuple(SectorOnChainInfoV0.fields \o <<ChainEpoch, TokenAmount, Opt(Cid)>>)
MinerInfoV0 ==
  Tuple(<<Address, Address, ListOf(Address), Opt(WorkerKeyChange), Bytes, ListOf(Bytes),
          I64, U64, U64>>)
MinerInfoV2 == Tuple(MinerInfoV0.fields \o <<ChainEpoch, Opt(Address)>>)
MinerInfoV3 == MinerInfoV2
DeadlineV0 == Tuple(<<Cid, Cid, RleBitset, RleBitset, U64, U64, PowerPair>>)
DeadlineV2 == DeadlineV0
DeadlineV3 == Tuple(DeadlineV0.fields \o <<Cid, Cid, Cid>>)
PartitionV0 ==
  Tuple(<<RleBitset, RleBitset, RleBitset, RleBitset, Cid, Cid, PowerPair, PowerPair, PowerPair>>)
PartitionV2 ==
  Tuple(<<RleBitset, RleBitset, RleBitset, RleBitset, RleBitset, Cid, Cid,
          PowerPair, PowerPair, PowerPair, PowerPair>>)
PartitionV3 == PartitionV2

Transaction == Tuple(<<Address, TokenAmount, U64, Bytes, ListOf(Address)>>)
ProposalHashData == Tuple(<<Address, Address, TokenAmount, U64, Bytes>>)
LaneState == Tuple(<<TokenAmount, U64>>)
Merge == Tuple(<<U64, U64>>)
ModularVerificationParameter == Tuple(<<Address, U64, Bytes>>)
SignedVoucher ==
  Tuple(<<Address, ChainEpoch, ChainEpoch, Bytes, Opt(ModularVerificationParameter), U64, U64,
          TokenAmount, ChainEpoch, ListOf(Merge), Opt(Bytes)>>)
PaymentVerifyParams == Tuple(<<Bytes, Bytes>>)
CronEvent == Tuple(<<Address, Bytes>>)
CreateMinerParams == Tuple(<<Address, Address, I64, Bytes, ListOf(Bytes)>>)
ClaimV0 == Tuple(<<BigInt, BigInt>>)
ClaimV2 == Tuple(<<I64, BigInt, BigInt>>)
RmDcProposalId == Tuple(<<U64>>)
RemoveDataCapRequest == Tuple(<<Address, Signature>>)

---------------------------------------------------------------------------
(* Methods of the actors by their numbers: as callers encode them, in      *)
(* core/vm/actor/builtin/methods, and as the latest actor of this code     *)
(* that has its own structure for them decodes them.                       *)

Method(params, result) == [params |-> params, result |-> result]
NoParams == Method(None, None)
Takes(fields) == Method(Tuple(fields), None)

InitMethods == <<Takes(<<Text>>), Method(Tuple(<<Cid, Bytes>>), Tuple(<<Address, Address>>))>>
InitActor == <<Takes(<<Text>>), Method(Tuple(<<Cid, Bytes>>), Tuple(<<Address, Address>>))>>

AccountMethods == <<Method(Address, None), Method(None, Address)>>
AccountActor == <<Method(Address, None), Method(None, Address)>>

CronMethods == <<Method(ListOf(CronTableEntry), None), NoParams>>
CronActor == <<Method(ListOf(CronTableEntry), None), NoParams>>

MultisigMethods == <<
  Takes(<<ListOf(Address), U64, I64, ChainEpoch>>),
  Method(Tuple(<<Address, TokenAmount, U64, Bytes>>), Tuple(<<I64, Bool, I64, Bytes>>)),
  Method(Tuple(<<I64, Bytes>>), Tuple(<<Bool, I64, Bytes>>)),
  Takes(<<I64, Bytes>>),
  Takes(<<Address, Bool>>),
  Takes(<<Address, Bool>>),
  Takes(<<Address, Address>>),
  Takes(<<U64>>),
  Takes(<<ChainEpoch, I64, TokenAmount>>)>>
MultisigActorV0 == <<
  Takes(<<ListOf(Address), U64, I64>>),
  Method(Tuple(<<Address, TokenAmount, U64, Bytes>>), Tuple(<<I64, Bool, I64, Bytes>>)),
  Method(Tuple(<<I64, Bytes>>), Tuple(<<Bool, I64, Bytes>>)),
  Takes(<<I64, Bytes>>),
  Takes(<<Address, Bool>>),
  Takes(<<Address, Bool>>),
  Takes(<<Address, Address>>),
  Takes(<<U64>>),
  Takes(<<ChainEpoch, I64, TokenAmount>>)>>
MultisigActor == [MultisigActorV0 EXCEPT ![1] = Takes(<<ListOf(Address), U64, I64, ChainEpoch>>)]

PaymentChannelMethods ==
  <<Takes(<<Address, Address>>), Takes(<<SignedVoucher, Bytes>>), NoParams, NoParams>>
PaymentChannelActorV0 ==
  <<Takes(<<Address, Address>>), Takes(<<SignedVoucher, Bytes, Bytes>>), NoParams, NoParams>>
PaymentChannelActor == [PaymentChannelActorV0 EXCEPT ![2] = Takes(<<SignedVoucher, Bytes>>)]

RewardMethods == <<
  Method(BigInt, None),
  Takes(<<Address, TokenAmount, TokenAmount, I64>>),
  Method(None, Tuple(<<FilterEstimate, BigInt>>)),
  Method(BigInt, None)>>
RewardActorV0 == <<
  Method(BigInt, None),
  Takes(<<Address, TokenAmount, TokenAmount, I64>>),
  Method(None, Tuple(<<TokenAmount, FilterEstimate, BigInt>>)),
  Method(BigInt, None)>>
RewardActor == [RewardActorV0 EXCEPT ![3] = Method(None, Tuple(<<FilterEstimate, BigInt>>))]

PowerMethods == <<
  NoParams,
  Method(CreateMinerParams, Tuple(<<Address, Address>>)),
  Takes(<<BigInt, BigInt>>),
  Takes(<<ChainEpoch, Bytes>>),
  NoParams,
  Method(TokenAmount, None),
  Method(TokenAmount, None),
  Method(SealVerifyInfo, None),
  Method(None, Tuple(<<BigInt, BigInt, TokenAmount, FilterEstimate>>))>>
PowerActor == <<
  NoParams,
  Method(Tuple(<<Address, Address, I64, Bytes, ListOf(Bytes)>>), Tuple(<<Address, Address>>)),
  Takes(<<BigInt, BigInt>>),
  Takes(<<ChainEpoch, Bytes>>),
  NoParams,
  Method(TokenAmount, None),
  Method(TokenAmount, None),
  Method(SealVerifyInfo, None),
  Method(None, Tuple(<<BigInt, BigInt, TokenAmount, FilterEstimate>>))>>

VerifiedRegistryMethods == <<
  Method(Address, None),
  Takes(<<Address, BigInt>>),
  Method(Address, None),
  Takes(<<Address, BigInt>>),
  Takes(<<Address, BigInt>>),
  Takes(<<Address, BigInt>>),
  Method(Tuple(<<Address, BigInt, RemoveDataCapRequest, RemoveDataCapRequest>>),
         Tuple(<<Address, BigInt>>))>>
VerifiedRegistryActor == <<
  Method(Address, None),
  Takes(<<Address, BigInt>>),
  Method(Address, None),
  Takes(<<Address, BigInt>>),
  Takes(<<Address, BigInt>>),
  Takes(<<Address, BigInt>>)>>

MarketMethods == <<
  NoParams,
  Method(Address, None),
  Takes(<<Address, TokenAmount>>),
  Method(Tuple(<<ListOf(ClientDealProposal)>>), Tuple(<<ListOf(U64), RleBitset>>)),
  Method(Tuple(<<ListOf(SectorDeals)>>), Tuple(<<ListOf(SectorWeights)>>)),
  Takes(<<ListOf(U64), ChainEpoch>>),
  Takes(<<ChainEpoch, ListOf(U64)>>),
  Method(Tuple(<<ListOf(SectorDataSpec)>>), Tuple(<<ListOf(Cid)>>)),
  NoParams>>
MarketActorV0 == <<
  NoParams,
  Method(Address, None),
  Takes(<<Address, TokenAmount>>),
  Method(Tuple(<<ListOf(ClientDealProposal)>>), Tuple(<<ListOf(U64)>>)),
  Method(Tuple(<<ListOf(U64), ChainEpoch, ChainEpoch>>), Tuple(<<BigInt, BigInt>>)),
  Takes(<<ListOf(U64), ChainEpoch>>),
  Takes(<<ChainEpoch, ListOf(U64)>>),
  Method(Tuple(<<ListOf(U64), I64>>), Cid),
  NoParams>>
MarketActorV2 == [MarketActorV0 EXCEPT ![5].result = Tuple(<<BigInt, BigInt, U64>>)]
MarketActor ==
  [MarketActorV2 EXCEPT ![5] = Method(Tuple(<<ListOf(SectorDeals)>>), Tuple(<<ListOf(SectorWeights)>>))]

\* Construct to TerminateSectors, ...
MinerMethodsFirst == <<
  Method(CreateMinerParams, None),
  Method(None, Tuple(<<Address, Address, ListOf(Address)>>)),
  Takes(<<Address, ListOf(Address)>>),
  Takes(<<Bytes>>),
  Takes(<<U64, ListOf(PoStPartition), ListOf(PoStProof), ChainEpoch, Digest>>),
  Method(SectorPreCommitInfo, None),
  Takes(<<U64, Bytes>>),
  Takes(<<ListOf(ExpirationExtension)>>),
  Method(Tuple(<<ListOf(SectorDeclaration)>>), Tuple(<<Bool>>))>>
\* ... DeclareFaults to ConfirmSectorProofsValid, ...
MinerMethodsNext == <<
  Takes(<<ListOf(SectorDeclaration)>>),
  Takes(<<ListOf(SectorDeclaration)>>),
  Takes(<<Bytes, FilterEstimate, FilterEstimate>>),
  Takes(<<U64>>),
  Takes(<<TokenAmount, TokenAmount>>),
  Takes(<<Bytes, Bytes, Bytes>>),
  Method(Tuple(<<TokenAmount>>), TokenAmount),
  Takes(<<ListOf(U64)>>)>>
\* ... and ChangeMultiaddresses to ProveReplicaUpdates.
MinerMethodsLast == <<
  Takes(<<ListOf(Bytes)>>),
  Takes(<<U64, RleBitset>>),
  Takes(<<RleBitset>>),
  NoParams,
  NoParams,
  Method(Address, None),
  Takes(<<U64, U64>>),
  Takes(<<ListOf(SectorPreCommitInfo)>>),
  Takes(<<RleBitset, Bytes>>),
  Method(Tuple(<<ListOf(ReplicaUpdate)>>), RleBitset)>>
MinerMethods == MinerMethodsFirst \o MinerMethodsNext \o MinerMethodsLast

MinerActorFirst == <<
  Takes(<<Address, Address, ListOf(Address), I64, Bytes, ListOf(Bytes)>>),
  Method(None, Tuple(<<Address, Address, ListOf(Address)>>)),
  Takes(<<Address, ListOf(Address)>>),
  Takes(<<Bytes>>),
  Takes(<<U64, ListOf(PoStPartition), ListOf(PoStProof), ChainEpoch, Digest>>),
  Method(SectorPreCommitInfo, None),
  Takes(<<U64, Bytes>>),
  Takes(<<ListOf(ExpirationExtension)>>),
  Method(Tuple(<<ListOf(SectorDeclaration)>>), Tuple(<<Bool>>))>>
MinerActorLast == <<
  Takes(<<ListOf(SectorDeclaration)>>),
  Takes(<<ListOf(SectorDeclaration)>>),
  Method(CronEventPayload, None),
  Takes(<<U64>>),
  Method(TokenAmount, None),
  Takes(<<Bytes, Bytes, Bytes>>),
  Takes(<<TokenAmount>>),
  Takes(<<ListOf(U64)>>),
  Takes(<<ListOf(Bytes)>>),
  Takes(<<U64, RleBitset>>),
  Takes(<<RleBitset>>)>>
MinerActorV2 ==
  [MinerActorFirst \o MinerActorLast EXCEPT ![14] = Takes(<<TokenAmount, TokenAmount>>)]
    \o <<NoParams, NoParams, Method(Address, None)>>
MinerActor ==
  [MinerActorV2 EXCEPT ![1] = Takes(<<Address, Address, ListOf(Address), I64, Bytes, ListOf(Bytes)>>)]
    \o <<Method(Address, None)>>

---------------------------------------------------------------------------
(* States of the actors; a table is kept as the CID of its root.           *)

AccountActorState == Tuple(<<Address>>)
CronActorState == Tuple(<<ListOf(CronTableEntry)>>)
InitActorState == Tuple(<<Cid, U64, Text>>)
SystemActorState == Tuple(<<>>)
VerifiedRegistryActorState == Tuple(<<Address, Cid, Cid>>)
MarketActorStateV0 ==
  Tuple(<<Cid, Cid, Cid, Cid, Cid, U64, Cid, ChainEpoch, TokenAmount, TokenAmount, TokenAmount>>)
MarketActorStateV3 == MarketActorStateV0
MinerActorStateV0 ==
  Tuple(<<Cid, TokenAmount, TokenAmount, Cid, TokenAmount, Cid, Cid, Cid, Cid, ChainEpoch, U64,
          Cid, RleBitset>>)
MinerActorStateV2 ==
  Tuple(<<Cid, TokenAmount, TokenAmount, Cid, TokenAmount, TokenAmount, Cid, Cid, Cid, Cid,
          ChainEpoch, U64, Cid, RleBitset>>)
MinerActorStateV3 == MinerActorStateV2
MinerActorStateV4 == Tuple(MinerActorStateV2.fields \o <<Bool>>)
MultisigActorState == Tuple(<<ListOf(Address), U64, I64, TokenAmount, ChainEpoch, I64, Cid>>)
PaymentChannelActorState == Tuple(<<Address, Address, TokenAmount, ChainEpoch, ChainEpoch, Cid>>)
RewardActorStateV0 ==
  Tuple(<<BigInt, BigInt, ChainEpoch, BigInt, TokenAmount, FilterEstimate, BigInt, ChainEpoch,
          TokenAmount>>)
RewardActorStateV2 == Tuple(RewardActorStateV0.fields \o <<TokenAmount, TokenAmount>>)
PowerTotals ==
  <<BigInt, BigInt, BigInt, BigInt, TokenAmount, BigInt, BigInt, TokenAmount, FilterEstimate,
    U64, U64, Cid, ChainEpoch>>
PowerActorStateV0 == Tuple(PowerTotals \o <<ChainEpoch, Cid, Opt(Cid)>>)
PowerActorStateV2 == Tuple(PowerTotals \o <<Cid, Opt(Cid)>>)
PowerActorStateV3 == PowerActorStateV2

---------------------------------------------------------------------------
(* What the miner, the markets and the payment channels keep.              *)

DealSchedule == Tuple(<<ChainEpoch, ChainEpoch>>)
DealInfo == Tuple(<<Opt(Cid), U64, Opt(DealProposal), DealSchedule, Bool>>)
Piece == Tuple(<<PieceInfo, Opt(DealInfo)>>)
SectorInfo ==
  TupleBut(<<U64, U64, I64, ListOf(Piece), Digest, ChainEpoch, Bytes, U64, Opt(Cid), Opt(Cid),
             Opt(Cid), TokenAmount, Opt(SectorPreCommitInfo), ListOf(CbCid), Digest, ChainEpoch,
             Bytes, Opt(Cid), U64, Opt(Cid), U64>>,
           <<Bool, ListOf(Piece), Opt(Cid), Opt(Cid), Opt(Bytes), Opt(Cid)>>)
PieceLocation == Tuple(<<U64, U64, U64>>)
WorkId == Tuple(<<Text, Digest>>)
CallId == Tuple(<<SectorId, Text>>)
WorkState == Tuple(<<WorkId, U64, CallId>>)

StoredDealInfo == Tuple(<<U64, U64, PaddedPieceSize, PaddedPieceSize>>)
StoredPieceInfo == Tuple(<<Cid, ListOf(StoredDealInfo)>>)
PayloadLocation == Tuple(<<U64, U64>>)
PayloadBlockInfo == Tuple(<<Cid, PayloadLocation>>)
PayloadInfo == Tuple(<<Cid, ListOf(PayloadBlockInfo)>>)

MakerRow == Tuple(<<Opt(Address), TokenAmount, TokenAmount, Opt(Cid), Opt(TokenAmount)>>)
LaneVouchers == Tuple(<<U64, Opt(U64), ListOf(SignedVoucher)>>)
VouchersRow == Tuple(<<U64, ListOf(LaneVouchers)>>)

RetrievalAsk == Tuple(<<TokenAmount, TokenAmount, U64, U64>>)
RetrievalPeer == Tuple(<<Address, Bytes, Opt(Cid)>>)
StorageDeal == Tuple(<<DealProposal, DealState>>)
StorageDataTransferVoucher == Tuple(<<Cid>>)
ResMeta == Named(<<Cid, Bool>>)
CarHeader == Named(<<ListOf(Cid), U64>>)

---------------------------------------------------------------------------
(* The protocols of the node.                                              *)

HelloMessage == Tuple(<<ListOf(CbCid), ChainEpoch, BigInt, Cid>>)
LatencyMessage == Tuple(<<U64, U64>>)
BlocksyncRequest == Tuple(<<ListOf(CbCid), U64, I32>>)
BundleMessages ==
  Tuple(<<ListOf(UnsignedMessage), ListOf(ListOf(U64)), ListOf(SignedMessage), ListOf(ListOf(U64))>>)
TipsetBundle == Tuple(<<ListOf(BlockHeader), Opt(BundleMessages)>>)
BlocksyncResponse == Tuple(<<I32, Text, ListOf(TipsetBundle)>>)

DataRefV1_0_1 == Tuple(<<Text, Cid, Opt(Cid), UnpaddedPieceSize>>)
DataRefV1_1_0 == Named(<<Text, Cid, Opt(Cid), UnpaddedPieceSize, U64>>)
ProposalV1_0_1 == Tuple(<<ClientDealProposal, DataRefV1_0_1, Bool>>)
ProposalV1_1_0 == Named(<<ClientDealProposal, DataRefV1_1_0, Bool>>)
ResponseV1_0_1 == Tuple(<<U64, Text, Cid, Opt(Cid)>>)
ResponseV1_1_0 == Named(<<U64, Text, Cid, Opt(Cid)>>)
SignedResponseV1_0_1 == Tuple(<<ResponseV1_0_1, Signature>>)
SignedResponseV1_1_0 == Named(<<ResponseV1_1_0, Signature>>)

StorageAsk ==
  <<TokenAmount, TokenAmount, PaddedPieceSize, PaddedPieceSize, Address, ChainEpoch, ChainEpoch, U64>>
StorageAskV1_0_1 == Tuple(StorageAsk)
StorageAskV1_1_0 == Named(StorageAsk)
SignedStorageAskV1_0_1 == Tuple(<<StorageAskV1_0_1, Signature>>)
SignedStorageAskV1_1_0 == Named(<<StorageAskV1_1_0, Signature>>)
AskRequestV1_0_1 == Tuple(<<Address>>)
AskRequestV1_1_0 == Named(<<Address>>)
AskResponseV1_0_1 == Tuple(<<SignedStorageAskV1_0_1>>)
AskResponseV1_1_0 == Named(<<SignedStorageAskV1_1_0>>)

ProviderDealState == <<U64, Text, DealProposal, Cid, Opt(Cid), Opt(Cid), U64, Bool>>
ProviderDealStateV1_0_1 == Tuple(ProviderDealState)
ProviderDealStateV1_1_0 == Named(ProviderDealState)
DealStatusRequestV1_0_1 == Tuple(<<Cid, Signature>>)
DealStatusRequestV1_1_0 == Named(<<Cid, Signature>>)
DealStatusResponseV1_0_1 == Tuple(<<ProviderDealStateV1_0_1, Signature>>)
DealStatusResponseV1_1_0 == Named(<<ProviderDealStateV1_1_0, Signature>>)

QueryParamsV0_0_1 == Tuple(<<Opt(Cid)>>)
QueryParamsV1_0_0 == Named(<<Opt(Cid)>>)
QueryRequestV0_0_1 == Tuple(<<Cid, QueryParamsV0_0_1>>)
QueryRequestV1_0_0 == Named(<<Cid, QueryParamsV1_0_0>>)
QueryResponse == <<U64, U64, U64, Address, TokenAmount, U64, U64, Text, TokenAmount>>
QueryResponseV0_0_1 == Tuple(QueryResponse)
QueryResponseV1_0_0 == Named(QueryResponse)

DealProposalParams == <<CborRaw, Opt(Cid), TokenAmount, U64, U64, TokenAmount>>
DealProposalParamsV0_0_1 == Tuple(DealProposalParams)
DealProposalParamsV1_0_0 == Named(DealProposalParams)
DealProposalV0_0_1 == Tuple(<<Cid, U64, DealProposalParamsV0_0_1>>)
DealProposalV1_0_0 == Named(<<Cid, U64, DealProposalParamsV1_0_0>>)
DealResponseV0_0_1 == Tuple(<<U64, U64, TokenAmount, Text>>)
DealResponseV1_0_0 == Named(<<U64, U64, TokenAmount, Text>>)
DealPaymentV0_0_1 == Tuple(<<U64, Address, SignedVoucher>>)
DealPaymentV1_0_0 == Named(<<U64, Address, SignedVoucher>>)

DataTransferRequest ==
  Named(<<Opt(Cid), I32, Bool, Bool, Bool, Opt(CborRaw), Opt(CborRaw), Text, U64, RestartChannel>>)
DataTransferResponse == Named(<<I32, Bool, Bool, U64, Opt(CborRaw), Text>>)
DataTransferMessage == Named(<<Bool, Opt(DataTransferRequest), Opt(DataTransferResponse)>>)

---------------------------------------------------------------------------
(* What is written and how it is read.                                     *)

CbSame(type) == [write |-> type, read |-> type]

\* The objects that a header of the node declares, the ones they consist of with them.
helloObjects == <<HelloMessage, LatencyMessage>>
blocksyncObjects == <<BlocksyncRequest, BlocksyncResponse>>
mkObjects == <<ProposalV1_0_1, ProposalV1_1_0, SignedResponseV1_0_1, SignedResponseV1_1_0>>
askObjects == <<AskRequestV1_0_1, AskRequestV1_1_0, AskResponseV1_0_1, AskResponseV1_1_0>>
statusObjects ==
  <<DealStatusRequestV1_0_1, DealStatusRequestV1_1_0, DealStatusResponseV1_0_1, DealStatusResponseV1_1_0>>
queryRequests == <<QueryRequestV0_0_1, QueryRequestV1_0_0>>
queryResponses == <<QueryResponseV0_0_1, QueryResponseV1_0_0>>

sealObjects == <<SealVerifyInfo, PoStProof, ProvenSector>>
aggregateObjects == <<AggregateSealVerifyProofAndInfos, ReplicaUpdateInfo>>
messageObjects == <<UnsignedMessage, SignedMessage>>
stateTreeObjects == <<StateTreeInfo, StateRoot>>
blockObjects == <<BlockHeader, MsgMeta, BlockWithCids>>
dealObjects == <<DealState, ClientDealProposal>>
sectorInfoObjects == <<SectorDeclaration, SectorPreCommitOnChainInfo>>
multisigObjects == <<Transaction, ProposalHashData>>
voucherObjects == <<LaneState, SignedVoucher, PaymentVerifyParams>>
pieceObjects == <<StoredPieceInfo, PayloadInfo>>
dataRefs == <<DataRefV1_0_1, DataRefV1_1_0>>
storageAsks == <<SignedStorageAskV1_0_1, SignedStorageAskV1_1_0>>
providerDealStates == <<ProviderDealStateV1_0_1, ProviderDealStateV1_1_0>>
retrievalObjects == <<RetrievalAsk, RetrievalPeer>>
retrievalProposals == <<DealProposalV0_0_1, DealProposalV1_0_0>>
retrievalAnswers == <<DealResponseV0_0_1, DealResponseV1_0_0, DealPaymentV0_0_1, DealPaymentV1_0_0>>

\* Sent over a CborStream.
Streamed ==
  helloObjects \o blocksyncObjects \o mkObjects \o askObjects \o statusObjects \o queryRequests
  \o queryResponses \o <<DataTransferMessage>>

\* Kept in a store, an actor's state or a block, or wrapped in another object.
CbStored ==
  sealObjects \o aggregateObjects \o messageObjects \o stateTreeObjects \o blockObjects \o dealObjects
  \o sectorInfoObjects \o multisigObjects \o voucherObjects \o pieceObjects \o dataRefs \o storageAsks
  \o providerDealStates \o retrievalObjects \o retrievalProposals \o retrievalAnswers
  \o <<BeaconEntry, PeerInfo, WindowPoStVerifyInfo, SectorStorageWeightDesc, Actor, MessageReceipt,
       InterpreterResult, DealProposalV8, Deadlines, ExpirationSet, VestingFunds, WindowedPoSt,
       SectorOnChainInfoV0, SectorOnChainInfoV7, MinerInfoV0, MinerInfoV2, MinerInfoV3, DeadlineV0,
       DeadlineV2, DeadlineV3, PartitionV0, PartitionV2, PartitionV3, CronEvent, ClaimV0, ClaimV2,
       RmDcProposalId, AccountActorState, CronActorState, InitActorState, SystemActorState,
       VerifiedRegistryActorState, MarketActorStateV0, MarketActorStateV3, MinerActorStateV0,
       MinerActorStateV2, MinerActorStateV3, MinerActorStateV4, MultisigActorState,
       PaymentChannelActorState, RewardActorStateV0, RewardActorStateV2, PowerActorStateV0,
       PowerActorStateV2, PowerActorStateV3, SectorInfo, PieceLocation, WorkState, MakerRow, VouchersRow,
       StorageDeal, StorageDataTransferVoucher, ResMeta, CarHeader, SetValue>>

\* The calls of an actor: parameters go from the caller to the actor, results
\* come back.  Those that actors later than the ones of this code changed, by
\* number, are left out.
CallsOf(methods, actor, changed) ==
  Concat([m \in DOMAIN actor |->
    IF m \in changed THEN <<>>
    ELSE <<[write |-> methods[m].params, read |-> actor[m].params],
           [write |-> actor[m].result, read |-> methods[m].result]>>])

Calls ==
  CallsOf(InitMethods, InitActor, {}) \o CallsOf(AccountMethods, AccountActor, {})
  \o CallsOf(CronMethods, CronActor, {}) \o CallsOf(MultisigMethods, MultisigActor, {})
  \o CallsOf(PaymentChannelMethods, PaymentChannelActor, {})
  \o CallsOf(RewardMethods, RewardActor, {}) \o CallsOf(PowerMethods, PowerActor, {})
  \o CallsOf(VerifiedRegistryMethods, VerifiedRegistryActor, {})
  \o CallsOf(MarketMethods, MarketActor, {4, 8})
  \o CallsOf(MinerMethods, MinerActor, {1, 12, 16, 24})

Cases == [i \in DOMAIN Streamed |-> CbSame(Streamed[i])]
         \o [i \in DOMAIN CbStored |-> CbSame(CbStored[i])] \o Calls

---------------------------------------------------------------------------
(* Samples: values on both sides of each boundary of the encoding.         *)

Numbers == <<
  Num(0), Num(23), Num(24), Num(255), Num(256), Num(65535), Num(65536),
  <<0, 0, 0, 0, 255, 255, 255, 255>>, <<0, 0, 0, 1, 0, 0, 0, 0>>,
  <<127, 255, 255, 255, 255, 255, 255, 255>>, <<255, 255, 255, 255, 255, 255, 255, 255>>>>
Unsigneds == Numbers
Signeds(bytes) ==
  LET fits == SelectSeq(Numbers, LAMBDA e : fitsSigned(e, bytes) /\ ~Negative(e)) IN
  fits \o [i \in DOMAIN fits |-> Invert(fits[i])]
ByteStrings == <<<<>>, <<7>>, [i \in 1..24 |-> i]>>
CidSamples == <<
  [version |-> 1, codec |-> kDagCbor, type |-> kBlake2b, hash |-> <<1, 2, 3>>],
  [version |-> 0, codec |-> kDagPb, type |-> kSha256, hash |-> <<4, 5, 6>>],
  [version |-> 1, codec |-> 85, type |-> 0, hash |-> <<7, 8>>]>>
BigInts == <<
  [negative |-> FALSE, magnitude |-> <<>>], [negative |-> FALSE, magnitude |-> <<1, 0>>],
  [negative |-> TRUE, magnitude |-> <<255>>]>>
Addresses == <<
  [protocol |-> 0, payload |-> <<127>>], [protocol |-> 0, payload |-> <<128>>],
  [protocol |-> 1, payload |-> <<0, 9>>], [protocol |-> 3, payload |-> <<1, 2, 3>>]>>
Signatures == <<[bls |-> TRUE, data |-> <<1, 2, 3, 4>>], [bls |-> FALSE, data |-> <<5, 6, 7>>]>>
Bitsets == <<{}, {0}, {1, 2, 3}, {5, 6, 40}>>
Labels == <<[text |-> TRUE, data |-> <<65>>], [text |-> FALSE, data |-> <<255>>]>>
Parents == <<
  [genesis |-> FALSE, parents |-> <<<<1, 2, 3>>, <<4, 5, 6>>>>],
  [genesis |-> TRUE, parents |-> <<>>], [genesis |-> FALSE, parents |-> <<<<1, 2, 3>>>>]>>
Raws == <<<<160>>, CborTokenEncoder(LIST, Num(1)) \o writeCid(toBytes(CidSamples[1]))>>

Pick(seq, k) == seq[1 + (k % Len(seq))]

RECURSIVE Sample(_, _)
Sample(t, k) ==
  CASE t.kind = "uint" -> Pick(Unsigneds, k)
    [] t.kind = "int" -> Pick(Signeds(t.bytes), k)
    [] t.kind = "bool" -> k % 2 = 0
    [] t.kind \in {"bytes", "text"} -> Pick(ByteStrings, k)
    [] t.kind = "blob" -> [i \in 1..t.size |-> (k + i) % 256]
    [] t.kind = "cid" -> Pick(CidSamples, k)
    [] t.kind = "cbcid" -> <<k % 256, 2, 3>>
    [] t.kind = "parents" -> Pick(Parents, k)
    [] t.kind = "bigint" -> Pick(BigInts, k)
    [] t.kind = "address" -> Pick(Addresses, k)
    [] t.kind = "signature" -> Pick(Signatures, k)
    [] t.kind = "bitset" -> Pick(Bitsets, k)
    [] t.kind = "label" -> Pick(Labels, k)
    [] t.kind = "raw" -> Pick(Raws, k)
    [] t.kind \in {"none", "set"} -> <<>>
    [] t.kind = "restart" -> IF CbRestart /\ k % 2 = 0 THEN <<<<1>>, <<2>>, Num(3)>> ELSE <<>>
    [] t.kind = "opt" -> IF k % 2 = 0 THEN <<Sample(t.of, k)>> ELSE <<>>
    [] t.kind = "list" ->
         [i \in 1..(IF t.of.kind = "uint" /\ k % 4 = 3 THEN 24 ELSE k % 3) |-> Sample(t.of, k + i)]
    [] t.kind = "tuple" ->
         [i \in DOMAIN t.fields |-> Sample(t.fields[i], k + i)]
         \o [i \in DOMAIN t.lost |->
               IF CbLost THEN Sample(t.lost[i], k + i) ELSE DefaultOf(t.lost[i])]
    [] t.kind = "map" -> [i \in DOMAIN t.fields |-> Sample(t.fields[i], k + i)]

---------------------------------------------------------------------------
(* One peer writes two objects; the other reads the first and, once it has *)
(* it, the second.  A stored object is read back at once.                  *)

VARIABLES cbCase,    \* which of Cases
          cbVariant, \* which samples
          cbWire,    \* bytes written and not yet received
          cbStream,  \* the CborStream: its buffering, buffer, size, and whether it reads
          cbRead     \* what the reads have returned
cbVars == <<cbCase, cbVariant, cbWire, cbStream, cbRead>>

Type == Cases[cbCase]
Value(i) == Sample(Type.write, cbVariant + i)
IsStreamed == cbCase \in DOMAIN Streamed

CbInit ==
  /\ cbCase \in DOMAIN Cases
  /\ cbVariant \in CbVariants
  /\ cbWire = encode(Type.write, Value(1)).data
              \o (IF IsStreamed THEN encode(Type.write, Value(2)).data ELSE <<>>)
  /\ cbStream = [buffering |-> NewBuffering, buffer |-> <<>>, size |-> 0, reading |-> FALSE]
  /\ cbRead = <<>>

ReadStored ==
  /\ ~IsStreamed /\ cbRead = <<>>
  /\ cbRead' = <<decode(Type.read, cbWire)>>
  /\ UNCHANGED <<cbCase, cbVariant, cbWire, cbStream>>

\* consume and readMore: the read ends with an object, or more is awaited.
consumed(s, input) ==
  \E c \in {consume(s.buffering, input)} :
    LET now == [s EXCEPT !.buffering = c.b, !.size = @ + c.consumed] IN
    IF c.ok /\ ~done(c.b) THEN cbStream' = now /\ UNCHANGED cbRead
    ELSE /\ cbStream' = [now EXCEPT !.reading = FALSE]
         /\ cbRead' = Append(cbRead, IF c.ok THEN decode(Type.read, Take(now.buffer, now.size))
                                     ELSE [ok |-> FALSE, v |-> <<>>])

\* read<T>: what is left of the last read comes first.
readRaw ==
  /\ IsStreamed /\ ~cbStream.reading /\ Len(cbRead) < 2
  /\ LET left == Drop(cbStream.buffer, cbStream.size) IN
     consumed([buffering |-> reset(cbStream.buffering), buffer |-> left, size |-> 0,
               reading |-> TRUE], left)
  /\ UNCHANGED <<cbCase, cbVariant, cbWire>>

\* readSome returns with some bytes.
readSome ==
  /\ cbStream.reading /\ cbWire # <<>>
  /\ \E chunk \in CbChunks :
       LET got == Take(cbWire, Smaller(chunk, Len(cbWire))) IN
       /\ consumed([cbStream EXCEPT !.buffer = @ \o got], got)
       /\ cbWire' = Drop(cbWire, Len(got))
  /\ UNCHANGED <<cbCase, cbVariant>>

CbNext == ReadStored \/ readRaw \/ readSome

CbSpec == CbInit /\ [][CbNext]_cbVars

---------------------------------------------------------------------------
(* Properties.                                                             *)

\* The buffer holds what has been consumed, and a read waits only for bytes.
CbTypeOK ==
  /\ cbCase \in DOMAIN Cases /\ cbVariant \in CbVariants
  /\ cbStream.size <= Len(cbStream.buffer)
  /\ cbStream.reading => ~done(cbStream.buffering)

\* The bytes of the CIDs of a value, in their order.
RECURSIVE CidsOf(_, _)
CidsOf(t, v) ==
  CASE t.kind = "cid" -> <<toBytes(v)>>
    [] t.kind = "cbcid" -> <<kCborBlakePrefix \o v>>
    [] t.kind = "parents" ->
         IF v.genesis THEN <<kMainnetGenesisBlockParent>>
         ELSE [i \in DOMAIN v.parents |-> kCborBlakePrefix \o v.parents[i]]
    [] t.kind = "raw" -> findCids(v)
    [] t.kind \in {"opt", "list"} -> Concat([i \in DOMAIN v |-> CidsOf(t.of, v[i])])
    [] t.kind \in {"tuple", "map"} -> Concat([i \in DOMAIN t.fields |-> CidsOf(t.fields[i], v[i])])
    [] OTHER -> <<>>

\* The readers that do not decode an object see the same in its bytes: all its
\* CIDs, each of its members, and of a block header the ticket, parents and
\* height.
LightReadersAgree(t, v, bytes) ==
  /\ findCids(bytes) = CidsOf(t, v)
  /\ t.kind \in {"tuple", "map"} =>
       \A i \in DOMAIN t.fields :
         Bind(Decode(t.fields[i], resolve(CborDecodeStream(bytes), i)), LAMBDA member :
           member.ok /\ member.v = v[i])
  /\ t = BlockHeader /\ v[2] # <<>> /\ ~Negative(v[8]) =>
       readBlock(bytes) = [ok |-> TRUE, ticket |-> v[2][1][1], parents |-> v[6], height |-> v[8]]

\* CborEncodeStream, CborDecodeStream and CborStream: what is read is what was
\* written, member by member, whoever's structure reads it and however the
\* stream cuts the bytes; once all bytes have come, no read waits; and the
\* readers that skip through an object agree with the one that decodes it.
CborKeepsValues ==
  /\ \A i \in DOMAIN cbRead : cbRead[i] = [ok |-> TRUE, v |-> Value(i)]
  /\ cbWire = <<>> /\ IsStreamed => ~cbStream.reading
  /\ ~IsStreamed /\ cbRead # <<>> => LightReadersAgree(Type.write, Value(1), cbWire)
=============================================================================
