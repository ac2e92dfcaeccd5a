------------------------------ MODULE RlePlus -------------------------------
(***************************************************************************)
(* Run-length encoded sets of numbers: the arithmetic on runs              *)
(* (core/primitives/rle_bitset/runs_utils.cpp), the bit reader and writer  *)
(* (core/primitives/bitvec/bitvec.hpp), the trailer codec of a sector file *)
(* (toTrailer, runsFromBuffer) and the RLE+ codec of bitfields             *)
(* (core/codec/rle).                                                       *)
(*                                                                         *)
(* A word is the set of the positions of its one bits; a byte is a subset  *)
(* of 0..7.  Runs are a sequence of lengths whose first counts numbers     *)
(* that are absent, the second numbers that are present, and so on.        *)
(***************************************************************************)
EXTENDS ActorBase, FiniteSets

\* A failed decoding: no run has this length.
Broken == <<-1>>

---------------------------------------------------------------------------
(* Words.                                                                  *)

BitsOf(n) == {i \in 0..20 : (n \div (2 ^ i)) % 2 = 1}

NatOf(word) == SumOf([i \in word |-> 2 ^ i])

ShiftUp(word, n, width) == {i + n : i \in word} \cap (0..(width - 1))

ShiftDown(word, n) == {i - n : i \in {j \in word : j >= n}}

---------------------------------------------------------------------------
(* BitvecReader: sixteen bits read ahead of a buffer.                      *)

BitvecReader(buf) ==
  [buffer |-> buf, index |-> 1, cap |-> 8,
   bits |-> IF buf = <<>> THEN {} ELSE buf[1]]

\* buffer[index] moved up to where the bits read so far end.
ahead(r, cap) ==
  IF r.index < Len(r.buffer) THEN ShiftUp(r.buffer[r.index + 1], cap, 16) ELSE {}

getByte(r) ==
  [byte |-> r.bits \cap (0..7),
   reader |-> [r EXCEPT !.bits = ShiftDown(@, 8) \cup ahead(r, r.cap - 8),
                        !.index = @ + 1]]

peek6Bit(r) == r.bits \cap (0..5)

\* get(count): the bits, and the reader behind them.
readBits(r, count) ==
  LET cap == r.cap - count
      low == cap < 8
  IN  [bits |-> r.bits \cap (0..(count - 1)),
       reader |-> [r EXCEPT !.bits = ShiftDown(@, count) \cup ahead(r, cap),
                            !.cap = IF low THEN cap + 8 ELSE cap,
                            !.index = IF low THEN @ + 1 ELSE @]]

---------------------------------------------------------------------------
(* BitvecWriter.                                                           *)

BitvecWriter == [buffer |-> <<>>, bits |-> {}, cap |-> 0]

put(w, val, count) ==
  LET bits == w.bits \cup ShiftUp(BitsOf(val), w.cap, 16)
      cap == w.cap + count
  IN  IF cap >= 8
      THEN [buffer |-> Append(w.buffer, bits \cap (0..7)),
            bits |-> ShiftDown(bits, 8), cap |-> cap - 8]
      ELSE [w EXCEPT !.bits = bits, !.cap = cap]

RECURSIVE dropZeros(_)
dropZeros(buffer) ==
  IF buffer # <<>> /\ buffer[Len(buffer)] = {} THEN dropZeros(Front(buffer)) ELSE buffer

out(w) ==
  dropZeros(w.buffer \o (IF w.cap # 0 THEN <<w.bits \cap (0..7)>> ELSE <<>>)
                     \o (IF w.cap > 8 THEN <<ShiftDown(w.bits, 8)>> ELSE <<>>))

---------------------------------------------------------------------------
(* The trailer of a sector file.                                           *)

RECURSIVE uvarint(_)
uvarint(n) == IF n < 128 THEN <<n>> ELSE <<128 + (n % 128)>> \o uvarint(n \div 128)

RECURSIVE putAll(_, _)
putAll(w, bytes) ==
  IF bytes = <<>> THEN w ELSE putAll(put(w, Head(bytes), 8), Tail(bytes))

putRunSixteen(w, run) ==
  CASE run = 1 -> put(w, 1, 1)
    [] run # 1 /\ run <= 16 -> put(put(w, 2, 2), run % 16, 4)
    [] run > 16 -> putAll(put(w, 0, 2), uvarint(run))
putRun(w, run) ==
  CASE run = 1 -> put(w, 1, 1)
    [] run # 1 /\ run < 16 -> put(put(w, 2, 2), run, 4)
    [] run >= 16 -> putAll(put(w, 0, 2), uvarint(run))

RECURSIVE putRuns(_, _)
putRuns(w, runs) ==
  IF runs = <<>> THEN w ELSE putRuns(putRun(w, Head(runs)), Tail(runs))

\* toTrailer.  A leading run of zero turns the first flag on and is not
\* written itself; the code then reads the run behind it, so that <<0>> alone
\* reads past its end.  Runs alternate, so the check for kInvalidRuns cannot
\* fire.
toTrailer(runs) ==
  LET w == put(BitvecWriter, 0, 2) IN
  IF runs = <<>> THEN out(put(w, 0, 1))
  ELSE IF Head(runs) = 0 THEN out(putRuns(put(w, 1, 1), Tail(runs)))
  ELSE out(putRuns(put(w, 0, 1), runs))

readsPastRuns(runs) == runs = <<0>>

\* kDecodeTable: 00 announces a varint, 01 a run of four bits, and up to six
\* one bits as many runs of one.
kDecodeTable(idx) ==
  LET ones == CHOOSE n \in 0..6 : (0..(n - 1)) \subseteq idx /\ n \notin idx IN
  CASE ones > 0 -> [length |-> 1, repeats |-> ones - 1, n |-> ones, varint |-> FALSE]
    [] ones = 0 /\ 1 \in idx ->
         [length |-> NatOf(ShiftDown(idx, 2)), repeats |-> 0, n |-> 6, varint |-> FALSE]
    [] OTHER -> [length |-> 0, repeats |-> 0, n |-> 2, varint |-> TRUE]

RECURSIVE decodeVarint(_, _, _, _)
decodeVarint(reader, i, result, size) ==
  LET got == getByte(reader)
      byte == NatOf(got.byte)
      failed == [length |-> -1, reader |-> got.reader]
  IN  IF i = 10 \/ (byte < 128 /\ i = 9 /\ byte > 1) \/ (byte = 0 /\ size > 0)
      THEN failed
      ELSE IF byte < 128 THEN [length |-> result + byte * (2 ^ size), reader |-> got.reader]
      ELSE decodeVarint(got.reader, i + 1, result + (byte - 128) * (2 ^ size), size + 7)

getDecodeData(reader) ==
  LET info == kDecodeTable(peek6Bit(reader))
      past == readBits(reader, info.n).reader
      long == decodeVarint(past, 0, 0, 0)
  IN  IF info.varint THEN [length |-> long.length, repeats |-> 0, reader |-> long.reader]
      ELSE [length |-> info.length, repeats |-> info.repeats, reader |-> past]

RECURSIVE readRuns(_, _)
readRuns(data, result) ==
  CASE data.length = -1 -> Broken
    [] data.length = 0 -> result
    [] data.length > 0 ->
         readRuns(IF data.repeats = 0 THEN getDecodeData(data.reader)
                  ELSE [data EXCEPT !.repeats = @ - 1],
                  Append(result, data.length))

runsFromBuffer(buffer) ==
  LET version == readBits(BitvecReader(buffer), 2)
      flag == readBits(version.reader, 1)
  IN  IF (buffer # <<>> /\ buffer[Len(buffer)] = {}) \/ version.bits # {} THEN Broken
      ELSE readRuns(getDecodeData(flag.reader), IF flag.bits = {} THEN <<>> ELSE <<0>>)

---------------------------------------------------------------------------
(* Arithmetic on runs.                                                     *)

\* The set the runs stand for (fromRuns).
RECURSIVE fromRuns(_, _, _)
fromRuns(runs, value, include) ==
  IF runs = <<>> THEN {}
  ELSE (IF include THEN value..(value + Head(runs) - 1) ELSE {})
       \cup fromRuns(Tail(runs), value + Head(runs), ~include)

SetOf(runs) == fromRuns(runs, 0, FALSE)

\* toRuns: the runs of a set.
RECURSIVE toRunsFrom(_, _)
toRunsFrom(set, from) ==
  IF set = {} THEN <<>>
  ELSE LET first == Min(set)
           past == CHOOSE n \in (first + 1)..(Max(set) + 1) :
                     n \notin set /\ first..(n - 1) \subseteq set
       IN  <<first - from, past - first>> \o toRunsFrom({n \in set : n > past}, past)

toRuns(set) == toRunsFrom(set, 0)

\* The caller's loop of runsAnd and runsOr: the runs nextRun yields, joined
\* where one has not the polarity that is due.
joinRun(result, run, value, due) ==
  IF value = due THEN Append(result, run)
  ELSE [result EXCEPT ![Len(result)] = @ + run]

\* One side of the two cursors: the runs left, what is left of the current
\* one and its polarity.
Side(runs, value) == [runs |-> runs, left |-> 0, value |-> value]

Advance(side) ==
  [runs |-> Tail(side.runs), left |-> Head(side.runs), value |-> ~side.value]

Endless == 2 ^ 20

\* One call of nextRun in runsAnd from its loop head: next is the run gathered
\* so far.
RECURSIVE nextRunAnd(_, _, _, _)
nextRunAnd(l, r, next, subtract) ==
  LET lEnds == l.left = 0 /\ l.runs = <<>>
      l1 == IF l.left = 0 THEN Advance(l) ELSE l
      rEnds == r.left = 0 /\ r.runs = <<>>
      r1 == IF r.left # 0 THEN r
            ELSE IF rEnds THEN [r EXCEPT !.left = Endless, !.value = TRUE]
            ELSE Advance(r)
      value == l1.value /\ r1.value
      new == Smaller(l1.left, r1.left)
  IN  IF lEnds THEN [run |-> next.run, value |-> next.value, l |-> l, r |-> r]
      ELSE IF rEnds /\ ~subtract
      THEN [run |-> next.run, value |-> next.value, l |-> l1, r |-> r]
      ELSE IF next.run > 0 /\ next.value # value
      THEN [run |-> next.run, value |-> next.value, l |-> l1, r |-> r1]
      ELSE nextRunAnd([l1 EXCEPT !.left = @ - new], [r1 EXCEPT !.left = @ - new],
                      [run |-> next.run + new, value |-> value], subtract)

RECURSIVE andFrom(_, _, _, _, _)
andFrom(l, r, subtract, result, due) ==
  LET next == nextRunAnd(l, r, [run |-> 0, value |-> FALSE], subtract) IN
  IF next.run = 0 THEN result
  ELSE andFrom(next.l, next.r, subtract, joinRun(result, next.run, next.value, due),
               IF next.value = due THEN ~due ELSE due)

\* The numbers of lhs in rhs, or with subtract those not in rhs.
runsAnd(lhs, rhs, subtract) ==
  andFrom(Side(lhs, TRUE), Side(rhs, ~subtract), subtract, <<0>>, TRUE)

fetchRun(side) == IF side.left = 0 /\ side.runs # <<>> THEN Advance(side) ELSE side

\* The inner loop of nextRun in runsOr: present numbers of either side.
RECURSIVE gatherOr(_, _, _)
gatherOr(l, r, run) ==
  LET least == IF (r.left < l.left /\ r.left # 0) \/ l.left = 0 THEN r.left ELSE l.left
      Less(side) == [side EXCEPT !.left = IF @ = 0 THEN 0 ELSE @ - least]
  IN  IF (l.value /\ l.left # 0) \/ (r.value /\ r.left # 0)
      THEN gatherOr(fetchRun(Less(l)), fetchRun(Less(r)), run + least)
      ELSE [run |-> run, value |-> TRUE, l |-> l, r |-> r]

nextRunOr(lhs, rhs) ==
  LET l == fetchRun(lhs)
      r == fetchRun(rhs)
      least == Smaller(l.left, r.left)
      l1 == fetchRun([l EXCEPT !.left = @ - least])
      r1 == fetchRun([r EXCEPT !.left = @ - least])
      trailing == l1.left = 0 /\ ~r1.value
  IN  IF l.left = 0 THEN [run |-> r.left, value |-> r.value, l |-> l, r |-> [r EXCEPT !.left = 0]]
      ELSE IF r.left = 0
      THEN [run |-> l.left, value |-> l.value, l |-> [l EXCEPT !.left = 0], r |-> r]
      ELSE IF ~l.value /\ ~r.value
      THEN IF trailing
           THEN [run |-> least + l1.left + r1.left, value |-> FALSE,
                 l |-> [l1 EXCEPT !.left = 0], r |-> [r1 EXCEPT !.left = 0]]
           ELSE [run |-> least, value |-> FALSE, l |-> l1, r |-> r1]
      ELSE gatherOr(l, r, 0)

RECURSIVE orFrom(_, _, _, _)
orFrom(l, r, result, due) ==
  LET next == nextRunOr(l, r) IN
  IF next.run = 0 THEN result
  ELSE orFrom(next.l, next.r, joinRun(result, next.run, next.value, due),
              IF next.value = due THEN ~due ELSE due)

\* The cursor of runsOr steps over a leading run of zero.
sideOr(runs) ==
  IF runs # <<>> /\ Head(runs) = 0 THEN Side(Tail(runs), FALSE) ELSE Side(runs, TRUE)

\* The numbers of lhs or rhs.
runsOr(lhs, rhs) == orFrom(sideOr(lhs), sideOr(rhs), <<0>>, TRUE)

\* How many numbers the runs hold (kRleOverflow needs a sum past 2^64).
runsCount(runs) ==
  SumOf([i \in {j \in DOMAIN runs : j % 2 = 0} |-> runs[i]])

\* The runs of 0 up to the last number.
runsFill(runs) ==
  LET upTo(i) == SumOf([j \in 1..i |-> runs[j]])
      present == {i \in DOMAIN runs : i % 2 = 0}
      length == IF present = {} THEN 0 ELSE upTo(Max(present))
  IN  IF length > 0 THEN <<0, length>> ELSE <<0>>

---------------------------------------------------------------------------
(* RLE+ of a bitfield.                                                     *)

Bit(b) == IF b THEN 1 ELSE 0

pushByte(byte) == [i \in 1..8 |-> (byte \div (2 ^ (i - 1))) % 2]

pushSmallBlock(run) == <<0, 1>> \o [i \in 1..4 |-> (run \div (2 ^ (i - 1))) % 2]

pushLongBlock(run) ==
  <<0, 0>> \o FoldLeft(LAMBDA bits, byte : bits \o pushByte(byte), <<>>, uvarint(run))

\* getPeriods: the runs, without a leading one of zero.
getPeriods(set) ==
  LET runs == toRuns(set) IN
  IF runs # <<>> /\ Head(runs) = 0 THEN Tail(runs) ELSE runs

pushPeriod(content, run) ==
  content \o (CASE run = 1 -> <<1>>
                [] run # 1 /\ run < 16 -> pushSmallBlock(run)
                [] run >= 16 -> pushLongBlock(run))

\* data(): the blocks of the bit set, the last one dropped when it is zero.
blocksOf(content) ==
  LET block(b) == {i \in 0..7 : 8 * b + i + 1 \in DOMAIN content
                                 /\ content[8 * b + i + 1] = 1}
      blocks == [b \in 1..((Len(content) + 7) \div 8) |-> block(b - 1)]
  IN  IF blocks # <<>> /\ blocks[Len(blocks)] = {} THEN Front(blocks) ELSE blocks

encodeRle(set) ==
  IF set = {} THEN <<>>
  ELSE blocksOf(FoldLeft(pushPeriod, <<0, 0, Bit(0 \in set)>>, getPeriods(set)))

\* getSpan: count bits from index on; those behind the content read as zero.
getSpan(blocks, index, count) ==
  SumOf([i \in {j \in 0..(count - 1) :
                  /\ (index + j) \div 8 < Len(blocks)
                  /\ (index + j) % 8 \in blocks[(index + j) \div 8 + 1]} |-> 2 ^ i])

\* The bytes of a long block, up to one without the top bit, unpacked.
RECURSIVE unpack(_, _, _)
unpack(blocks, index, shift) ==
  LET byte == getSpan(blocks, index, 8) IN
  IF byte < 128 THEN [length |-> byte * (2 ^ shift), index |-> index + 8]
  ELSE LET rest == unpack(blocks, index + 8, shift + 7) IN
       [rest EXCEPT !.length = @ + (byte - 128) * (2 ^ shift)]

decodeBlock(blocks, index) ==
  IF getSpan(blocks, index, 1) = 1 THEN [length |-> 1, index |-> index + 1]
  ELSE IF getSpan(blocks, index + 1, 1) = 0 THEN unpack(blocks, index + 2, 0)
  ELSE [length |-> getSpan(blocks, index + 2, 4), index |-> index + 6]

RECURSIVE decodeBlocks(_, _, _, _)
decodeBlocks(blocks, index, magnitude, value) ==
  LET more == \E b \in DOMAIN blocks : \E i \in blocks[b] : 8 * (b - 1) + i >= index
      got == decodeBlock(blocks, index)
  IN  IF ~more THEN {}
      ELSE (IF magnitude THEN value..(value + got.length - 1) ELSE {})
           \cup decodeBlocks(blocks, got.index, ~magnitude, value + got.length)

\* A set, or an error as the set of a negative number.
decodeRle(blocks) ==
  IF blocks = <<>> THEN {}
  ELSE IF getSpan(blocks, 0, 2) # 0 THEN {-1}
  ELSE decodeBlocks(blocks, 3, getSpan(blocks, 2, 1) = 1, 0)

---------------------------------------------------------------------------
(* Runs built as SectorFile and LocalWorker build them: by adding, taking  *)
(* away and cutting to ranges, and read back from a trailer.               *)

CONSTANTS RlPoints   \* ends of ranges

ASSUME RlAssumption == RlPoints \subseteq Nat

VARIABLES rlRuns,  \* the runs
          rlSet    \* the numbers they stand for

rlVars == <<rlRuns, rlSet>>

RlInit == rlRuns = <<>> /\ rlSet = {}

RlAdd(a, b) ==
  /\ rlRuns' = runsOr(rlRuns, <<a, b - a>>)
  /\ rlSet' = rlSet \cup (a..(b - 1))

RlFree(a, b) ==
  /\ rlRuns' = runsAnd(rlRuns, <<a, b - a>>, TRUE)
  /\ rlSet' = rlSet \ (a..(b - 1))

RlCut(a, b) ==
  /\ rlRuns' = runsAnd(rlRuns, <<a, b - a>>, FALSE)
  /\ rlSet' = rlSet \cap (a..(b - 1))

\* What of a range is not there, as computeUnsealRanges asks.
RlLacks(a, b) ==
  /\ rlRuns' = runsAnd(<<a, b - a>>, rlRuns, TRUE)
  /\ rlSet' = (a..(b - 1)) \ rlSet

RlReopen ==
  /\ ~readsPastRuns(rlRuns)
  /\ rlRuns' = runsFromBuffer(toTrailer(rlRuns))
  /\ UNCHANGED rlSet

RlNext ==
  \/ RlReopen
  \/ \E a, b \in RlPoints :
       a < b /\ (RlAdd(a, b) \/ RlFree(a, b) \/ RlCut(a, b) \/ RlLacks(a, b))

RlSpec == RlInit /\ [][RlNext]_rlVars

\* Runs: a sequence of lengths, none but the first of which is zero.
RlTypeOK == \A i \in DOMAIN rlRuns : rlRuns[i] \in Nat /\ (rlRuns[i] > 0 \/ i = 1)

\* Whatever operations of runs_utils.cpp made them, the runs stand for the set
\* the set operations give, are counted and filled as that set is, and a
\* trailer gives them back; a bitfield of the set is read back from RLE+, whose
\* bytes are those of the trailer of its runs.
RunsAreSets ==
  /\ SetOf(rlRuns) = rlSet
  /\ runsCount(rlRuns) = Cardinality(rlSet)
  /\ SetOf(runsFill(rlRuns)) = IF rlSet = {} THEN {} ELSE 0..Max(rlSet)
  /\ ~readsPastRuns(rlRuns) => runsFromBuffer(toTrailer(rlRuns)) = rlRuns
  /\ decodeRle(encodeRle(rlSet)) = rlSet
  /\ encodeRle(rlSet) = toTrailer(toRuns(rlSet))
=============================================================================
