----------------------------- MODULE SectorFile -----------------------------
(***************************************************************************)
(* The unsealed file of a sector (core/primitives/sector_file): the data of *)
(* the sector's pieces, followed by a trailer that says which bytes are    *)
(* allocated, and the calls of LocalWorker that fill, free, refill and read *)
(* it (core/sector_storage/impl/local_worker.cpp: addPiece, freeUnsealed,  *)
(* unsealPiece, readPiece).  The sector lock keeps calls apart; the threads *)
(* of one unsealPiece share the open file.                                 *)
(*                                                                         *)
(* Sizes and offsets are bytes: 127 bytes of data take a block of 128 with *)
(* the padding.  The data of a block is the name of the piece it belongs   *)
(* to, Zero where nothing was written, Wrong where it is not whole.  A pipe *)
(* delivers all of its piece or fails on the way.                          *)
(***************************************************************************)
EXTENDS RlePlus, TLC

CONSTANTS SfBlocks,      \* blocks of the sector
          SfPieces,      \* names of pieces
          SfSizes,       \* their sizes, in blocks
          SfMergeGaps,   \* kMergeGaps of unsealPiece
          SfChunk,       \* the chunk of SectorFile::write, in blocks
          SfNull,        \* whether filler pieces are added
          SfOverlap,     \* whether the threads of an unsealPiece overlap
          SfMaxCalls     \* bound: calls of the worker

ASSUME SectorFileAssumption ==
  /\ SfBlocks \in Nat \ {0} /\ SfSizes \subseteq 1..SfBlocks
  /\ SfMergeGaps \in Nat /\ SfChunk \in Nat \ {0} /\ SfMaxCalls \in Nat
  /\ {SfNull, SfOverlap} \subseteq BOOLEAN

VARIABLES sfDisk,    \* [there, data, tail]: the file; torn: a write into it was cut short
          sfFile,    \* the open SectorFile: [open, runs, pos, held]
          sfJobs,    \* writes and frees of the call, in the order they start
          sfLayout,  \* the pieces of the sector: sequence of [name, size]
          sfSealed,  \* whether the sector is sealed
          sfCall,    \* the call that runs: [op, offset, size, name]
          sfRead,    \* what the last readPiece gave
          sfCalls    \* calls made

sfVars == <<sfDisk, sfFile, sfJobs, sfLayout, sfSealed, sfCall, sfRead, sfCalls>>

Zero == "zero"
Wrong == "wrong"
Blocks_ == 0..(SfBlocks - 1)
maxSize == 128 * SfBlocks

NoCall == [op |-> "none", offset |-> 0, size |-> 0, name |-> Zero]
Closed == [open |-> FALSE, runs |-> <<>>, pos |-> 0, held |-> Empty]
Absent == [there |-> FALSE, data |-> [b \in Blocks_ |-> Zero], tail |-> <<>>, torn |-> FALSE]

---------------------------------------------------------------------------
(* Piece sizes.                                                            *)

padded(size) == size + (size \div 127)
unpadded(size) == size - (size \div 128)

\* countTrailingZeros and subPieces: the powers of two of a padded size,
\* least first.
subPieces(size) ==
  LET bits == BitsOf(padded(size)) IN
  [i \in 1..Cardinality(bits) |-> unpadded(2 ^ Ascending(bits)[i])]

\* PadWriter::write: the bytes of the input that reach the file; what is
\* shorter than 127 bytes stays in the stash.
RECURSIVE padWrite(_)
padWrite(input) ==
  LET biggest == Last(subPieces(input)) IN
  IF input < 127 THEN 0 ELSE padded(biggest) + padWrite(input - biggest)

\* paddedSize: the data that fits the next power of two that holds size.
paddedSize(size) ==
  LET logv == Max(BitsOf(size)) + 1
      bound == unpadded(2 ^ logv)
  IN  IF size <= bound THEN bound ELSE unpadded(2 ^ (logv + 1))

---------------------------------------------------------------------------
(* The padding of a block: 127 bytes to 128 and back.  A bit is the set of *)
(* the bits of the input it is the sum of, a byte the sequence of its      *)
(* bits, lowest first.                                                     *)

shl(byte, n) == [i \in 1..8 |-> IF i <= n THEN {} ELSE byte[i - n]]
shr(byte, n) == [i \in 1..8 |-> IF i + n > 8 THEN {} ELSE byte[i + n]]
low6(byte) == [i \in 1..8 |-> IF i > 6 THEN {} ELSE byte[i]]
\* Of two bits that are both set nothing is known.
or(a, b) ==
  [i \in 1..8 |-> IF a[i] = {} THEN b[i] ELSE IF b[i] = {} THEN a[i] ELSE {-1}]
xor(a, b) == [i \in 1..8 |-> (a[i] \ b[i]) \cup (b[i] \ a[i])]

innerPadUnmasked(in) ==
  [i \in 0..127 |->
     CASE i < 32 -> in[i]
       [] i \in 32..63 -> or(shl(in[i], 2), shr(in[i - 1], 6))
       [] i \in 64..95 -> or(shl(in[i], 4), shr(in[i - 1], 4))
       [] i \in 96..126 -> or(shl(in[i], 6), shr(in[i - 1], 2))
       [] i = 127 -> shr(in[126], 2)]
innerPad(in) ==
  [i \in 0..127 |->
     CASE i < 31 -> in[i]
       [] i = 31 -> low6(in[31])
       [] i \in 32..62 -> or(shl(in[i], 2), shr(in[i - 1], 6))
       [] i = 63 -> low6(or(shl(in[63], 2), shr(in[62], 6)))
       [] i \in 64..94 -> or(shl(in[i], 4), shr(in[i - 1], 4))
       [] i = 95 -> low6(or(shl(in[95], 4), shr(in[94], 4)))
       [] i \in 96..126 -> or(shl(in[i], 6), shr(in[i - 1], 2))
       [] i = 127 -> low6(shr(in[126], 2))]

innerUnpad(in) ==
  [i \in 0..126 |->
     CASE i < 31 -> in[i]
       [] i = 31 -> or(in[31], shl(in[32], 6))
       [] i \in 32..62 -> or(shr(in[i], 2), shl(in[i + 1], 6))
       [] i = 63 -> xor(or(shr(in[63], 2), shl(in[64], 6)),
                        xor(shl(in[64], 6), shl(in[64], 4)))
       [] i \in 64..94 -> or(shr(in[i], 4), shl(in[i + 1], 4))
       [] i = 95 -> xor(or(shr(in[95], 4), shl(in[96], 4)),
                        xor(shl(in[96], 4), shl(in[96], 2)))
       [] i \in 96..126 -> or(shr(in[i], 6), shl(in[i + 1], 2))]

RawBlock == [b \in 0..126 |-> [i \in 1..8 |-> {8 * b + i}]]

---------------------------------------------------------------------------
(* The trailer.                                                            *)

Size32(n) == <<BitsOf(n % 256), BitsOf(n \div 256), {}, {}>>

ofSize32(bytes) ==
  NatOf(bytes[1]) + 256 * NatOf(bytes[2]) + 65536 * NatOf(bytes[3] \cup bytes[4])

\* The trailer and its size written over the tail, before resize_file.
withSize(trailer) == trailer \o Size32(Len(trailer))
putOver(tail, new) == new \o SubSeq(tail, Len(new) + 1, Len(tail))
writeOver(tail, runs) == putOver(tail, withSize(toTrailer(runs)))

\* resize_file behind a trailer of these runs.
resized(tail, runs) ==
  LET size == Len(toTrailer(runs)) + 4 IN
  [i \in 1..size |-> IF i <= Len(tail) THEN tail[i] ELSE {}]

writeTrailer(tail, runs) == resized(writeOver(tail, runs), runs)

\* openFile: the runs of the trailer, or Broken.
inBounds(runs) == IF runs = Broken \/ runsCount(runsFill(runs)) > maxSize THEN Broken ELSE runs
openTail(tail, n, size) ==
  IF size + 4 # n THEN Broken ELSE inBounds(runsFromBuffer(SubSeq(tail, 1, size)))
openFile(disk) ==
  LET n == Len(disk.tail) IN
  IF ~disk.there \/ n < 4 THEN Broken
  ELSE openTail(disk.tail, n, ofSize32(SubSeq(disk.tail, n - 3, n)))

\* createFile keeps the data of a file that is there: it only resizes it.
createFile(disk) ==
  [disk EXCEPT !.there = TRUE, !.tail = writeTrailer(<<>>, <<>>)]

hasAllocated(runs, offset, size) ==
  runsCount(runsAnd(runs, <<padded(offset), padded(size)>>, FALSE)) = padded(size)

Opened(runs) == [open |-> TRUE, runs |-> runs, pos |-> 0, held |-> Empty]

---------------------------------------------------------------------------
(* The calls.                                                              *)

\* Where a new piece goes: behind the pieces there are (unpadded).
offsetOf(layout) == SumOf([i \in DOMAIN layout |-> layout[i].size])

\* What a block of the sector holds.
Content(b) ==
  LET upTo(i) == padded(offsetOf(SubSeq(sfLayout, 1, i))) \div 128
      of == {i \in DOMAIN sfLayout : upTo(i - 1) <= b /\ b < upTo(i)}
  IN  IF of = {} THEN Zero ELSE sfLayout[CHOOSE i \in of : TRUE].name

Job(op, offset, size, name) ==
  [op |-> op, offset |-> offset, size |-> size, name |-> name, runs |-> <<>>,
   stage |-> IF op = "write" THEN "seek" ELSE "mark"]

\* A call that ends with an error, or at once.
Fails == UNCHANGED <<sfDisk, sfFile, sfJobs, sfLayout, sfSealed, sfCall, sfRead>>

\* A call opens the file, and fails when it cannot; what it has to do depends
\* on the runs.
Begin(call, disk, jobs(_)) ==
  \E runs \in {openFile(disk)} :
    \/ runs = Broken /\ Fails
    \/ /\ runs # Broken
       /\ sfCall' = call
       /\ sfDisk' = disk
       /\ sfFile' = Opened(runs)
       /\ sfJobs' = jobs(runs)
       /\ UNCHANGED <<sfLayout, sfSealed, sfRead>>

\* addPiece: createFile for the first piece, else openFile; a filler piece
\* (null data) is only marked.
AddPiece(name, size) ==
  LET offset == offsetOf(sfLayout)
      first == sfLayout = <<>>
      disk == IF first THEN createFile(sfDisk) ELSE sfDisk
      job == Job(IF name = Zero THEN "null" ELSE "write", padded(offset), padded(size), name)
  IN  /\ ~sfSealed
      /\ padded(offset) + padded(size) <= maxSize
      /\ Begin([op |-> "add", offset |-> offset, size |-> size, name |-> name],
               disk, LAMBDA runs : <<job>>)

\* freeUnsealed on a sealed sector: every run of the sector outside the range
\* to keep.
freeJobs(rle) ==
  LET from(i) == SumOf([j \in 1..(i - 1) |-> rle[j]])
      frees == {i \in DOMAIN rle : i % 2 = 0}
  IN  [k \in 1..Cardinality(frees) |->
         LET i == Ascending(frees)[k] IN Job("free", from(i), rle[i], Zero)]
FreeUnsealed(offset, size) ==
  /\ sfSealed
  /\ Begin([NoCall EXCEPT !.op = "free"], sfDisk,
           LAMBDA runs : freeJobs(runsAnd(<<0, maxSize>>, <<padded(offset), padded(size)>>, TRUE)))

\* computeUnsealRanges: what of a range is not allocated, as ranges of an
\* offset and a size of data; close ones are merged, and the merged size adds
\* padded lengths to one that is not.
wholeRuns(all) == IF Len(all) % 2 # 0 THEN Front(all) ELSE all
mergedRanges(todo) ==
  LET at(i) == SumOf([j \in 1..i |-> todo[j]])
      step(ranges, i) ==
        IF ranges # <<>> /\ todo[i] < SfMergeGaps
        THEN [ranges EXCEPT ![Len(ranges)].size = @ + todo[i] + todo[i + 1]]
        ELSE Append(ranges, [offset |-> unpadded(at(i)), size |-> unpadded(todo[i + 1])])
  IN  FoldLeft(step, <<>>, [k \in 1..(Len(todo) \div 2) |-> 2 * k - 1])
computeUnsealRanges(runs, offset, size) ==
  mergedRanges(wholeRuns(runsAnd(<<offset, size>>, runs, TRUE)))

writeJobs(ranges) ==
  [k \in DOMAIN ranges |->
     Job("write", padded(ranges[k].offset), padded(ranges[k].size), Zero)]
unsealJobsUnpadded(runs, offset, size) ==
  LET ranges == computeUnsealRanges(runs, padded(offset), padded(size)) IN
  [k \in DOMAIN ranges |->
     Job("write", ranges[k].offset, padded(ranges[k].size), Zero)]
unsealJobs(runs, offset, size) ==
  writeJobs(computeUnsealRanges(runs, padded(offset), padded(size)))

\* unsealPiece of a sealed sector.  Nothing to unseal: it returns at once.
UnsealPiece(offset, size) ==
  LET disk == IF sfDisk.there THEN sfDisk ELSE createFile(sfDisk)
  IN  /\ sfSealed
      /\ Begin([op |-> "unseal", offset |-> offset, size |-> size, name |-> Zero],
               disk, LAMBDA runs : unsealJobs(runs, offset, size))

\* readPiece: nothing unless the range is allocated, else its blocks, as many
\* as the power of two read holds; a file that does not open is an error.
ReadPiece(offset, size) ==
  LET read == (padded(offset) \div 128)..((padded(offset) + padded(paddedSize(size))) \div 128 - 1)
      whole == /\ paddedSize(size) = size
               /\ \A b \in read : sfDisk.data[b] = Content(b)
      allocated(runs) == runs # Broken /\ hasAllocated(runs, offset, size)
  IN  /\ sfRead' = IF ~allocated(openFile(sfDisk)) THEN "nothing"
                   ELSE IF whole THEN "right" ELSE "wrong"
      /\ UNCHANGED <<sfDisk, sfFile, sfJobs, sfLayout, sfSealed, sfCall>>

Seal ==
  /\ sfLayout # <<>> /\ ~sfSealed /\ sfCall = NoCall
  /\ sfSealed' = TRUE
  /\ UNCHANGED <<sfDisk, sfFile, sfJobs, sfLayout, sfCall, sfRead, sfCalls>>

\* A sealed sector's unsealed file is removed (finalizeSector with nothing to
\* keep).
RemoveFile ==
  /\ sfSealed /\ sfCall = NoCall /\ sfDisk.there
  /\ sfDisk' = Absent
  /\ sfRead' = "nothing"
  /\ UNCHANGED <<sfFile, sfJobs, sfLayout, sfSealed, sfCall, sfCalls>>

SfCall ==
  /\ sfCall = NoCall /\ sfCalls < SfMaxCalls
  /\ sfCalls' = sfCalls + 1
  /\ \E size \in SfSizes :
       \/ \E name \in SfPieces : AddPiece(name, 127 * size)
       \/ SfNull /\ AddPiece(Zero, 127 * size)
       \/ \E offset \in Blocks_ :
            /\ offset + size <= SfBlocks
            /\ \/ FreeUnsealed(127 * offset, 127 * size)
               \/ UnsealPiece(127 * offset, 127 * size)
               \/ ReadPiece(127 * offset, 127 * size)

---------------------------------------------------------------------------
(* The jobs of a call: SectorFile::write, writeNull and free.              *)

SetJob(k, job) == [sfJobs EXCEPT ![k] = job]

\* A job may start once the ones before it are done; with SfOverlap, once
\* their data went into the pipe, for unsealRange returns then.
mayStart(k) ==
  \A i \in 1..(k - 1) :
    sfJobs[i].stage \in IF SfOverlap /\ sfCall.op = "unseal"
                        THEN {"data", "mark", "resize", "assign", "done"} ELSE {"done"}

SeekJob(k) ==
  /\ sfJobs[k].stage = "seek" /\ mayStart(k)
  /\ sfFile' = [sfFile EXCEPT !.pos = sfJobs[k].offset]
  /\ sfJobs' = SetJob(k, [sfJobs[k] EXCEPT !.stage = "data"])
  /\ UNCHANGED <<sfDisk, sfLayout, sfSealed, sfCall, sfRead, sfCalls>>

\* The blocks that a write of so many bytes from here fills, with what it puts
\* there: the piece added, or for an unsealed range what the sector holds at
\* the range's own offset.
blocksFrom(job, pos, bytes) ==
  LET full == {b \in Blocks_ : 128 * b >= pos /\ 128 * (b + 1) <= pos + bytes}
      own(b) == IF job.name # Zero THEN job.name
                ELSE IF pos # job.offset \/ pos % 128 # 0 THEN Wrong
                ELSE Content(b)
  IN  [b \in full |-> own(b)]

DataJob(k) ==
  LET job == sfJobs[k]
      all == padWrite(unpadded(job.size))
      Held(bytes) == blocksFrom(job, sfFile.pos, bytes) @@ sfFile.held
  IN  /\ job.stage = "data"
      /\ \/ /\ sfFile' = [sfFile EXCEPT !.held = Held(all), !.pos = @ + all]
            /\ sfJobs' = SetJob(k, [job EXCEPT !.stage = "mark"])
            /\ UNCHANGED sfDisk
         \/ /\ job.name # Zero
            /\ \E n \in 0..((all - 1) \div (128 * SfChunk)) :
                 sfFile' = [sfFile EXCEPT !.held = Held(128 * SfChunk * n)]
            /\ sfJobs' = <<>>
            /\ sfDisk' = [sfDisk EXCEPT !.torn = TRUE]
      /\ UNCHANGED <<sfLayout, sfSealed, sfCall, sfRead, sfCalls>>

\* markAllocated and free: the new runs and the first write of writeTrailer.
MarkJob(k) ==
  LET job == sfJobs[k]
      range == <<job.offset, job.size>>
      runs == IF job.op = "free" THEN runsAnd(sfFile.runs, range, TRUE)
              ELSE runsOr(sfFile.runs, range)
  IN  /\ job.stage = "mark" /\ mayStart(k)
      /\ sfDisk' = [sfDisk EXCEPT !.tail = writeOver(@, runs)]
      /\ sfJobs' = SetJob(k, [job EXCEPT !.runs = runs, !.stage = "resize"])
      /\ UNCHANGED <<sfFile, sfLayout, sfSealed, sfCall, sfRead, sfCalls>>

ResizeJob(k) ==
  /\ sfJobs[k].stage = "resize"
  /\ sfDisk' = [sfDisk EXCEPT !.tail = resized(@, sfJobs[k].runs)]
  /\ sfJobs' = SetJob(k, [sfJobs[k] EXCEPT !.stage = "assign"])
  /\ UNCHANGED <<sfFile, sfLayout, sfSealed, sfCall, sfRead, sfCalls>>

AssignJob(k) ==
  /\ sfJobs[k].stage = "assign"
  /\ sfFile' = [sfFile EXCEPT !.runs = sfJobs[k].runs]
  /\ sfJobs' = SetJob(k, [sfJobs[k] EXCEPT !.stage = "done"])
  /\ UNCHANGED <<sfDisk, sfLayout, sfSealed, sfCall, sfRead, sfCalls>>

\* The call ends: the file is closed, which writes what its stream still holds.
EndCall ==
  LET whole == sfJobs # <<>> IN
  /\ sfCall # NoCall /\ \A k \in DOMAIN sfJobs : sfJobs[k].stage = "done"
  /\ sfDisk' = [sfDisk EXCEPT !.data = sfFile.held @@ @]
  /\ sfFile' = Closed
  /\ sfJobs' = <<>>
  /\ sfLayout' = IF sfCall.op = "add" /\ whole
                 THEN Append(sfLayout, [name |-> sfCall.name, size |-> sfCall.size])
                 ELSE sfLayout
  /\ sfCall' = NoCall
  /\ UNCHANGED <<sfSealed, sfRead, sfCalls>>

\* The process dies: what the stream held is lost.
Die ==
  /\ sfCall # NoCall
  /\ sfDisk' = [sfDisk EXCEPT !.torn = TRUE]
  /\ sfFile' = Closed
  /\ sfJobs' = <<>>
  /\ sfCall' = NoCall
  /\ UNCHANGED <<sfLayout, sfSealed, sfRead, sfCalls>>

SfInit ==
  /\ sfDisk = Absent /\ sfFile = Closed /\ sfJobs = <<>> /\ sfLayout = <<>>
  /\ sfSealed = FALSE /\ sfCall = NoCall /\ sfRead = "nothing" /\ sfCalls = 0

SfNext ==
  \/ SfCall \/ Seal \/ RemoveFile \/ EndCall \/ Die
  \/ \E k \in DOMAIN sfJobs :
       SeekJob(k) \/ DataJob(k) \/ MarkJob(k) \/ ResizeJob(k) \/ AssignJob(k)

SfSpec == SfInit /\ [][SfNext]_sfVars

---------------------------------------------------------------------------
(* Properties.                                                             *)

SfTypeOK ==
  /\ {sfDisk.there, sfDisk.torn} \subseteq BOOLEAN /\ DOMAIN sfDisk.data = Blocks_
  /\ sfFile.open = (sfCall # NoCall)
  /\ \A k \in DOMAIN sfJobs : sfJobs[k].op \in {"write", "null", "free"}
  /\ sfCalls \in 0..SfMaxCalls
  /\ sfRead \in {"nothing", "right", "wrong"}

\* Of a file that no failed pipe and no death of the process cut short a write
\* into (writeNull takes what such a write left for zeros, and the trailer can
\* be on disk before the data): between calls, of a sector with pieces, its file opens; every block of
\* which a byte is allocated holds what the sector holds there (a filler
\* piece, zeros); and until the sector is sealed all of its pieces are
\* allocated.  At the end of an unsealPiece its range is allocated, and no
\* runs are written that toTrailer reads past; what readPiece gives is what
\* the sector holds (addPiece, freeUnsealed, unsealPiece through the trailer).
AllocatedIsWritten == ~sfDisk.torn =>
  /\ sfRead # "wrong"
  /\ \A k \in DOMAIN sfJobs : ~readsPastRuns(sfJobs[k].runs)
  /\ (sfCall.op = "unseal" /\ \A k \in DOMAIN sfJobs : sfJobs[k].stage = "done")
       => hasAllocated(sfFile.runs, sfCall.offset, sfCall.size)
  /\ (sfCall = NoCall /\ sfLayout # <<>> /\ sfDisk.there) =>
    LET runs == openFile(sfDisk) IN
    /\ runs # Broken
    /\ \A b \in Blocks_ : \A i \in SetOf(runs) :
         i \div 128 = b => sfDisk.data[b] = Content(b)
    /\ ~sfSealed => SetOf(runs) = 0..(padded(offsetOf(sfLayout)) - 1)

\* The padding of innerPad puts two zero bits behind every 254 bits of data,
\* so that 32 bytes are always less than the field's modulus, and innerUnpad
\* takes them out again.
PaddingIsUndone ==
  LET to == innerPad(RawBlock)
      at(k) == to[k \div 8][(k % 8) + 1]
  IN  /\ innerUnpad(to) = RawBlock
      /\ \A k \in 0..1023 :
           at(k) = IF k % 256 >= 254 THEN {} ELSE {k - 2 * (k \div 256) + 1}

SectorFileSound == AllocatedIsWritten /\ PaddingIsUndone
=============================================================================
