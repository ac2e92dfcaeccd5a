---------------------------- MODULE BlockStores -----------------------------
(***************************************************************************)
(* The block stores of the node: the index of a car file, the store on top *)
(* of it, and the compacter that copies what the chain needs to a new      *)
(* store.                                                                  *)
(***************************************************************************)
EXTENDS ActorBase, FiniteSets, TLC

(* The index of a content-addressed archive (storage/car/cids_index): a car *)
(* file is a sequence of items, its index a file of rows sorted by key, and *)
(* opening the archive repairs both after a crash.  A positive item is a   *)
(* block stored under that key, a negative one a block of another codec,   *)
(* Torn an item of which only a part was written.  An offset is a position *)
(* in the car.                                                             *)

CONSTANTS CiMaxMemory,     \* bytes the index may take (max_memory)
          CiRowsCapacity,  \* rows readCar gathers before it sorts and writes
          CiBuffer         \* rows a merged range reads at once

ASSUME CidsIndexAssumption ==
    /\ CiMaxMemory \in Nat \ {0}
    /\ CiRowsCapacity \in Nat \ {0}
    /\ CiBuffer \in Nat \ {0}

Torn == 0
Row(key, offset) == [key |-> key, offset |-> offset]
NoRow == Row(Torn, 0)
NoIndex == [kind |-> "none", rows |-> <<>>]
RowBytes == 40
KeyBytes == 32

(* Rows are compared as bytes: the key first, then the offset.             *)
RowLess(l, r) == l.key < r.key \/ (l.key = r.key /\ l.offset < r.offset)

(* RowsInfo::feed over all rows: keys must be strictly increasing.         *)
RowsValid(rows) == \A i \in 2..Len(rows) : rows[i - 1].key < rows[i].key

maxOffset(rows) == Max({rows[i].offset : i \in DOMAIN rows} \cup {0})

readCarItem(car, row) == row.offset \in DOMAIN car /\ car[row.offset] = row.key

---------------------------------------------------------------------------
(* Merging sorted ranges of rows, each read from its file piece by piece.  *)
FileRange(file, begin, end) ==
    [file |-> file, rows |-> <<>>, current |-> 1, begin |-> begin, end |-> end]
MemoryRange(rows) ==
    [file |-> <<>>, rows |-> rows, current |-> 1, begin |-> 0, end |-> 0]

rangeEmpty(range) == range.current > Len(range.rows) /\ range.begin >= range.end
rangeFront(range) == range.rows[range.current]

rangeRead(range, buffer) ==
    IF range.current <= Len(range.rows) THEN range
    ELSE LET n == Smaller(buffer, range.end - range.begin)
         IN  [range EXCEPT !.rows = SubSeq(range.file, range.begin, range.begin + n - 1),
                           !.begin = @ + n, !.current = 1]

rangePop(range) == [range EXCEPT !.current = @ + 1]

RECURSIVE mergeRanges(_)
mergeRanges(ranges) ==
    IF ranges = <<>> THEN <<>>
    ELSE LET least == CHOOSE i \in DOMAIN ranges : \A j \in DOMAIN ranges :
                          ~RowLess(rangeFront(ranges[j]), rangeFront(ranges[i]))
             popped == rangePop(ranges[least])
         IN  <<rangeFront(ranges[least])>> \o
             mergeRanges(IF rangeEmpty(popped) THEN RemoveAt(ranges, least)
                         ELSE [ranges EXCEPT ![least] =
                                   rangeRead(popped, Len(popped.rows))])

merge(ranges) ==
    LET some == SelectSeq(ranges, LAMBDA range : ~rangeEmpty(range))
    IN  mergeRanges([i \in DOMAIN some |-> rangeRead(some[i], CiBuffer)])

---------------------------------------------------------------------------
(* Reading the items of car after the first `from`: the rows go to a file  *)
(* in sorted pieces, one range each, and a torn item ends the reading.     *)
RECURSIVE carRows(_, _)
carRows(car, offset) ==
    IF offset > Len(car) \/ car[offset] = Torn THEN <<>>
    ELSE (IF car[offset] > 0 THEN <<Row(car[offset], offset)>> ELSE <<>>)
             \o carRows(car, offset + 1)

RECURSIVE rowPieces(_)
rowPieces(rows) ==
    IF Len(rows) < CiRowsCapacity THEN <<SortSeq(rows, RowLess)>>
    ELSE <<SortSeq(SubSeq(rows, 1, CiRowsCapacity), RowLess)>>
             \o rowPieces(SubSeq(rows, CiRowsCapacity + 1, Len(rows)))

readCar(car, from) ==
    LET pieces == rowPieces(carRows(car, from + 1))
        file   == FlattenSeq(pieces)
        upTo(n) == Len(FlattenSeq(SubSeq(pieces, 1, n)))
    IN  [file |-> file,
         ranges |-> [n \in DOMAIN pieces |->
                        FileRange(file, 1 + upTo(n - 1), 1 + upTo(n))]]

---------------------------------------------------------------------------
(* An index in memory holds all rows; a sparse one holds some of the keys  *)
(* and searches the part of the file between two of them.                  *)
lowerBound(keys, key) == Min({i \in DOMAIN keys : keys[i] >= key} \cup {Len(keys) + 1})

KeysOf(rows) == [i \in DOMAIN rows |-> rows[i].key]

memoryFind(rows, key) ==
    LET i == lowerBound(KeysOf(rows), key)
    IN  IF i <= Len(rows) /\ rows[i].key = key THEN rows[i] ELSE NoRow

SparseRange(total, max) ==
    IF total <= 1 THEN [total |-> total, buckets |-> total, size |-> total, split |-> 0]
    ELSE LET buckets == Smaller(Larger(max, 2), total)
         IN  [total |-> total, buckets |-> buckets,
              size |-> (total - 1) \div (buckets - 1),
              split |-> (total - 1) % (buckets - 1)]

fromSparse(range, bucket) ==
    IF bucket = range.buckets - 1 THEN range.total - 1
    ELSE bucket * range.size + Smaller(bucket, range.split)

sparseKeys(rows, range) ==
    [b \in 1..range.buckets |-> rows[1 + fromSparse(range, b - 1)].key]

sparseFind(index, key) ==
    LET at == lowerBound(index.keys, key)
    IN  IF index.keys = <<>> \/ key < index.keys[1] \/ at > Len(index.keys) THEN NoRow
        ELSE LET hit   == index.keys[at] = key
                 last  == fromSparse(index.range, at - 1)
                 begin == IF hit THEN last ELSE fromSparse(index.range, at - 2) + 1
                 end   == IF hit THEN last ELSE last - 1
                 found == {i \in begin..end : index.rows[1 + i].key = key}
             IN  IF found = {} THEN NoRow ELSE index.rows[1 + Min(found)]

sparseSize(count) ==
    IF count * RowBytes > CiMaxMemory THEN {CiMaxMemory \div KeyBytes} ELSE {}

(* load: NoIndex when the rows are not a valid index.                      *)
load(rows) ==
    LET sparse == sparseSize(Len(rows))
        range  == SparseRange(Len(rows), Max(sparse))
    IN  IF ~RowsValid(rows) THEN NoIndex
        ELSE IF sparse = {} THEN [kind |-> "memory", rows |-> rows]
        ELSE [kind |-> "sparse", rows |-> rows, range |-> range,
              keys |-> sparseKeys(rows, range)]

indexFind(index, key) ==
    IF index.kind = "memory" THEN memoryFind(index.rows, key) ELSE sparseFind(index, key)

---------------------------------------------------------------------------
(* loadOrCreateWithProgress: a disk is the car and the rows of the index   *)
(* file, <<>> when there is none.  An index that does not fit the car is   *)
(* dropped, what lies behind the indexed part is indexed, a torn end is cut. *)
cutTorn(car, end) ==
    IF end < Len(car) /\ car[end + 1] = Torn THEN SubSeq(car, 1, end) ELSE car

fits(car, rows) ==
    \A i \in DOMAIN rows : rows[i].offset = maxOffset(rows) => readCarItem(car, rows[i])

generate(car, rows, end) ==
    LET read   == readCar(car, end)
        known  == IF rows = <<>> THEN <<>> ELSE <<FileRange(rows, 1, 1 + Len(rows))>>
        ranges == known \o read.ranges
    IN  IF Len(ranges) = 1 THEN read.file ELSE merge(ranges)

fitting(car, index) == IF fits(car, index.rows) THEN index ELSE NoIndex

openWith(car, rows, made) ==
    [car |-> IF made = NoIndex THEN car ELSE cutTorn(car, maxOffset(rows)), rows |-> rows, index |-> made]
openNew(car, rows) == openWith(car, rows, load(rows))
openOld(disk, index) ==
    LET end == maxOffset(index.rows)
        car == IF index = NoIndex THEN disk.car ELSE cutTorn(disk.car, end)
    IN  IF index # NoIndex /\ end = Len(car)
          THEN [car |-> car, rows |-> disk.rows, index |-> index]
        ELSE openNew(car, generate(car, index.rows, end))

open(disk) == openOld(disk, fitting(disk.car, load(disk.rows)))

-----------------------------------------------------------------------------
(* The block store of the node (storage/ipld/cids_ipld): blocks are appended *)
(* to a car through a queue, the rows of new blocks are kept in memory until *)
(* a task of another thread merges them into the index file.  Each lock the  *)
(* code takes is one step, so that a call's steps interleave with those of *)
(* the flush; a crash loses what only memory held.                         *)

CONSTANTS CiKeys, CiCallers,
          CiCar,          \* the car the node is started with
          CiFlushOn, CiCarFlushOn,
          CiMaxCalls, CiMaxStarts

ASSUME CidsIpldAssumption ==
    /\ CiKeys \subseteq Nat \ {0}
    /\ CiFlushOn \in Nat /\ CiCarFlushOn \in Nat

VARIABLES ciDisk,    \* [car, rows]: the two files
          ciMem,     \* the open CidsIpld
          ciFlush,   \* the task that runs doFlush
          ciCall,    \* for each caller, the call it is in
          ciCount    \* [calls, starts]
ciVars == <<ciDisk, ciMem, ciFlush, ciCall, ciCount>>

NoMem == [state |-> "closed", index |-> NoIndex, written |-> {}, queue |-> <<>>,
          car_offset |-> 0, flushing |-> FALSE]
NoFlush == [at |-> "none", rows |-> <<>>, max_offset |-> 0, index |-> NoIndex]
CiIdle == [at |-> "idle", op |-> "none", key |-> 0, row |-> NoRow, result |-> "none"]

CiInit ==
    /\ ciDisk = [car |-> CiCar, rows |-> <<>>]
    /\ ciMem = NoMem
    /\ ciFlush = NoFlush
    /\ ciCall = [c \in CiCallers |-> CiIdle]
    /\ ciCount = [calls |-> 0, starts |-> 0]

---------------------------------------------------------------------------
findWritten(mem, key) ==
    LET rows == {row \in mem.written : row.key = key}
    IN  IF rows = {} THEN NoRow
        ELSE CHOOSE row \in rows : \A other \in rows : ~RowLess(other, row)

(* carFlush: the queued items are written behind the car and forgotten.    *)
carFlush(disk, mem) ==
    [disk |-> [disk EXCEPT !.car = @ \o mem.queue], mem |-> [mem EXCEPT !.queue = <<>>]]

carPut(disk, mem, key) ==
    LET queued == [mem EXCEPT !.queue = Append(@, key)]
    IN  IF Len(queued.queue) >= CiCarFlushOn THEN carFlush(disk, queued)
        ELSE [disk |-> disk, mem |-> queued]

carGet(disk, mem, row) ==
    LET at == row.offset - Len(disk.car)
    IN  IF at \in DOMAIN mem.queue THEN mem.queue[at] ELSE Torn

(* asyncFlush posts doFlush unless one is flushing; without an io object   *)
(* the caller would run it itself, which no interleaving needs.            *)
asyncFlush(mem, flush) ==
    IF mem.flushing THEN [mem |-> mem, flush |-> flush]
    ELSE [mem |-> [mem EXCEPT !.flushing = TRUE], flush |-> [flush EXCEPT !.at = "posted"]]

(* put under written_mutex, after `has` did not find the key.              *)
putWritten(disk, mem, flush, key) ==
    LET put    == carPut(disk, mem, key)
        stored == [put.mem EXCEPT !.written = @ \union {Row(key, mem.car_offset + 1)},
                                  !.car_offset = @ + 1]
        posted == IF CiFlushOn # 0 /\ Cardinality(stored.written) >= CiFlushOn
                  THEN asyncFlush(stored, flush)
                  ELSE [mem |-> stored, flush |-> flush]
    IN  IF findWritten(mem, key) # NoRow
        THEN [disk |-> disk, mem |-> mem, flush |-> flush]
        ELSE [disk |-> put.disk, mem |-> posted.mem, flush |-> posted.flush]

---------------------------------------------------------------------------
(* Calls.  `get` looks in the index, in the rows written since, in the queue *)
(* and in the car; `put` begins as a `has` does.                           *)
CiReturn(c, result) == [ciCall EXCEPT ![c] = [@ EXCEPT !.at = "idle", !.result = result]]
Goto(c, at, row) == [ciCall EXCEPT ![c] = [@ EXCEPT !.at = at, !.row = row]]

CiCall(c, op, key) ==
    /\ ciMem.state = "open"
    /\ ciCall[c].at = "idle"
    /\ ciCount.calls < CiMaxCalls
    /\ ciCall' = [ciCall EXCEPT ![c] =
           [at |-> "index", op |-> op, key |-> key, row |-> NoRow, result |-> "none"]]
    /\ ciCount' = [ciCount EXCEPT !.calls = @ + 1]
    /\ UNCHANGED <<ciDisk, ciMem, ciFlush>>

Found(c, row) ==
    IF ciCall[c].op = "put" THEN CiReturn(c, "present") ELSE Goto(c, "queue", row)

LookInIndex(c) ==
    /\ ciCall[c].at = "index"
    /\ LET row == indexFind(ciMem.index, ciCall[c].key)
       IN  ciCall' = IF row = NoRow THEN Goto(c, "written", NoRow) ELSE Found(c, row)
    /\ UNCHANGED <<ciDisk, ciMem, ciFlush, ciCount>>

LookInWritten(c) ==
    /\ ciCall[c].at = "written"
    /\ LET row == findWritten(ciMem, ciCall[c].key)
       IN  ciCall' = IF row # NoRow THEN Found(c, row)
                     ELSE IF ciCall[c].op = "put" THEN Goto(c, "put", NoRow)
                     ELSE CiReturn(c, "missing")
    /\ UNCHANGED <<ciDisk, ciMem, ciFlush, ciCount>>

Put(c) ==
    /\ ciCall[c].at = "put"
    /\ LET put == putWritten(ciDisk, ciMem, ciFlush, ciCall[c].key)
       IN  ciDisk' = put.disk /\ ciMem' = put.mem /\ ciFlush' = put.flush
    /\ ciCall' = CiReturn(c, "stored")
    /\ UNCHANGED ciCount

ReadQueue(c) ==
    /\ ciCall[c].at = "queue"
    /\ LET value == carGet(ciDisk, ciMem, ciCall[c].row)
       IN  ciCall' = IF value = Torn THEN Goto(c, "file", ciCall[c].row)
                     ELSE CiReturn(c, IF value = ciCall[c].key THEN "value" ELSE "wrong")
    /\ UNCHANGED <<ciDisk, ciMem, ciFlush, ciCount>>

ReadFile(c) ==
    /\ ciCall[c].at = "file"
    /\ ciCall' = CiReturn(c, IF readCarItem(ciDisk.car, ciCall[c].row) THEN "value"
                           ELSE "inconsistent")
    /\ UNCHANGED <<ciDisk, ciMem, ciFlush, ciCount>>

CarFlush ==
    /\ ciMem.state = "open" /\ ciMem.queue # <<>>
    /\ LET flushed == carFlush(ciDisk, ciMem)
       IN  ciDisk' = flushed.disk /\ ciMem' = flushed.mem
    /\ UNCHANGED <<ciFlush, ciCall, ciCount>>

---------------------------------------------------------------------------
(* doFlush, one step for each section it does under a lock.                *)
sorted(rows) == SetToSortSeq(rows, RowLess)

FlushSnapshot ==
    /\ ciFlush.at = "posted"
    /\ ciFlush' = [ciFlush EXCEPT !.at = "merge", !.rows = sorted(ciMem.written),
                                  !.max_offset = maxOffset(sorted(ciMem.written))]
    /\ UNCHANGED <<ciDisk, ciMem, ciCall, ciCount>>

(* An index that does not load is an early return: `flushing` stays set.   *)
mergeFlushed(disk, flush) ==
    LET rows  == merge(<<FileRange(disk.rows, 1, 1 + Len(disk.rows)),
                         MemoryRange(flush.rows)>>)
        index == load(rows)
    IN  IF index = NoIndex THEN NoFlush ELSE [flush EXCEPT !.at = "swap", !.index = index]

FlushMerge ==
    /\ ciFlush.at = "merge"
    /\ ciFlush' = mergeFlushed(ciDisk, ciFlush)
    /\ UNCHANGED <<ciDisk, ciMem, ciCall, ciCount>>

FlushSwap ==
    /\ ciFlush.at = "swap"
    /\ ciDisk' = [ciDisk EXCEPT !.rows = ciFlush.index.rows]
    /\ ciMem' = [ciMem EXCEPT !.index = ciFlush.index]
    /\ ciFlush' = [ciFlush EXCEPT !.at = "erase"]
    /\ UNCHANGED <<ciCall, ciCount>>

eraseFlushedAll(mem, flush) == [mem EXCEPT !.written = {}]
eraseFlushed(mem, flush) ==
    [mem EXCEPT !.written = {row \in @ : row.offset > flush.max_offset}]

FlushErase ==
    /\ ciFlush.at = "erase"
    /\ ciMem' = [eraseFlushed(ciMem, ciFlush) EXCEPT !.flushing = FALSE]
    /\ ciFlush' = NoFlush
    /\ UNCHANGED <<ciDisk, ciCall, ciCount>>

---------------------------------------------------------------------------
CiOpen ==
    /\ ciMem.state = "closed"
    /\ ciCount.starts < CiMaxStarts
    /\ \E opened \in {open(ciDisk)} :
           /\ ciDisk' = [car |-> opened.car, rows |-> opened.rows]
           /\ ciMem' = [NoMem EXCEPT
                  !.state = IF opened.index = NoIndex THEN "failed" ELSE "open",
                  !.index = opened.index, !.car_offset = Len(opened.car)]
    /\ ciCount' = [ciCount EXCEPT !.starts = @ + 1]
    /\ UNCHANGED <<ciFlush, ciCall>>

(* The process may end while the queue is being written: a part of it, and *)
(* perhaps a part of one more item, has reached the file.                  *)
CiCrash ==
    /\ ciMem.state = "open"
    /\ \E n \in 0..Len(ciMem.queue), torn \in BOOLEAN :
          /\ torn => n < Len(ciMem.queue)
          /\ ciDisk' = [ciDisk EXCEPT !.car = @ \o SubSeq(ciMem.queue, 1, n) \o
                            (IF torn THEN <<Torn>> ELSE <<>>)]
    /\ ciMem' = NoMem
    /\ ciFlush' = NoFlush
    /\ ciCall' = [c \in CiCallers |-> CiIdle]
    /\ UNCHANGED ciCount

CiNext ==
    \/ \E c \in CiCallers :
         \/ \E op \in {"get", "put"}, key \in CiKeys : CiCall(c, op, key)
         \/ LookInIndex(c) \/ LookInWritten(c) \/ Put(c) \/ ReadQueue(c) \/ ReadFile(c)
    \/ CarFlush \/ FlushSnapshot \/ FlushMerge \/ FlushSwap \/ FlushErase
    \/ CiOpen \/ CiCrash

CiSpec == CiInit /\ [][CiNext]_ciVars

---------------------------------------------------------------------------
CiTypeOK ==
    /\ ciMem.state \in {"closed", "open", "failed"}
    /\ ciMem.written \subseteq [key : CiKeys, offset : Nat]
    /\ Range(ciMem.queue) \subseteq CiKeys
    /\ \A c \in CiCallers : ciCall[c].at \in {"idle", "index", "written", "put", "queue", "file"}
    /\ ciFlush.at \in {"none", "posted", "merge", "swap", "erase"}

Items == ciDisk.car \o ciMem.queue
Duplicated == \E i, j \in DOMAIN Items : i < j /\ Items[i] = Items[j] /\ Items[i] > 0
RowsHeld == Range(ciMem.index.rows) \union ciMem.written

\* Blocks stay reachable and reads are consistent, whatever the flushing thread
\* does meanwhile and wherever the process was cut off: while the store is open
\* every block of the car and of the queue has a row, every row leads to the block
\* of its key (CidsIpld::get never raises "inconsistent" nor returns another
\* block), the sparse index answers as the rows do, and only a block stored twice
\* stops the flushing (doFlush returns before flushing.clear()) or makes
\* loadOrCreateWithProgress fail after a crash.
StoreIsIndexed ==
    /\ ciMem.state = "open" =>
         /\ \A row \in RowsHeld : row.offset \in DOMAIN Items /\ Items[row.offset] = row.key
         /\ \A i \in DOMAIN Items : Items[i] > 0 => Row(Items[i], i) \in RowsHeld
         /\ ciMem.car_offset = Len(Items)
         /\ \A key \in CiKeys : indexFind(ciMem.index, key) =
               (IF \E row \in Range(ciMem.index.rows) : row.key = key
                THEN CHOOSE row \in Range(ciMem.index.rows) : row.key = key ELSE NoRow)
         /\ ciMem.flushing /\ ciFlush.at = "none" => Duplicated
    /\ ciMem.state = "failed" => Duplicated
    /\ \A c \in CiCallers : ciCall[c].result \notin {"wrong", "inconsistent"}

\* A block is inserted only once (CidsIpld::put, which looks for the key first).
InsertedOnce == ~Duplicated

-----------------------------------------------------------------------------
(* The compacter (storage/compacter): while the node goes on storing blocks, *)
(* a thread copies the headers of the chain, the recent states and messages  *)
(* from the old archive to a new one and then puts the new one in its place.  *)
(* A block is a pair of a kind and a tipset: its header, messages, receipts,  *)
(* the root of the state it computes and, in CoLinks, what a state refers to. *)
(* An archive is the set of blocks in its file and the queue not yet there.   *)

CONSTANTS CoTipsets, CoGenesis, CoParent, CoHeight,
          CoStartHead,       \* the head when the node is first started
          CoLinks,           \* what the blocks of states refer to
          CoKind,            \* the kind of actor a state's child is the head of
          CoFull, CoLookback, CoMessages,   \* epochs_*
          CoBatch,           \* kTsBatch
          CoCarFlushOn,
          CoEarly,           \* tipsets that may arrive before the new archive is used
          CoFinishTears,     \* whether the process may end between the renames
          CoMaxStarts, CoMaxCrashes

ASSUME CompacterAssumption ==
    /\ CoGenesis \in CoTipsets /\ CoStartHead \in CoTipsets
    /\ CoFull \in Nat /\ CoLookback \in Nat /\ CoMessages \in Nat
    /\ CoBatch \in Nat \ {0} /\ CoFinishTears \in BOOLEAN

VARIABLES coOld, coNew,   \* archives
          coUseNew,
          coKv,           \* [start, top]: keys in the key-value store, 0 for none
          coQueue,        \* CompacterQueue: the stack and its file
          coThread,       \* the compacting thread
          coNode,         \* [head, known, results, up]
          coCount         \* [starts, crashes]
coVars == <<coOld, coNew, coUseNew, coKv, coQueue, coThread, coNode, coCount>>

Header(t) == <<"header", t>>
Messages(t) == <<"messages", t>>
Receipts(t) == <<"receipts", t>>
State(t) == <<"state", t>>
ParentOf(t) == IF t = CoGenesis THEN 0 ELSE CoParent[t]
ParentState(t) == State(ParentOf(t))
ParentReceipts(t) == Receipts(ParentOf(t))
Links(b) == GetOr(CoLinks, b, {})

Reach[b \in DOMAIN CoLinks] ==
    {b} \union UNION {IF c \in DOMAIN CoLinks THEN Reach[c] ELSE {c} : c \in CoLinks[b]}
Closure(bs) == UNION {IF b \in DOMAIN CoLinks THEN Reach[b] ELSE {b} : b \in bs}

Chain[t \in CoTipsets] == IF t = CoGenesis THEN <<t>> ELSE Append(Chain[CoParent[t]], t)

---------------------------------------------------------------------------
(* Archives.                                                               *)
NoArchive == [file |-> {}, queue |-> <<>>]
Blocks(a) == a.file \union Range(a.queue)
archiveFlush(a) == [file |-> Blocks(a), queue |-> <<>>]
archivePut(a, b) ==
    IF b \in Blocks(a) THEN a
    ELSE LET queued == [a EXCEPT !.queue = Append(@, b)]
         IN  IF Len(queued.queue) >= CoCarFlushOn THEN archiveFlush(queued) ELSE queued
archivePutAll(a, bs) == FoldSet(LAMBDA b, acc : archivePut(acc, b), a, bs)

(* copy: from old to new.                                                  *)
copy(old, new, b) == IF b \in Blocks(old) THEN archivePut(new, b) ELSE new
copyAll(old, new, bs) == FoldSet(LAMBDA b, a : copy(old, a, b), new, bs)

---------------------------------------------------------------------------
(* CompacterQueue.  The file is never shortened by pop; opening it again   *)
(* drops what the new archive has by then.                                 *)
NoQueue == [stack |-> <<>>, file |-> <<>>]

queueOpen(queue, visited) ==
    LET left == SelectSeq(queue.file, LAMBDA b : b \notin visited)
    IN  [stack |-> left, file |-> left]

queuePush(queue, visited, b) ==
    IF b \in visited THEN queue
    ELSE [stack |-> Append(queue.stack, b), file |-> Append(queue.file, b)]

queuePushAll(queue, visited, bs) ==
    FoldSet(LAMBDA b, q : queuePush(q, visited, b), queue, bs)

pushChildren(queue, visited, b) == queuePushAll(queue, visited, Links(b))

(* pop drops what has been visited since: the rest, after the key it took. *)
queuePop(queue, visited) ==
    LET unvisited == SelectLastInSeq(queue.stack, LAMBDA b : b \notin visited)
    IN  [key  |-> IF unvisited = 0 THEN {} ELSE {queue.stack[unvisited]},
         rest |-> [queue EXCEPT !.stack = SubSeq(@, 1, Larger(unvisited, 1) - 1)]]

---------------------------------------------------------------------------
(* CompacterIpld as the node uses it.  put of many blocks, children first. *)
found(b) == b \in Blocks(coOld) \/ (coUseNew /\ b \in Blocks(coNew))

ipldPut(w, b) ==
    IF w.useNew
    THEN [w EXCEPT !.queue = pushChildren(@, Blocks(w.new), b), !.new = archivePut(@, b)]
    ELSE [w EXCEPT !.old = archivePut(@, b)]

putBlockHeader(w, b) ==
    IF w.useNew THEN [w EXCEPT !.new = archivePut(@, b)] ELSE [w EXCEPT !.old = archivePut(@, b)]

Ipld == [old |-> coOld, new |-> coNew, useNew |-> coUseNew, queue |-> coQueue]
IpldIs(w) == coOld' = w.old /\ coNew' = w.new /\ coQueue' = w.queue /\ UNCHANGED coUseNew

Locked(lock) == lock \in coThread.locks

(* A block arrives: its header and messages are stored.                    *)
Receive(t) ==
    /\ coNode.up /\ t \notin coNode.known /\ CoParent[t] \in coNode.known
    /\ t \in CoEarly \/ coUseNew
    /\ IpldIs(ipldPut(putBlockHeader(Ipld, Header(t)), Messages(t)))
    /\ coNode' = [coNode EXCEPT !.known = @ \union {t}]
    /\ UNCHANGED <<coKv, coThread, coCount>>

(* CompacterInterpreter::interpret holds the interpreter's lock.           *)
interpret(w, t) ==
    LET fresh == Closure({State(t)}) \ Closure({ParentState(t)})
        RECURSIVE inOrder(_)
        inOrder(bs) == IF bs = {} THEN <<>>
                       ELSE LET leaf == CHOOSE b \in bs : Links(b) \cap bs = {}
                            IN  <<leaf>> \o inOrder(bs \ {leaf})
    IN  FoldLeft(ipldPut, w, Append(inOrder(fresh), Receipts(t)))

CoInterpret(t) ==
    /\ coNode.up /\ ~Locked("vm")
    /\ t \in coNode.known \ coNode.results /\ CoParent[t] \in coNode.results
    /\ \A b \in Closure({ParentState(t)}) : found(b)
    /\ IpldIs(interpret(Ipld, t))
    /\ coNode' = [coNode EXCEPT !.results = @ \union {t}]
    /\ UNCHANGED <<coKv, coThread, coCount>>

CoMoveHead(t) ==
    /\ coNode.up /\ ~Locked("ts")
    /\ t \in coNode.results /\ t # coNode.head /\ CoHeight[t] >= CoHeight[coNode.head]
    /\ coNode' = [coNode EXCEPT !.head = t]
    /\ UNCHANGED <<coOld, coNew, coUseNew, coKv, coQueue, coThread, coCount>>

---------------------------------------------------------------------------
(* The compacting thread.                                                  *)
NoThread == [at |-> "idle", locks |-> {}, top |-> 0, bottom |-> 0,
             headersDone |-> FALSE, head |-> 0]

(* asyncStart: the flag is set and doStart posted.                         *)
AsyncStart ==
    /\ coNode.up /\ coThread.at = "idle" /\ coCount.starts < CoMaxStarts
    /\ coThread' = [NoThread EXCEPT !.at = "start"]
    /\ coCount' = [coCount EXCEPT !.starts = @ + 1]
    /\ UNCHANGED <<coOld, coNew, coUseNew, coKv, coQueue, coNode>>

(* doStart, up to the keys that make a restarted node resume ...           *)
DoStart ==
    /\ coThread.at = "start" /\ coNode.up
    /\ coNew' = copy(coOld, NoArchive, Header(CoGenesis))
    /\ coQueue' = queuePushAll(NoQueue, {}, {ParentState(CoGenesis), ParentState(coNode.head)})
    /\ coThread' = [coThread EXCEPT !.at = "keys", !.locks = {"vm"}, !.top = CoGenesis,
                                    !.bottom = coNode.head]
    /\ UNCHANGED <<coOld, coUseNew, coKv, coNode, coCount>>

StartKeys ==
    /\ coThread.at = "keys"
    /\ coKv' = [start |-> coThread.bottom, top |-> coThread.top]
    /\ coThread' = [coThread EXCEPT !.at = "switch"]
    /\ UNCHANGED <<coOld, coNew, coUseNew, coQueue, coNode, coCount>>

(* ... and from there: blocks are stored in the new archive from now on.   *)
StartSwitch ==
    /\ coThread.at = "switch"
    /\ coOld' = archiveFlush(coOld)
    /\ coUseNew' = TRUE
    /\ coThread' = [coThread EXCEPT !.at = "headers", !.locks = {}]
    /\ UNCHANGED <<coNew, coKv, coQueue, coNode, coCount>>

(* headersBatch: back from a reverted top to the chain, then up a batch.   *)
RECURSIVE onChain(_, _)
onChain(top, chain) == IF top \in Range(chain) THEN top ELSE onChain(CoParent[top], chain)

headersBatch(top, head) ==
    LET chain == Chain[head]
        from  == CHOOSE i \in DOMAIN chain : chain[i] = onChain(top, chain)
    IN  SubSeq(chain, from, Smaller(from + CoBatch, Len(chain)))

FlowHeaders ==
    /\ coThread.at = "headers"
    /\ LET batch == headersBatch(coThread.top, coNode.head)
           moves == coThread.top # coNode.head
           top   == IF moves THEN batch[Len(batch)] ELSE coThread.top
       IN  /\ coNew' = IF moves THEN copyAll(coOld, coNew, {Header(batch[i]) : i \in 2..Len(batch)})
                       ELSE coNew
           /\ coKv' = IF moves THEN [coKv EXCEPT !.top = top] ELSE coKv
           /\ coThread' = [coThread EXCEPT !.at = "queue", !.top = top,
                                           !.headersDone = (top = coNode.head)]
    /\ UNCHANGED <<coOld, coUseNew, coQueue, coNode, coCount>>

(* queueLoop, one block a step, in flow and twice in finish.               *)
AfterQueue == ("queue" :> "state") @@ ("finishQueue" :> "missing") @@ ("missingQueue" :> "clear")

QueueLoop ==
    /\ coThread.at \in DOMAIN AfterQueue
    /\ LET popped == queuePop(coQueue, Blocks(coNew))
           taken  == {b \in popped.key : b \in Blocks(coOld)}
       IN  /\ coQueue' = queuePushAll(popped.rest, Blocks(coNew), UNION {Links(b) : b \in taken})
           /\ coNew' = archivePutAll(coNew, taken)
           /\ coThread' = IF popped.key # {} THEN coThread
                          ELSE [coThread EXCEPT !.at = AfterQueue[@]]
    /\ UNCHANGED <<coOld, coUseNew, coKv, coNode, coCount>>

(* lookbackActors: of an older state only the actors that are looked up    *)
(* later are kept, some of them whole.                                     *)
lookbackActor(head) ==
    CASE CoKind[head] = "account" -> [copy |-> {head}, recurse |-> {}]
      [] CoKind[head] = "init" -> [copy |-> {}, recurse |-> {head}]
      [] CoKind[head] \in {"power", "miner"} -> [copy |-> {head}, recurse |-> Links(head)]
      [] OTHER -> [copy |-> {}, recurse |-> {}]

lookbackState(root, old, visited) ==
    LET heads == {head \in Links(root) : head \notin visited}
    IN  IF root \notin Blocks(old) THEN [copy |-> {}, recurse |-> {}]
        ELSE [copy    |-> {root} \union UNION {lookbackActor(head).copy : head \in heads},
              recurse |-> UNION {lookbackActor(head).recurse : head \in heads}]

(* What keeping a state does to the queue and to the new archive.          *)
keepState(w, root, whole) ==
    LET kept == lookbackState(root, coOld, Blocks(w.new))
    IN  IF whole THEN [w EXCEPT !.queue = queuePush(@, Blocks(w.new), root)]
        ELSE [queue |-> queuePushAll(w.queue, Blocks(w.new), kept.recurse),
              new   |-> copyAll(coOld, w.new, kept.copy)]

Lookback == Larger(CoLookback, CoFull)

FlowState ==
    /\ coThread.at = "state"
    /\ LET bottom  == coThread.bottom
           atEnd   == bottom = 0 \/ bottom = CoGenesis
           epochs  == IF atEnd THEN 0 ELSE CoHeight[coNode.head] - CoHeight[bottom]
           beyond  == epochs < 0 \/ epochs > Lookback
           down    == IF atEnd THEN 0 ELSE CoParent[bottom]
           lost    == down = CoGenesis \/ ParentState(down) \notin Blocks(coOld)
           done    == atEnd \/ beyond \/ lost
           kept    == keepState([queue |-> coQueue, new |-> coNew], ParentState(down),
                                epochs <= CoFull)
       IN  /\ coQueue' = IF done THEN coQueue ELSE kept.queue
           /\ coNew' = IF done THEN coNew ELSE kept.new
           /\ coThread' = [coThread EXCEPT
                  !.at = IF coThread.headersDone /\ done THEN "finish" ELSE "headers",
                  !.bottom = IF atEnd \/ beyond THEN @ ELSE IF lost THEN 0 ELSE down]
    /\ UNCHANGED <<coOld, coUseNew, coKv, coNode, coCount>>

---------------------------------------------------------------------------
(* finish, with both locks until it returns.                               *)
RECURSIVE recentFrom(_, _)
recentFrom(t, n) == IF n = 0 THEN {}
                    ELSE {t} \union (IF t = CoGenesis THEN {} ELSE recentFrom(CoParent[t], n - 1))

Branches == coNode.known \ Range(Chain[coNode.head])

finishPushes ==
    LET recent   == recentFrom(coNode.head, CoMessages)
        attached == {t \in Branches \cap coNode.results : CoHeight[t] >= CoHeight[coNode.head]}
    IN  {Messages(t) : t \in recent \union Branches}
        \union ({ParentReceipts(t) : t \in recent} \cap Blocks(coOld))
        \union {State(t) : t \in attached \union {coNode.head}}
        \union {Receipts(t) : t \in attached \union {coNode.head}}

Finish ==
    /\ coThread.at = "finish"
    /\ coNew' = archivePutAll(coNew, {Header(t) : t \in Branches})
    /\ coQueue' = queuePushAll(coQueue, Blocks(coNew), finishPushes)
    /\ coThread' = [coThread EXCEPT !.at = "finishQueue", !.locks = {"vm", "ts"},
                                    !.head = coNode.head]
    /\ UNCHANGED <<coOld, coUseNew, coKv, coNode, coCount>>

copyMissing(w, t) ==
    LET epochs == CoHeight[coThread.head] - CoHeight[t]
    IN  IF t = CoGenesis \/ epochs > Lookback \/ ParentState(t) \in Blocks(w.new) THEN w
        ELSE keepState(w, ParentState(t), epochs <= CoFull)

FinishMissing ==
    /\ coThread.at = "missing"
    /\ LET kept == FoldLeft(copyMissing, [queue |-> coQueue, new |-> coNew],
                            Reverse(Chain[coThread.head]))
       IN  coQueue' = kept.queue /\ coNew' = kept.new
    /\ coThread' = [coThread EXCEPT !.at = "missingQueue"]
    /\ UNCHANGED <<coOld, coUseNew, coKv, coNode, coCount>>

(* The queue is cleared, the archives are flushed and the files renamed;   *)
(* what the old archive's path holds is coOld, the new one's coNew.        *)
FinishClear ==
    /\ coThread.at = "clear"
    /\ coQueue' = NoQueue
    /\ coNew' = archiveFlush(coNew)
    /\ coThread' = [coThread EXCEPT !.at = "rename"]
    /\ UNCHANGED <<coOld, coUseNew, coKv, coNode, coCount>>

FinishRename ==
    /\ coThread.at = "rename"
    /\ coOld' = archiveFlush(coNew)
    /\ coNew' = NoArchive
    /\ coUseNew' = FALSE
    /\ coThread' = [coThread EXCEPT !.at = "done"]
    /\ UNCHANGED <<coKv, coQueue, coNode, coCount>>

FinishDone ==
    /\ coThread.at = "done"
    /\ coKv' = [coKv EXCEPT !.start = 0]
    /\ coThread' = NoThread
    /\ UNCHANGED <<coOld, coNew, coUseNew, coQueue, coNode, coCount>>

---------------------------------------------------------------------------
CoCrash ==
    /\ coNode.up /\ coCount.crashes < CoMaxCrashes
    /\ coThread.at = "done" => CoFinishTears
    /\ coOld' = [coOld EXCEPT !.queue = <<>>]
    /\ coNew' = [coNew EXCEPT !.queue = <<>>]
    /\ coUseNew' = FALSE
    /\ coQueue' = [coQueue EXCEPT !.stack = <<>>]
    /\ coThread' = NoThread
    /\ coNode' = [coNode EXCEPT !.up = FALSE]
    /\ coCount' = [coCount EXCEPT !.crashes = @ + 1]
    /\ UNCHANGED coKv

(* open, and resume when a start is on record.                             *)
resumed(kv) == [NoThread EXCEPT !.at = "headers", !.top = kv.top, !.bottom = kv.start]

CoOpen ==
    /\ ~coNode.up
    /\ coUseNew' = (coKv.start # 0)
    /\ coThread' = IF coKv.start # 0 THEN resumed(coKv) ELSE NoThread
    /\ coQueue' = IF coKv.start # 0 THEN queueOpen(coQueue, Blocks(coNew)) ELSE coQueue
    /\ coNode' = [coNode EXCEPT !.up = TRUE]
    /\ UNCHANGED <<coOld, coNew, coKv, coCount>>

CoStored(ts) == {Header(t) : t \in ts} \union {Messages(t) : t \in ts}
              \union {Receipts(t) : t \in ts} \union Closure({State(t) : t \in ts \union {0}})

CoInit ==
    LET chain == Range(Chain[CoStartHead])
    IN  /\ coOld = [file |-> CoStored(chain), queue |-> <<>>]
        /\ coNew = NoArchive
        /\ coUseNew = FALSE
        /\ coKv = [start |-> 0, top |-> 0]
        /\ coQueue = NoQueue
        /\ coThread = NoThread
        /\ coNode = [head |-> CoStartHead, known |-> chain, results |-> chain, up |-> TRUE]
        /\ coCount = [starts |-> 0, crashes |-> 0]

CoNext ==
    \/ \E t \in CoTipsets : Receive(t) \/ CoInterpret(t) \/ CoMoveHead(t)
    \/ AsyncStart \/ DoStart \/ StartKeys \/ StartSwitch
    \/ FlowHeaders \/ QueueLoop \/ FlowState
    \/ Finish \/ FinishMissing \/ FinishClear \/ FinishRename \/ FinishDone
    \/ CoCrash \/ CoOpen

CoSpec == CoInit /\ [][CoNext]_coVars

---------------------------------------------------------------------------
CoTypeOK ==
    /\ coUseNew \in BOOLEAN
    /\ coNode.head \in coNode.results /\ coNode.results \subseteq coNode.known
    /\ coThread.locks \subseteq {"vm", "ts"}
    /\ coKv.start \in CoTipsets \union {0} /\ coKv.top \in CoTipsets \union {0}

(* What the node reads of the chain it follows.                            *)
Needed ==
    LET head   == coNode.head
        within(n) == {t \in Range(Chain[head]) : t # CoGenesis /\ CoHeight[head] - CoHeight[t] <= n}
    IN  {Header(t) : t \in Range(Chain[head])}
        \union Closure({ParentState(CoGenesis), State(head), Receipts(head)})
        \union Closure({ParentState(t) : t \in within(CoFull)})
        \union {ParentState(t) : t \in within(Lookback)}
        \union {b \in UNION {Links(ParentState(t)) : t \in within(Lookback)} :
                  CoKind[b] \in {"account", "init", "power", "miner"}}
        \union {Messages(t) : t \in recentFrom(head, CoMessages)}

\* Compaction loses nothing the node needs: at every moment - before, while the
\* thread copies and blocks keep arriving, after the new archive took the old one's
\* place, and after a restart in between - every header of the chain, every whole
\* state of the last epochs_full_state epochs, the kept actors of the lookback, the
\* last messages and the head's result are found (CompacterIpld::get).
NeededIsKept == coNode.up => \A b \in Needed : found(b)
=============================================================================
