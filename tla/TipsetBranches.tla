--------------------------- MODULE TipsetBranches ---------------------------
(***************************************************************************)
(* The forest of tipset branches, what feeds the chain synchronization,    *)
(* and how the chain is kept: the files of the main chain and the cache of *)
(* loaded tipsets.                                                         *)
(***************************************************************************)
EXTENDS ActorBase, FiniteSets, TLC

(* The forest of tipset branches (primitives/tipset/chain.cpp).  A branch is a
   map from heights to tipsets; the lowest entry of an attached branch is also
   an entry of its parent, which lists it among its children under the height
   of that entry.  The branch Main holds the chain of the node; a file keeps
   all of it, and its lower part is read back only when it is needed.  The
   operators take a forest F and return a new one: [chain, parent, kids, pkey]
   are functions from branches, file is the chain in the file, holds are the
   branches something outside the forest points to, fault says an assertion
   failed or an iterator was used past the end. *)

CONSTANTS
    BrTipsets,      \* the tipsets, naturals from 1
    BrHeight,       \* their heights
    BrParent,       \* their parents; the genesis is its own
    BrBranches,     \* the addresses a branch can have, naturals from 1
    BrMinLoad       \* Lazy::min_load

Main == 1
NoBranch == 0
NoTipsetKey == 0

low(F, b) == Min(DOMAIN F.chain[b])
high(F, b) == Max(DOMAIN F.chain[b])
Top(F, b) == F.chain[b][high(F, b)]
HasAt(F, b, h, t) == h \in DOMAIN F.chain[b] /\ F.chain[b][h] = t
From(f, S) == Restrict(f, DOMAIN f \cap S)
Heights(lo, hi) == lo .. hi
One(t) == BrHeight[t] :> t

(* A child is a weak pointer: it is gone once no branch it is the parent of,
   and nothing outside the forest, holds it. *)
RECURSIVE Holding(_, _)
Holding(F, B) == LET more == {F.parent[b] : b \in B} \ (B \cup {NoBranch})
                 IN  IF more = {} THEN B ELSE Holding(F, B \cup more)
Alive(F) == Holding(F, F.holds)
Kids(F, b) == {k \in F.kids[b] : k[2] \in Alive(F)}

BranchForest(c) ==
    [chain |-> [b \in BrBranches |-> IF b = Main THEN c ELSE Empty],
     parent |-> [b \in BrBranches |-> NoBranch], kids |-> [b \in BrBranches |-> {}],
     pkey |-> [b \in BrBranches |-> NoTipsetKey],
     file |-> c, holds |-> {Main}, fault |-> FALSE]

Faulty(F, bad) == [F EXCEPT !.fault = @ \/ bad]

(* The lowest height read from the file: at least BrMinLoad tipsets, counted
   from the top of the file, and no higher than the height asked for. *)
loadFrom(F, h) ==
    LET lower == {g \in DOMAIN F.file : g <= h
                   /\ Cardinality({x \in DOMAIN F.file : x >= g}) >= BrMinLoad}
    IN  IF lower = {} THEN Min(DOMAIN F.file) ELSE Max(lower)

lazyLoad(F, b, h) ==
    IF b # Main \/ h >= low(F, b) \/ h < Min(DOMAIN F.file) THEN F
    ELSE [F EXCEPT !.chain[b] = From(F.file, Heights(loadFrom(F, h), low(F, b) - 1)) @@ @]

(* A new TsBranch, at a free address: pointers to what was there stay expired. *)
Fresh(F) == Min(BrBranches \ Alive(F))
NewBranch(F, b, c) ==
    [F EXCEPT !.chain[b] = c, !.parent[b] = NoBranch, !.pkey[b] = NoTipsetKey, !.holds = @ \cup {b},
              !.kids = [x \in BrBranches |-> IF x = b THEN {} ELSE {k \in @[x] : k[2] # b}]]

attachTo(F0, p, c) ==
    LET h == low(F0, c)
        F == lazyLoad(F0, p, h)
        above == {x \in DOMAIN F.chain[c] : x > h}
        sound == /\ HasAt(F, p, h, F.chain[c][h])
                 /\ above = {} \/ ~ HasAt(F, p, Min(above), F.chain[c][Min(above)])
    IN  Faulty([F EXCEPT !.parent[c] = p, !.kids[p] = @ \cup {<<h, c>>}, !.pkey[c] = NoTipsetKey],
               ~ sound)

(* TsBranch::make of a chain: the parent itself when there is nothing above it. *)
make(F, c, p) ==
    IF p # NoBranch /\ Cardinality(DOMAIN c) = 1 THEN [f |-> F, branch |-> p]
    ELSE LET b == Fresh(F)
             F1 == NewBranch(F, b, c)
         IN  [f |-> IF p = NoBranch THEN F1 ELSE attachTo(F1, p, b), branch |-> b]

(* TsBranch::make of a key: the ancestors down to the first one in Main.   *)
RECURSIVE connect(_, _, _)
connect(F0, t, c) ==
    LET F == lazyLoad(F0, Main, BrHeight[t])
        more == c @@ One(t)
    IN  IF HasAt(F, Main, BrHeight[t], t) THEN make(F, more, Main)
        ELSE IF BrHeight[t] < low(F, Main) \/ BrParent[t] = t
        THEN [f |-> Faulty(F, TRUE), branch |-> NoBranch]
        ELSE connect(F, BrParent[t], more)

makeOfKey(F, t) == IF Top(F, Main) = t THEN [f |-> F, branch |-> Main]
                   ELSE connect(F, t, Empty)

(* Mutant: the path takes the whole of the parents' branches.              *)
RECURSIVE pathWhole(_, _, _, _)
pathWhole(F, b, h, apply) ==
    IF b = Main THEN [error |-> FALSE, apply |-> apply,
                      revert |-> From(F.chain[Main], Heights(h, high(F, Main)))]
    ELSE IF F.parent[b] = NoBranch THEN [error |-> TRUE, apply |-> apply, revert |-> Empty]
    ELSE pathWhole(F, F.parent[b], low(F, b), apply @@ F.chain[b])

(* The tipsets to revert from the top of Main and to apply after them, both
   including the tipset where the two chains meet. *)
RECURSIVE pathUp(_, _, _, _)
pathUp(F, b, h, apply) ==
    IF b = Main THEN [error |-> FALSE, apply |-> apply,
                      revert |-> From(F.chain[Main], Heights(h, high(F, Main)))]
    ELSE IF F.parent[b] = NoBranch THEN [error |-> TRUE, apply |-> apply, revert |-> Empty]
    ELSE pathUp(F, F.parent[b], low(F, b), apply @@ From(F.chain[b], Heights(low(F, b), h - 1)))

findPath(F, b, h) == pathUp(F, b, h, One(F.chain[b][h]))

(* The part of a child, from its bottom up, that Main now holds as well.   *)
shared(F, c, h) ==
    LET C == F.chain[c]  M == F.chain[Main]
    IN  {g \in DOMAIN C : \A x \in Heights(h, g) :
            /\ x \in DOMAIN C <=> x \in DOMAIN M
            /\ x \in DOMAIN C => C[x] = M[x]}

absorb(F, c, h) ==
    LET common == shared(F, c, h)
        top == Max(common)
        moved == {k \in F.kids[c] : k[1] \in common}
        queued == {k \in moved : k[2] \in Alive(F)}
    IN  IF common = {} THEN [f |-> Faulty(F, TRUE), queue |-> {}, removed |-> {}]
        ELSE [f |-> [F EXCEPT !.chain[c] = From(@, Heights(top, high(F, c))),
                              !.kids = [@ EXCEPT ![c] = @ \ moved, ![Main] = @ \cup {<<top, c>>}],
                              !.parent = [b \in BrBranches |->
                                           IF \E k \in queued : k[2] = b THEN Main ELSE @[b]]],
              queue |-> queued,
              removed |-> IF high(F, c) = top THEN {c} ELSE {}]

RECURSIVE absorbAll(_, _, _)
absorbAll(F, queue, removed) ==
    IF queue = {} THEN [f |-> F, removed |-> removed]
    ELSE LET k == CHOOSE x \in queue : TRUE
             a == absorb(F, k[2], k[1])
         IN  absorbAll(a.f, (queue \ {k}) \cup a.queue, removed \cup a.removed)

absorbChildren(F, h) ==
    LET kids == {k \in F.kids[Main] : k[1] = h}
    IN  absorbAll([F EXCEPT !.kids[Main] = @ \ kids], kids \cap Kids(F, Main), {})

(* Mutant: the children of the reverted part are left as they are.         *)
extendKidsNever(F, h) == F

(* Children of the part that is reverted get what they lose with it.  Their
   entry among the children keeps its height. *)
extendKids(F, h) ==
    LET above == {k \in F.kids[Main] : k[1] > h}
        kept == above \cap Kids(F, Main)
        old == F.chain[Main]
        gets(c) == UNION {Heights(h, IF k[1] \in DOMAIN old THEN k[1] - 1 ELSE high(F, Main))
                            : k \in {x \in kept : x[2] = c}}
    IN  [F EXCEPT !.chain = [b \in BrBranches |-> @[b] @@ From(old, gets(b))],
                  !.kids[Main] = (@ \ above) \cup kept]

updateMain(F0, path) ==
    LET h == Min(DOMAIN path.revert)
        F == Faulty(F0, h \notin DOMAIN path.apply \/ path.apply[h] # path.revert[h])
        F1 == extendKids(F, h)
        new == From(path.apply, Heights(h + 1, Max(DOMAIN path.apply)))
        F2 == [F1 EXCEPT !.chain[Main] = From(@, Heights(low(F, Main), h)) @@ new,
                         !.file = From(@, Heights(0, h)) @@ new]
    IN  absorbChildren(F2, h)

(* The branch, and the height in it, where a set of branches holds a tipset.
   The set is ordered by address. *)
RECURSIVE climb(_, _, _)
climb(F, b, h) == IF F.parent[b] # NoBranch /\ h = low(F, b)
                  THEN climb(lazyLoad(F, F.parent[b], h), F.parent[b], h)
                  ELSE [f |-> Faulty(F, h \notin DOMAIN F.chain[b]), branch |-> b]

findTipset(F0, B, t) ==
    LET F == IF Main \in B THEN lazyLoad(F0, Main, BrHeight[t]) ELSE F0
        in == {b \in B : HasAt(F, b, BrHeight[t], t)}
    IN  IF in = {} THEN [f |-> F, branch |-> NoBranch] ELSE climb(F, Min(in), BrHeight[t])

(* A tipset joins the branches: it becomes the bottom of those that wait for it
   as their parent, and these are attached to the branch that holds it. *)
joinChild(acc, c, t) ==
    LET F == [acc.f EXCEPT !.chain[c] = @ @@ One(t)]
    IN  IF acc.branch # NoBranch
        THEN [acc EXCEPT !.f = attachTo(F, acc.branch, c), !.children = Append(@, c)]
        ELSE [acc EXCEPT !.f = [F EXCEPT !.pkey[c] = BrParent[t]], !.branch = c,
                         !.children = Append(@, c)]

placed(joined, new, B, t) ==
    IF joined.branch # NoBranch
    THEN [f |-> joined.f, branch |-> joined.branch, children |-> joined.children, branches |-> B]
    ELSE [f |-> [new.f EXCEPT !.pkey[new.branch] = BrParent[t]], branch |-> new.branch,
          children |-> <<>>, branches |-> B \cup {new.branch}]

insertTipset(F0, B, t) ==
    LET found == findTipset(F0, B, t)
        waiting == Ascending({b \in B : found.f.pkey[b] = t})
        joined == FoldLeft(LAMBDA acc, c : joinChild(acc, c, t),
                           [f |-> found.f, branch |-> found.branch, children |-> <<>>], waiting)
    IN  placed(joined, make(joined.f, One(t), NoBranch), B, t)

(* The tipset at a height of the chain that ends with a branch, the one below a
   null round when less is allowed and the one above it otherwise. *)
RECURSIVE findHeight(_, _, _, _)
findHeight(F, b, h, less) ==
    IF h > high(F, b) THEN [error |-> TRUE, f |-> F, branch |-> b, at |-> h]
    ELSE LET bottom == IF b = Main THEN Min(DOMAIN F.file) ELSE low(F, b)
             F1 == lazyLoad(F, b, h)
             upper == Min({x \in DOMAIN F1.chain[b] : x >= h})
         IN  IF bottom > h
             THEN IF F.parent[b] = NoBranch THEN [error |-> TRUE, f |-> F, branch |-> b, at |-> h]
                  ELSE findHeight(F, F.parent[b], h, less)
             ELSE [error |-> FALSE, f |-> F1, branch |-> b,
                   at |-> IF upper > h /\ less
                          THEN Max({x \in DOMAIN F1.chain[b] : x < upper}) ELSE upper]

RECURSIVE stepParent(_, _, _)
stepParent(F0, b, h) ==
    LET F == lazyLoad(F0, b, h - 1)
    IN  IF h > low(F, b)
        THEN [error |-> FALSE, f |-> F, branch |-> b,
              at |-> Max({x \in DOMAIN F.chain[b] : x < h})]
        ELSE IF F.parent[b] = NoBranch THEN [error |-> TRUE, f |-> F, branch |-> b, at |-> h]
        ELSE stepParent(F, F.parent[b], h)

-----------------------------------------------------------------------------
(* What feeds the chain synchronization: the heads that gossip, hellos and the
   API announce (node/head_constructor.cpp), the heights of the peers
   (node/peer_height.hpp) and the fetching of messages (node/fetch_msg.hpp).
   The node is a record n; every operator returns the node afterwards.  Fields
   used here: cur, minw, cand (HeadConstructor), peers (PeerHeight), mq,
   fetching, busy (FetchMsg), local and meta (the headers and the message lists
   in the store, by block), tasks (handlers posted to the io context). *)

CONSTANTS
    SyBlocks,       \* block headers
    SyBlocksOf,     \* the blocks of each tipset
    SyMiner,        \* the miner of each block
    SyWeight,       \* the weight of each tipset once interpreted
    SyPeers,        \* peers, naturals from 1
    SyQueueMax,     \* kQueueMax
    SyFetchingMax   \* kFetchingMax

NoPeer == 0
HasTipset(B) == \E t \in BrTipsets : SyBlocksOf[t] = B
TipsetOf(B) == CHOOSE t \in BrTipsets : SyBlocksOf[t] = B
OfBlock(x) == TipsetOf({x})
ParentWeight(t) == SyWeight[BrParent[t]]
post(n, task) == [n EXCEPT !.tasks = Append(@, task)]

onHeight(n, p, h) ==
    IF h <= 0 THEN n
    ELSE [n EXCEPT !.peers = With(@, p, Larger(h, GetOr(@, p, h)))]
onPeerError(n, p) == [n EXCEPT !.peers = Without(@, p)]

signalPossibleHead(n, p, t) ==
    post(IF p = NoPeer THEN n ELSE onHeight(n, p, BrHeight[t]),
         [kind |-> "head", peer |-> p, ts |-> t])

canExpandCandidate(B, x) == \A y \in B : SyMiner[y] # SyMiner[x]

tryAppendBlock(n, p, x) ==
    LET t == OfBlock(x)
        h == BrHeight[t]
        cand == IF h > n.cur THEN Empty ELSE n.cand
        B == GetOr(cand, BrParent[t], {})
        n1 == [n EXCEPT !.cur = Larger(@, h), !.cand = With(cand, BrParent[t], B)]
    IN  IF h < n.cur THEN n
        ELSE IF ~ canExpandCandidate(B, x) THEN n1
        ELSE signalPossibleHead([n1 EXCEPT !.cand = With(@, BrParent[t], B \cup {x})],
                                p, TipsetOf(B \cup {x}))

tipsetFromHello(n, p, t) ==
    IF BrHeight[t] < n.cur \/ SyWeight[t] <= n.minw THEN n ELSE signalPossibleHead(n, p, t)

onCurrentHead(n, w) == [n EXCEPT !.minw = Larger(@, w)]

(* FetchMsg.  The queue is ordered by height, priority requests before all. *)
Queued(k, l) == k[1] < l[1] \/ (k[1] = l[1] /\ k[2] < l[2])
First(Q) == CHOOSE k \in Q : \A l \in Q \ {k} : Queued(k, l)
Final(Q) == CHOOSE k \in Q : \A l \in Q \ {k} : Queued(l, k)

(* The peer that gets the next request: the highest that is high enough, and
   that no request was made to. *)
visit(n, h) ==
    LET able == {p \in DOMAIN n.peers : n.peers[p] >= h /\ p \notin n.busy}
    IN  IF able = {} THEN NoPeer
        ELSE CHOOSE p \in able : \A q \in able : n.peers[q] < n.peers[p] \/
                                   (n.peers[q] = n.peers[p] /\ q >= p)

(* emplace keeps the request that already fetches the tipset: the new one is
   destroyed, and never calls back. *)
dequeue(n) ==
    LET k == First(n.mq)
        p == visit(n, k[1])
    IN  IF n.mq = {} \/ Cardinality(DOMAIN n.fetching) >= SyFetchingMax THEN n
        ELSE IF p = NoPeer THEN n
        ELSE [n EXCEPT !.mq = @ \ {k}, !.busy = @ \cup {p}, !.fetching = @ @@ (k[2] :> p)]

hasMessages(n, t) == SyBlocksOf[t] \subseteq n.meta

requestMessages(n, t, priority) ==
    LET full == Cardinality(n.mq) >= SyQueueMax
        Q == IF full THEN n.mq \ {Final(n.mq)} ELSE n.mq
    IN  IF hasMessages(n, t) THEN n
        ELSE dequeue([n EXCEPT !.mq = Q \cup {<<IF priority THEN -1 ELSE BrHeight[t], t>>}])

(* FetchMsg::onFetch, up to the call of on_fetch. *)
onFetch(n, t, got) ==
    LET p == n.fetching[t]
        n1 == [n EXCEPT !.fetching = Without(@, t), !.busy = @ \ {p}, !.meta = @ \cup got]
    IN  dequeue(IF got = SyBlocksOf[t] THEN n1 ELSE onPeerError(n1, p))

-----------------------------------------------------------------------------
(* The files that keep the node's chain (primitives/tipset/file.cpp).  One file
   has the block hashes of the tipsets in the order they were applied, the other
   how many of them each height has, zero for a null round, or that the last
   tipset was reverted.  Both are only appended to; a start reads them, recovers
   from an interrupted write, and writes them anew when they hold reverts.  Both
   begin with a seed, the same in both when they were written together.  A
   process that dies leaves of each file what its stream had written out. *)

CONSTANTS
    CfGenesis,
    CfHeads,            \* the heads the node can have
    CfKeys,             \* the block hashes of each tipset
    CfUpdateWhen,       \* update_when
    CfRenamesTear,      \* whether the process can die between the two renames
    CfMaxMoves, CfMaxStarts

ASSUME ChainFileAssumption ==
    CfGenesis \in BrTipsets /\ BrHeight[CfGenesis] = 0 /\ CfHeads \subseteq BrTipsets

kRevert == -1
CfUnread == "unread"

(* hash and count are the files, chain the key that memory has at each height
   of the chain, head its last tipset, up whether the process runs. *)
VARIABLES cf, cfMoves, cfStarts
cfVars == <<cf, cfMoves, cfStarts>>

RECURSIVE PathTo(_)
PathTo(t) == IF t = CfGenesis THEN <<t>> ELSE Append(PathTo(BrParent[t]), t)
Zeros(n) == [i \in 1 .. n |-> 0]
HashesOf(path) == FoldLeft(LAMBDA s, t : s \o CfKeys[t], <<>>, path)

(* The counts of a path of tipsets that follows a height. *)
CountsAfter(h, path) ==
    FoldLeft(LAMBDA acc, t : [h |-> BrHeight[t],
                              s |-> acc.s \o Zeros(BrHeight[t] - acc.h - 1) \o <<Len(CfKeys[t])>>],
             [h |-> h, s |-> <<>>], path).s

-----------------------------------------------------------------------------
(* Updater: what moving from one tipset to another appends to the files.   *)
Common(s, t) == LET P == Range(PathTo(s)) \cap Range(PathTo(t))
                IN  CHOOSE x \in P : \A y \in P : BrHeight[y] <= BrHeight[x]
Above(x, t) == SelectSeq(PathTo(t), LAMBDA y : BrHeight[y] > BrHeight[x])

(* Mutant: null rounds are not written. *)
applyTipsetsNoNulls(h, path) == [i \in DOMAIN path |-> Len(CfKeys[path[i]])]

applyTipsets(h, path) == CountsAfter(h, path)

Appended(n, s, t) ==
    LET x == Common(s, t)
        reverts == [i \in DOMAIN Above(x, s) |-> kRevert]
    IN  [n EXCEPT !.hash.items = @ \o HashesOf(Above(x, t)),
                  !.count.items = @ \o reverts \o applyTipsets(BrHeight[x], Above(x, t))]

-----------------------------------------------------------------------------
(* loadFiles.  The fold keeps what is compacted so far (counts, hashes), how many
   hashes were read, and whether it failed or met a count without its hashes. *)
RECURSIVE DropZeros(_)
DropZeros(s) == IF s # <<>> /\ Last(s) = 0 THEN DropZeros(Front(s)) ELSE s
CfDrop(s, n) == SubSeq(s, 1, Len(s) - n)

loadRevert(a) ==
    LET counts == DropZeros(Front(a.counts))
    IN  IF a.counts = <<>> \/ DropZeros(CfDrop(a.counts, 1)) = <<>> THEN [a EXCEPT !.fail = TRUE]
        ELSE [a EXCEPT !.counts = counts, !.hashes = CfDrop(@, Last(a.counts))]

loadCount(a, c, hashes) ==
    IF a.counts = <<>> /\ c = 0 THEN [a EXCEPT !.fail = TRUE]
    ELSE IF c > Len(hashes) - a.read
    THEN IF a.counts = <<>> THEN [a EXCEPT !.fail = TRUE] ELSE [a EXCEPT !.short = TRUE]
    ELSE [a EXCEPT !.counts = Append(@, c), !.read = @ + c,
                   !.hashes = @ \o SubSeq(hashes, a.read + 1, a.read + c)]

replay(hashes, counts) ==
    FoldLeft(LAMBDA a, c : IF a.fail \/ a.short THEN a
                           ELSE IF c = kRevert THEN loadRevert(a) ELSE loadCount(a, c, hashes),
             [counts |-> <<>>, hashes |-> <<>>, read |-> 0, fail |-> FALSE, short |-> FALSE],
             counts)

(* The files and the vectors after loadFiles; junk is what a failed loadFiles leaves in
   the vector of hashes. *)
loadFiles(n) ==
    LET torn == n.hash.seed # n.count.seed
        a == replay(n.hash.items, n.count.items)
        counts == DropZeros(a.counts)
        reverted == Len(a.counts) # Len(n.count.items)
        new == Larger(n.hash.seed, n.count.seed) + 1
    IN  IF n.hash.items = <<>> \/ n.count.items = <<>>
        THEN [ok |-> FALSE, n |-> n, hashes |-> <<>>, counts |-> <<>>]
        ELSE IF torn
        THEN [ok |-> FALSE, n |-> n, hashes |-> [i \in DOMAIN n.hash.items |-> CfUnread], counts |-> <<>>]
        ELSE IF a.fail THEN [ok |-> FALSE, n |-> n, hashes |-> n.hash.items, counts |-> <<>>]
        ELSE [ok |-> TRUE, hashes |-> a.hashes, counts |-> counts,
              n |-> IF reverted THEN [n EXCEPT !.hash = [seed |-> new, items |-> a.hashes],
                                               !.count = [seed |-> new, items |-> counts]]
                    ELSE [n EXCEPT !.count.items = counts, !.hash.items = a.hashes]]

(* What a process that dies within loadFiles can leave. *)
loadTorn(n) ==
    LET l == loadFiles(n)
        a == replay(n.hash.items, n.count.items)
        resized == [n EXCEPT !.count.items = SubSeq(@, 1, Len(a.counts))]
    IN  {n, l.n} \cup (IF l.ok /\ a.short THEN {resized} ELSE {})
          \cup (IF CfRenamesTear THEN {[n EXCEPT !.hash = l.n.hash]} ELSE {})

(* The chain that memory gets of the hashes, counted from their end.       *)
chainOf(hashes, counts) ==
    LET above(i) == FoldLeft(LAMBDA s, c : s + c, 0, SubSeq(counts, i + 1, Len(counts)))
        present == {i \in DOMAIN counts : counts[i] # 0}
        key(i) == LET end == Len(hashes) - above(i) IN SubSeq(hashes, end - counts[i] + 1, end)
    IN  [h \in {i - 1 : i \in present} |-> key(h + 1)]

(* A loadFiles that failed is followed by a walk down from the head; its hashes are
   added to what the loadFiles left in the vector, below in the reversed order. *)
create(l, head) ==
    LET path == PathTo(head)
        hashes == HashesOf(path) \o Reverse(l.hashes)
        counts == CountsAfter(-1, path)
        new == Larger(l.n.hash.seed, l.n.count.seed) + 1
    IN  [ok |-> TRUE, hashes |-> hashes, counts |-> counts,
         n |-> [l.n EXCEPT !.hash = [seed |-> new, items |-> hashes],
                           !.count = [seed |-> new, items |-> counts]]]

ChainTo(t) == [h \in {BrHeight[x] : x \in Range(PathTo(t))} |->
                 CfKeys[CHOOSE x \in Range(PathTo(t)) : BrHeight[x] = h]]
IsChain(c) == \E t \in BrTipsets : c = ChainTo(t)
HeadOf(c) == IF IsChain(c) THEN CHOOSE t \in BrTipsets : c = ChainTo(t) ELSE NoTipsetKey

(* The chain is brought to the head it was asked for when it is far behind. *)
caughtUp(n, head) ==
    IF CfUpdateWhen = 0 \/ n.head = NoTipsetKey THEN n
    ELSE IF BrHeight[head] < BrHeight[n.head] + CfUpdateWhen THEN n
    ELSE [Appended(n, n.head, head) EXCEPT !.chain = ChainTo(head), !.head = head]
inMemory(n, c) == [n EXCEPT !.chain = c, !.head = HeadOf(c), !.up = TRUE]
loaded(r) == inMemory(r.n, chainOf(r.hashes, r.counts))
loadOrCreate(n, head) ==
    LET l == loadFiles(n) IN caughtUp(loaded(IF l.ok THEN l ELSE create(l, head)), head)
-----------------------------------------------------------------------------
CfInit ==
    /\ cf = [hash |-> [seed |-> 0, items |-> <<>>], count |-> [seed |-> 0, items |-> <<>>],
             chain |-> Empty, head |-> NoTipsetKey, up |-> FALSE]
    /\ cfMoves = 0 /\ cfStarts = 0

(* update moves the chain to another tipset and flushes the files.         *)
CfMoveHead(t) ==
    /\ cf.up /\ cf.head \notin {t, NoTipsetKey} /\ cfMoves < CfMaxMoves
    /\ cf' = [Appended(cf, cf.head, t) EXCEPT !.chain = ChainTo(t), !.head = t]
    /\ cfMoves' = cfMoves + 1 /\ UNCHANGED cfStarts

Stopped(n) == [n EXCEPT !.up = FALSE, !.chain = Empty, !.head = NoTipsetKey]

(* The process dies while it moves the chain: each file has got some part. *)
DieMoving(t) ==
    /\ cf.up /\ cf.head \notin {t, NoTipsetKey} /\ cfMoves < CfMaxMoves
    /\ LET n == Appended(cf, cf.head, t)
       IN  \E i \in Len(cf.hash.items) .. Len(n.hash.items),
              j \in Len(cf.count.items) .. Len(n.count.items) :
             cf' = Stopped([n EXCEPT !.hash.items = SubSeq(@, 1, i), !.count.items = SubSeq(@, 1, j)])
    /\ cfMoves' = cfMoves + 1 /\ UNCHANGED cfStarts

Stop == cf.up /\ cf' = Stopped(cf) /\ UNCHANGED <<cfMoves, cfStarts>>

Start(head) ==
    /\ ~ cf.up /\ cfStarts < CfMaxStarts
    /\ cf' = loadOrCreate(cf, head)
    /\ cfStarts' = cfStarts + 1 /\ UNCHANGED cfMoves

DieStarting ==
    /\ ~ cf.up /\ cfStarts < CfMaxStarts
    /\ cf' \in loadTorn(cf)
    /\ cfStarts' = cfStarts + 1 /\ UNCHANGED cfMoves

CfNext == Stop \/ DieStarting \/ \E t \in CfHeads : CfMoveHead(t) \/ DieMoving(t) \/ Start(t)

CfSpec == CfInit /\ [][CfNext]_cfVars
-----------------------------------------------------------------------------
CfTypeOK ==
    /\ cf.head \in BrTipsets \cup {NoTipsetKey} /\ cf.up \in BOOLEAN
    /\ \A i \in DOMAIN cf.count.items : cf.count.items[i] >= kRevert

(* Wherever the process died, the chain of the next start is a chain of parents
   down to the genesis, and the files hold just that chain: reading them again
   gives it back. *)
FilesHoldChain ==
    cf.up => /\ IsChain(cf.chain)
             /\ LET l == loadFiles(cf) IN l.ok /\ chainOf(l.hashes, l.counts) = cf.chain

-----------------------------------------------------------------------------
(* The cache of loaded tipsets (primitives/tipset/load.cpp): a vector whose
   entries are linked, the one used last first, and a map from keys to places in
   the vector.  The first entry is its own prev, the last its own next.  The
   mutex is held for one lookup or insertion; a tipset that is not found is
   loaded without it, so several threads may load the same one.  A lazy pointer
   remembers a place, which may be another tipset's by the time it is used. *)

CONSTANTS TcKeys, TcCapacity, TcLoads
ASSUME TcAssumption == TcCapacity \in Nat \ {0}

(* Indices start at 0, as in the vector: nodes is a function on 0 .. n - 1. *)
VARIABLES tc, tcLoading, tcLazy, tcUsed
tcVars == <<tc, tcLoading, tcLazy, tcUsed>>

size(c) == Cardinality(DOMAIN c.nodes)

TcInit ==
    /\ tc = [nodes |-> Empty, map |-> Empty, begin |-> 0, end |-> 0]
    /\ tcLoading = [k \in TcKeys |-> 0]
    /\ tcLazy = [k \in TcKeys |-> 0] /\ tcUsed = <<>>

(* An entry becomes the first. *)
toFront(c, i) ==
    [c EXCEPT !.nodes = [@ EXCEPT ![c.begin].prev = i, ![i].prev = i, ![i].next = c.begin],
              !.begin = i]

(* Mutant: the last entry is taken out like one in the middle.             *)
getFromCacheNoEnd(c, i) ==
    LET ts == c.nodes[i]
    IN  IF i = c.begin THEN c
        ELSE toFront([c EXCEPT !.nodes = [@ EXCEPT ![ts.next].prev = ts.prev,
                                                   ![ts.prev].next = ts.next]], i)

getFromCache(c, i) ==
    LET ts == c.nodes[i]
    IN  IF i = c.begin THEN c
        ELSE IF i = c.end
        THEN toFront([c EXCEPT !.nodes[ts.prev].next = ts.prev, !.end = ts.prev], i)
        ELSE toFront([c EXCEPT !.nodes = [@ EXCEPT ![ts.next].prev = ts.prev,
                                                   ![ts.prev].next = ts.next]], i)

(* Mutant: the vector grows by one entry more than its capacity.           *)
cacheInsertOver(c, k) ==
    LET n == size(c)
    IN  IF k \in DOMAIN c.map THEN [c |-> c, index |-> 0]
        ELSE [c |-> [c EXCEPT !.nodes = With(IF n = 0 THEN @ ELSE [@ EXCEPT ![c.begin].prev = n], n,
                                             [prev |-> n, next |-> c.begin, key |-> k]),
                              !.map = With(@, k, n), !.begin = n], index |-> n]

cacheInsert(c, k) ==
    LET n == size(c)
        last == c.nodes[c.end]
        grown == [c EXCEPT !.nodes = With(IF n = 0 THEN @ ELSE [@ EXCEPT ![c.begin].prev = n], n,
                                          [prev |-> n, next |-> c.begin, key |-> k]),
                           !.map = With(@, k, n), !.begin = n]
        freed == [c EXCEPT !.map = With(Without(@, last.key), k, c.end),
                           !.nodes[last.prev].next = last.prev, !.end = last.prev]
    IN  IF k \in DOMAIN c.map THEN [c |-> c, index |-> 0]
        ELSE IF n < TcCapacity THEN [c |-> grown, index |-> n]
        ELSE [c |-> [toFront(freed, c.end) EXCEPT !.nodes[c.end].key = k], index |-> c.end]

Use(k) == tcUsed' = <<k>> \o SelectSeq(tcUsed, LAMBDA x : x # k)
UseNew(k) ==
    tcUsed' = LET s == <<k>> \o tcUsed
              IN  IF k \in Range(tcUsed) THEN tcUsed ELSE SubSeq(s, 1, Smaller(Len(s), TcCapacity))
-----------------------------------------------------------------------------
(* loadWithCacheInfo, found; the pointer gets the index. *)
Hit(k) ==
    /\ k \in DOMAIN tc.map
    /\ tc' = getFromCache(tc, tc.map[k]) /\ tcLazy' = [tcLazy EXCEPT ![k] = tc.map[k]]
    /\ Use(k) /\ UNCHANGED tcLoading

Miss(k) ==
    /\ k \notin DOMAIN tc.map /\ tcLoading[k] < TcLoads
    /\ tcLoading' = [tcLoading EXCEPT ![k] = @ + 1] /\ UNCHANGED <<tc, tcLazy, tcUsed>>

(* The load is done, or fails, and its tipset is inserted.                 *)
Loaded(k, ok) ==
    /\ tcLoading[k] > 0 /\ tcLoading' = [tcLoading EXCEPT ![k] = @ - 1]
    /\ IF ok THEN /\ tc' = cacheInsert(tc, k).c /\ UseNew(k)
                  /\ tcLazy' = [tcLazy EXCEPT ![k] = cacheInsert(tc, k).index]
       ELSE UNCHANGED <<tc, tcLazy, tcUsed>>

(* lazyLoad, when the remembered place still has the tipset.               *)
LazyHit(k) ==
    /\ tcLazy[k] < size(tc) /\ tc.nodes[tcLazy[k]].key = k
    /\ tc' = getFromCache(tc, tcLazy[k]) /\ Use(k) /\ UNCHANGED <<tcLoading, tcLazy>>

TcNext == \E k \in TcKeys : Hit(k) \/ Miss(k) \/ LazyHit(k) \/ \E ok \in BOOLEAN : Loaded(k, ok)

TcSpec == TcInit /\ [][TcNext]_tcVars
-----------------------------------------------------------------------------
TcTypeOK == size(tc) <= TcCapacity /\ DOMAIN tc.nodes = 0 .. size(tc) - 1 /\ tcLoading \in [TcKeys -> 0 .. TcLoads]

RECURSIVE Listed(_, _, _)
Listed(c, i, n) == IF n = 0 THEN <<>> ELSE <<c.nodes[i].key>> \o Listed(c, c.nodes[i].next, n - 1)

(* Following the links from the first entry visits every cached tipset once, in
   the order of last use, and ends at the entry that is to be replaced next; the
   map finds exactly these. *)
CacheIsList ==
    /\ Listed(tc, tc.begin, size(tc)) = tcUsed
    /\ tcUsed # <<>> => tc.nodes[tc.end].key = Last(tcUsed) /\ tc.nodes[tc.begin].prev = tc.begin
    /\ DOMAIN tc.map = Range(tcUsed)
    /\ \A k \in DOMAIN tc.map : tc.nodes[tc.map[k]].key = k
    /\ \A i \in DOMAIN tc.nodes \ {tc.begin} : tc.nodes[tc.nodes[i].prev].next = i
=============================================================================
