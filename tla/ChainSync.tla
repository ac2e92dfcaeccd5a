----------------------------- MODULE ChainSync ------------------------------
(* The synchronization of a node with its peers: the sync job, and the request
   protocols it uses (block sync, then hello and peer discovery). *)
EXTENDS TipsetBranches, ActorBase, FiniteSets

(* The chain synchronization (node/sync_job.cpp) and the chain store it moves
   (node/chain_store_impl.cpp).  All handlers run on the one thread of the io
   context, in the order they were posted; a tipset is interpreted on a second
   thread, and its result comes back as a posted handler.  Further fields of
   the node: f the forest, brs and att the branches known and those attached to
   Main, hb and hw the heaviest attached branch and its weight, its the tipset
   to interpret next, job the one the thread works on, cache the interpreter's,
   head and weight the chain store's, reqs the queued requests and req the one
   in flight, mirror what a subscriber of the head changes holds for the head. *)

CONSTANTS
    SyGenesis,
    SyStarts,       \* heads of the chain that the node may start with
    SyLazyLimit,    \* lazy_limit: tipsets of it that are loaded at the start
    SyBadTipsets,   \* interpreting these fails
    SyLiars,        \* these state another parent state than the one computed
    SyDepth,        \* tipsets a block request brings
    SyCompactAt,    \* kBranchCompactTreshold
    SyMaxEvents,    \* announcements from outside in a behaviour
    SyMaxGossip     \* of which those from peers, which come first

ASSUME SyncAssumption ==
    /\ SyGenesis \in BrTipsets /\ SyStarts \subseteq BrTipsets /\ SyLazyLimit > 0 /\ SyBlocksOf[SyGenesis] # {}
    /\ \A t \in BrTipsets : BrParent[t] \in BrTipsets

VARIABLES sy, syEvents
syVars == <<sy, syEvents>>

NoJob == [ts |-> NoTipsetKey]
NoRequest == [ts |-> NoTipsetKey]

(* The shared pointers to branches: the sets, the heaviest one and the branch a
   running interpretation was given. *)
Hold(n) == [n EXCEPT !.f.holds = n.brs \cup n.att \cup ({n.hb} \ {NoBranch})
                       \cup (IF n.job = NoJob THEN {} ELSE {n.job.branch} \ {NoBranch})]

(* The node starts with the chain of its file, of which only the last tipsets
   are loaded (lazy_limit); its tipsets were interpreted. *)
SyInit ==
    /\ \E s \in SyStarts :
        LET c == FoldLeft(LAMBDA m, t : m @@ One(t), Empty, PathTo(s))
            known == UNION {SyBlocksOf[t] : t \in Range(c)}
            top == {h \in DOMAIN c : Cardinality({g \in DOMAIN c : g >= h}) <= SyLazyLimit}
        IN  sy = [f |-> [BranchForest(c) EXCEPT !.chain[Main] = From(c, top)],
                  brs |-> {Main}, att |-> {Main},
                  hb |-> NoBranch, hw |-> 0, its |-> NoTipsetKey, job |-> NoJob,
                  cache |-> [t \in Range(c) |-> "ok"], head |-> s, weight |-> SyWeight[s],
                  reqs |-> <<>>, req |-> NoRequest, tasks |-> <<>>, peers |-> Empty, mq |-> {},
                  fetching |-> Empty, busy |-> {}, cur |-> 0, minw |-> SyWeight[s],
                  cand |-> Empty, local |-> known, meta |-> known,
                  mirror |-> s, torn |-> FALSE, crash |-> FALSE]
    /\ syEvents = 0

getLocal(n, t) == SyBlocksOf[t] \subseteq n.local

(* ChainStoreImpl::update: reverts from the top, then applies; a subscriber is
   torn when a revert is not of its head or an apply not on top of it. *)
follow(n, revert, apply) ==
    LET down == FoldLeft(LAMBDA m, h : [m EXCEPT !.torn = @ \/ revert[h] # m.mirror,
                                                 !.mirror = BrParent[revert[h]]],
                         n, Reverse(Ascending(DOMAIN revert \ {Min(DOMAIN revert)})))
    IN  FoldLeft(LAMBDA m, h : [m EXCEPT !.torn = @ \/ BrParent[apply[h]] # m.mirror,
                                         !.mirror = apply[h]],
                 down, Ascending(DOMAIN apply \ {Min(DOMAIN apply)}))

updateStore(n, path, w) ==
    onCurrentHead([follow(n, path.revert, path.apply)
                     EXCEPT !.head = path.apply[Max(DOMAIN path.apply)], !.weight = w], w)

onInterpret(n, t) ==
    LET at == findTipset(n.f, n.brs, t)
        path == findPath(at.f, at.branch, BrHeight[t])
        u == updateMain(at.f, path)
    IN  IF SyWeight[t] <= n.weight THEN n
        ELSE IF at.branch = NoBranch \/ path.error THEN [n EXCEPT !.f = at.f]
        ELSE updateStore([n EXCEPT !.f = u.f, !.brs = @ \ u.removed, !.att = @ \ u.removed],
                         path, SyWeight[t])

(* The parent was interpreted, with the result the tipset states.          *)
checkParent(n, t) ==
    \/ BrHeight[t] = 0
    \/ GetOr(n.cache, BrParent[t], "none") = "ok" /\ t \notin SyLiars
forgetParent(n, t) ==
    IF t \in SyLiars /\ GetOr(n.cache, BrParent[t], "none") = "ok" /\ BrHeight[t] # 0
    THEN [n EXCEPT !.cache = Without(@, BrParent[t])] ELSE n

interpretDequeue(n) ==
    LET t == n.its
        n1 == requestMessages(n, t, TRUE)
        at == findTipset(n.f, n.brs, t)
    IN  IF n.job # NoJob \/ t = NoTipsetKey THEN n
        ELSE IF ~ hasMessages(n, t) THEN n1
        ELSE IF ~ checkParent(n, t)
        THEN [forgetParent(n, t) EXCEPT !.its = NoTipsetKey, !.f = at.f]
        ELSE [n EXCEPT !.f = at.f, !.job = [ts |-> t, branch |-> at.branch, done |-> FALSE],
                       !.crash = @ \/ at.branch = NoBranch]

(* The tipset after t in the chain that ends with a branch.                *)
stepUp(n, b, t) ==
    LET up == findHeight(n.f, b, BrHeight[t] + 1, FALSE)
        back == stepParent(up.f, up.branch, up.at)
    IN  IF b = NoBranch THEN NoTipsetKey
        ELSE IF Top(n.f, b) = t \/ up.error THEN NoTipsetKey
        ELSE IF back.error \/ back.f.chain[back.branch][back.at] # t THEN NoTipsetKey
        ELSE up.f.chain[up.branch][up.at]

(* The handler that the interpreting thread posts. *)
nextTarget(n, t, ok) ==
    IF n.its # t THEN n
    ELSE [n EXCEPT !.its = IF ok THEN stepUp(n, n.hb, t) ELSE NoTipsetKey]
onInterpreted(n0, t, ok) ==
    LET n == [n0 EXCEPT !.job = NoJob]
    IN  interpretDequeue(Hold(nextTarget(IF ok THEN onInterpret(n, t) ELSE n, t, ok)))

heavier(n, b) ==
    LET t == Top(n.f, b)
    IN  \/ ParentWeight(t) > n.hw
        \/ /\ n.hb # NoBranch /\ ParentWeight(t) = n.hw
           /\ Cardinality(SyBlocksOf[t]) > Cardinality(SyBlocksOf[Top(n.f, n.hb)])

RECURSIVE attachAll(_, _)
attachAll(n, queue) ==
    IF queue = <<>> THEN n
    ELSE LET b == Last(queue)
             n1 == [n EXCEPT !.att = @ \cup {b}]
             n2 == IF heavier(n, b) THEN [n1 EXCEPT !.hb = b, !.hw = ParentWeight(Top(n.f, b))]
                   ELSE n1
             kids == SetToSortSeq(Kids(n.f, b), LAMBDA k, l : Queued(k, l))
         IN  attachAll(n2, Front(queue) \o [i \in DOMAIN kids |-> kids[i][2]])
attach(n, b) == attachAll(n, <<b>>)

(* Down from the top of the heaviest branch to the first tipset that was
   interpreted; what was found bad on the way is forgotten. *)
RECURSIVE targetFrom(_, _, _, _)
targetFrom(n, b, h, above) ==
    LET t == n.f.chain[b][h]
        cached == GetOr(n.cache, t, "none")
        n1 == IF cached = "bad" THEN [n EXCEPT !.cache = Without(@, t)] ELSE n
        down == stepParent(n1.f, b, h)
    IN  IF cached = "ok"
        THEN IF above = NoTipsetKey THEN n ELSE [n EXCEPT !.its = above]
        ELSE IF down.error THEN n1
        ELSE targetFrom([n1 EXCEPT !.f = down.f], down.branch, down.at, t)

(* Mutant: a tipset that waits to be interpreted stays the target. *)
updateTargetKept(n, last) ==
    IF n.hb = last \/ n.its # NoTipsetKey THEN n
    ELSE targetFrom(n, n.hb, high(n.f, n.hb), NoTipsetKey)

updateTarget(n, last) ==
    IF n.hb = last THEN n ELSE targetFrom(n, n.hb, high(n.f, n.hb), NoTipsetKey)

(* The whole chain of a branch above Main as one new branch.               *)
RECURSIVE ancestry(_, _)
ancestry(F, b) == IF b = NoBranch \/ b = Main THEN <<>> ELSE <<b>> \o ancestry(F, F.parent[b])
chainLength(F, b) == LET bs == ancestry(F, b)
                     IN  FoldLeft(LAMBDA k, x : k + Cardinality(DOMAIN F.chain[x]), 0, bs)

withNew(n, new, bottom) ==
    IF new.branch = Main THEN [node |-> n, branch |-> NoBranch]
    ELSE [node |-> [n EXCEPT !.f = [new.f EXCEPT !.pkey[new.branch] = n.f.pkey[bottom]],
                             !.brs = @ \cup {new.branch}],
          branch |-> new.branch]
compact(n, b) ==
    LET bs == ancestry(n.f, b)
        c == FoldLeft(LAMBDA m, x : m @@ n.f.chain[x], Empty, bs)
    IN  IF b = Main THEN [node |-> n, branch |-> NoBranch]
        ELSE withNew(n, make(n.f, c, n.f.parent[Last(bs)]), Last(bs))

heaviestIs(c) == [c.node EXCEPT !.hb = c.branch, !.att = @ \cup ({c.branch} \ {NoBranch})]
compactBranches(n) ==
    LET loose == n.brs \ n.att
        longest == Min({b \in loose : \A c \in loose :
                          chainLength(n.f, c) <= chainLength(n.f, b)})
        n1 == [n EXCEPT !.att = {Main}, !.brs = {Main}]
        n2 == IF n.hb = NoBranch THEN n1 ELSE heaviestIs(compact(n1, n.hb))
    IN  Hold(IF loose = {} THEN n2 ELSE compact(n2, longest).node)

fetch(n, p, t) == post([n EXCEPT !.reqs = Append(@, [peer |-> p, ts |-> t])],
                       [kind |-> "fetch", peer |-> NoPeer, ts |-> NoTipsetKey])

RECURSIVE Root(_, _)
Root(F, b) == IF F.parent[b] = NoBranch THEN b ELSE Root(F, F.parent[b])

RECURSIVE insertUp(_, _, _)
inserted(n, p, i) ==
    LET n1 == Hold([n EXCEPT !.f = i.f, !.brs = i.branches])
        need == i.f.pkey[Root(i.f, i.branch)]
    IN  IF i.branch \in n.att
        THEN updateTarget(FoldLeft(attach, n1, i.children), n.hb)
        ELSE IF need = NoTipsetKey THEN n1
        ELSE IF getLocal(n, need) THEN insertUp(n1, p, need)
        ELSE IF p # NoPeer THEN fetch(n1, p, need) ELSE n1
insertUp(n0, p, t) ==
    LET n == requestMessages(n0, t, FALSE) IN inserted(n, p, insertTipset(n.f, n.brs, t))

onTs(n, p, t) ==
    interpretDequeue(Hold(insertUp(IF Cardinality(n.brs) > SyCompactAt THEN compactBranches(n)
                                   ELSE n, p, t)))

onPossibleHead(n, p, t) ==
    IF getLocal(n, t) THEN onTs(n, p, t) ELSE IF p # NoPeer THEN fetch(n, p, t) ELSE n

(* The next block request; one that hangs for too long is given up, and being
   destroyed it never calls back. *)
fetchDequeue(n0, expired) ==
    LET n == IF expired THEN [n0 EXCEPT !.req = NoRequest] ELSE n0
        next == Head(n.reqs)
        n1 == [n EXCEPT !.reqs = Tail(@)]
    IN  IF n.req # NoRequest \/ n.reqs = <<>> THEN n
        ELSE IF getLocal(n, next.ts)
        THEN post(n1, [kind |-> "ts", peer |-> next.peer, ts |-> next.ts])
        ELSE [n1 EXCEPT !.req = next]

(* The answer to a block request: any of the blocks asked for, and when all
   came some ancestors. *)
RECURSIVE SyAncestors(_, _)
SyAncestors(t, k) == IF k = 0 THEN {} ELSE {t} \cup SyAncestors(BrParent[t], k - 1)

downloaderCallback(n, got, depth) ==
    LET r == n.req
        all == got = SyBlocksOf[r.ts]
        stored == UNION {SyBlocksOf[t] : t \in IF all THEN SyAncestors(r.ts, depth) ELSE {}}
        n1 == [n EXCEPT !.req = NoRequest, !.local = @ \cup got \cup stored]
        n2 == IF got = {} THEN onPeerError(n1, r.peer)
              ELSE post(n1, [kind |-> "ts", peer |-> r.peer, ts |-> TipsetOf(got)])
    IN  fetchDequeue(n2, FALSE)

-----------------------------------------------------------------------------
Announced(max) == syEvents < max /\ syEvents' = syEvents + 1

(* A block from gossip; its message list is stored when its messages are.  *)
BlockFromPubSub(p, x, known) ==
    /\ Announced(SyMaxGossip)
    /\ sy' = tryAppendBlock([sy EXCEPT !.local = @ \cup {x},
                                       !.meta = IF known THEN @ \cup {x} ELSE @], p, x)

BlockFromApi(x) ==
    /\ Announced(SyMaxEvents)
    /\ sy' = tryAppendBlock([sy EXCEPT !.local = @ \cup {x}, !.meta = @ \cup {x}], NoPeer, x)

TipsetFromHello(p, t) == Announced(SyMaxGossip) /\ sy' = tipsetFromHello(sy, p, t)

SyPeerDisconnected(p) == p \in DOMAIN sy.peers /\ sy' = onPeerError(sy, p) /\ UNCHANGED syEvents

RunHandler ==
    /\ sy.tasks # <<>>
    /\ \E expired \in BOOLEAN :
        LET k == Head(sy.tasks)
            n == [sy EXCEPT !.tasks = Tail(@)]
        IN  /\ expired => k.kind = "fetch" /\ sy.req # NoRequest
            /\ sy' = CASE k.kind = "head" -> onPossibleHead(n, k.peer, k.ts)
                       [] k.kind = "ts" -> onTs(n, k.peer, k.ts)
                       [] k.kind = "fetch" -> fetchDequeue(n, expired)
                       [] k.kind = "done" -> onInterpreted(n, k.ts, k.ok)
    /\ UNCHANGED syEvents

(* CachedInterpreter::interpret, on the interpreting thread.               *)
SyInterpret ==
    /\ sy.job # NoJob /\ ~ sy.job.done
    /\ LET t == sy.job.ts
           result == GetOr(sy.cache, t, IF t \in SyBadTipsets THEN "bad" ELSE "ok")
       IN  sy' = post([sy EXCEPT !.job.done = TRUE, !.cache = With(@, t, result)],
                      [kind |-> "done", ts |-> t, ok |-> result = "ok"])
    /\ UNCHANGED syEvents

BlocksArrive ==
    /\ sy.req # NoRequest
    /\ \E got \in SUBSET SyBlocksOf[sy.req.ts], depth \in {1, SyDepth} :
        /\ SyBlocksOf[sy.req.ts] \cap sy.local \subseteq got
        /\ sy' = downloaderCallback(sy, got, depth)
    /\ UNCHANGED syEvents

MessagesArrive ==
    /\ \E t \in DOMAIN sy.fetching : \E got \in SUBSET SyBlocksOf[t] :
        LET n == onFetch(sy, t, got)
        IN  sy' = IF n.its = t THEN interpretDequeue(n) ELSE n
    /\ UNCHANGED syEvents

SyNext ==
    \/ \E p \in SyPeers, x \in SyBlocks, known \in BOOLEAN : BlockFromPubSub(p, x, known)
    \/ \E x \in SyBlocks : BlockFromApi(x)
    \/ \E p \in SyPeers, t \in BrTipsets : TipsetFromHello(p, t)
    \/ \E p \in SyPeers : SyPeerDisconnected(p)
    \/ RunHandler \/ SyInterpret \/ BlocksArrive \/ MessagesArrive

SySpec == SyInit /\ [][SyNext]_syVars
-----------------------------------------------------------------------------
SyTypeOK ==
    /\ sy.brs \subseteq BrBranches /\ sy.att \subseteq sy.brs /\ Main \in sy.att
    /\ sy.hb \in BrBranches \cup {NoBranch} /\ sy.head \in BrTipsets
    /\ sy.its \in BrTipsets \cup {NoTipsetKey} /\ sy.busy \subseteq SyPeers
    /\ DOMAIN sy.fetching \subseteq BrTipsets /\ syEvents \in 0 .. SyMaxEvents

Linked(c) == \A h \in DOMAIN c : LET below == {x \in DOMAIN c : x < h}
                                 IN  below = {} \/ c[Max(below)] = BrParent[c[h]]

(* Every tipset of the node's chain, in memory and in its file, is followed by
   one that names it as its parent; the head of the chain store is the last of
   them, has the weight it was interpreted with, and is the one a subscriber
   reaches that follows the reverts and applies it is told of. *)
MainIsLinked ==
    /\ Linked(sy.f.chain[Main]) /\ Linked(sy.f.file)
    /\ \A h \in DOMAIN sy.f.chain[Main] : sy.f.file[h] = sy.f.chain[Main][h]
    /\ sy.head = Top(sy.f, Main) /\ sy.weight = SyWeight[sy.head]
    /\ ~ sy.torn /\ sy.mirror = sy.head

(* However reorganizations move tipsets between branches, each branch is a chain
   of parents, an attached one starts in its parent, no assertion on branches
   fails, and the tipset found at a height of a branch is the ancestor of its
   last tipset at that height.  A branch made of a key holds its tipset. *)
RECURSIVE AncestorAt(_, _)
AncestorAt(t, h) == IF BrHeight[t] <= h THEN t ELSE AncestorAt(BrParent[t], h)
BranchesAreSound ==
    /\ ~ sy.f.fault /\ ~ sy.crash
    /\ \A b \in sy.brs :
        /\ Linked(sy.f.chain[b])
        /\ b \in sy.att => \A h \in 0 .. high(sy.f, b) :
                LET r == findHeight(sy.f, b, h, TRUE)
                IN  ~ r.error /\ r.f.chain[r.branch][r.at] = AncestorAt(Top(sy.f, b), h)
    /\ \A t \in BrTipsets :
        LET m == makeOfKey(sy.f, t)
        IN  m.branch # NoBranch => /\ ~ m.f.fault /\ Linked(m.f.chain[m.branch])
                                   /\ HasAt(m.f, m.branch, BrHeight[t], t)

(* When no handler, request or interpretation is pending, the head is the
   heaviest attached branch, unless a tipset on the way there could not be
   interpreted; or the next tipset to interpret is known and waits for its
   messages. *)
RECURSIVE Doubtful(_)
Doubtful(t) == t # SyGenesis /\ (t \in SyBadTipsets \cup SyLiars \/ Doubtful(BrParent[t]))
SyIdle == sy.tasks = <<>> /\ sy.job = NoJob /\ sy.req = NoRequest /\ sy.fetching = Empty
CatchesUp ==
    SyIdle /\ sy.hb # NoBranch /\ sy.weight < SyWeight[Top(sy.f, sy.hb)]
      => \/ Doubtful(Top(sy.f, sy.hb))
         \/ sy.its # NoTipsetKey /\ checkParent(sy, sy.its)

(* A peer counts as asked for messages only while a request to it is in flight. *)
FetchersInFlight == sy.busy = Range(sy.fetching)

-----------------------------------------------------------------------------

(* The block sync protocol: a request and its answer (node/blocksync_request.cpp,
   node/blocksync_server.cpp).  A tipset is the set of its blocks.  The client
   is a record c: headers and lists are the block headers and message lists in
   its store, phase is where the request is, timer whether the timeout is armed,
   and the other fields are those of the request and its result.  The peer's
   answer is the one the server computes, or one that differs from it in a
   bundle, as another implementation of the protocol could send. *)

CONSTANTS
    BsHeaders,      \* the possible sets of headers at the client at first
    BsServerLacks,  \* the possible sets of blocks the server lacks messages of
    BsBundles,      \* the sets of blocks a peer can put in a bundle
    BsMaxLength     \* kBlockSyncMaxRequestLength

Options == {"blocks", "messages", "both"}

VARIABLES bsClient, bsServer, bsWire
bsVars == <<bsClient, bsServer, bsWire>>

WithMessages(o) == o \in {"messages", "both"}
WithBlocks(o) == o \in {"blocks", "both"}
NoAnswer == [sent |-> FALSE, chain |-> <<>>]

BsInit ==
    /\ \E h \in BsHeaders, l \in SUBSET SyBlocks :
        /\ l \subseteq h
        /\ bsClient = [headers |-> h, lists |-> l, phase |-> "new", timer |-> FALSE,
                       asked |-> {}, options |-> "blocks", depth |-> 0, wait |-> {},
                       available |-> {}, parents |-> <<>>, error |-> FALSE, told |-> 0]
    /\ \E lacks \in BsServerLacks : bsServer = [started |-> TRUE, lacks |-> lacks]
    /\ bsWire = NoAnswer

-----------------------------------------------------------------------------
(* done() and the call of the callback, at once or as a task of its own.   *)
scheduleResult(c, now) ==
    [c EXCEPT !.timer = FALSE, !.phase = IF now THEN "told" ELSE "posted",
              !.told = IF now THEN @ + 1 ELSE @]

findBlockInLocalStore(c, x, meta) == x \in c.headers /\ (meta => x \in c.lists)

tryReduceRequest(c, B, meta) == {x \in B : ~ findBlockInLocalStore(c, x, meta)}

makeRequest(c0, B, depth, options) ==
    LET reduced == tryReduceRequest(c0, B, WithMessages(options))
        c == [c0 EXCEPT !.asked = B, !.options = options, !.wait = reduced,
                        !.depth = Larger(1, depth),
                        !.available = IF options = "messages" THEN {} ELSE B \ reduced]
    IN  IF reduced = {} THEN scheduleResult([c EXCEPT !.available = B], FALSE)
        ELSE IF options = "messages" /\ ~ reduced \subseteq c.headers
        THEN scheduleResult([c EXCEPT !.error = TRUE, !.wait = {}], FALSE)
        ELSE [c EXCEPT !.phase = "connecting", !.timer = TRUE]

(* The answer of the server: bundles from the blocks asked for downwards, until
   enough, the genesis, or the first that cannot be read. *)
isValidRequest(B, depth, options) == B # {} /\ depth # 0 /\ options \in Options

RECURSIVE bundles(_, _, _, _)
bundles(s, B, depth, options) ==
    LET t == TipsetOf(B)
        bundle == [blocks |-> IF WithBlocks(options) THEN B ELSE {},
                   lists |-> IF WithMessages(options) THEN "good" ELSE "none"]
    IN  IF WithMessages(options) /\ B \cap s.lacks # {} THEN <<>>
        ELSE IF depth = 1 \/ BrHeight[t] = 0 THEN <<bundle>>
        ELSE <<bundle>> \o bundles(s, SyBlocksOf[BrParent[t]], depth - 1, options)

getChain(s, B, depth, options) == bundles(s, B, Smaller(depth, BsMaxLength), options)

onRequest(s, B, depth, options) ==
    IF s.started /\ isValidRequest(B, depth, options) THEN getChain(s, B, depth, options) ELSE <<>>

(* Stores a bundle: its messages, then block by block the header and the list of
   its messages.  Returns the store, whether it failed, and the blocks stored. *)
storeTipsetBundle(c, bundle) ==
    LET B == bundle.blocks
    IN  CASE bundle.lists = "miscounted" -> [c |-> c, error |-> TRUE, stored |-> {}]
          [] bundle.lists = "other" ->
               [c |-> [c EXCEPT !.headers = @ \cup B], error |-> B # {}, stored |-> {}]
          [] OTHER ->
               [c |-> [c EXCEPT !.headers = @ \cup B,
                                !.lists = IF bundle.lists = "good" THEN @ \cup B ELSE @],
                error |-> FALSE, stored |-> B]

(* The parents: each bundle must be the tipset that the one before it names. *)
canExpand(B) == \A x \in B : /\ \A y \in B \ {x} : SyMiner[x] # SyMiner[y]
                             /\ \A y \in B : BrParent[OfBlock(x)] = BrParent[OfBlock(y)]
                                             /\ BrHeight[OfBlock(x)] = BrHeight[OfBlock(y)]

RECURSIVE storeParents(_, _, _)
storeParents(c, chain, expected) ==
    IF chain = <<>> THEN c
    ELSE LET r == storeTipsetBundle(c, Head(chain))
             B == Head(chain).blocks
         IN  IF r.error THEN r.c
             ELSE IF ~ canExpand(B) \/ B # SyBlocksOf[expected] THEN [r.c EXCEPT !.error = TRUE]
             ELSE storeParents([r.c EXCEPT !.parents = Append(@, expected)],
                               Tail(chain), BrParent[expected])

(* Mutant: blocks that did not come are not noticed. *)
storeChainAny(c, chain) ==
    LET r == storeTipsetBundle(c, chain[1])
    IN  [r.c EXCEPT !.wait = {}, !.available = @ \cup r.stored, !.error = @ \/ r.error]

storeChain(c, chain) ==
    LET first == IF c.options = "messages" THEN [chain[1] EXCEPT !.blocks = c.wait] ELSE chain[1]
        r == storeTipsetBundle(c, first)
        came == r.stored \cap c.wait
        c1 == [r.c EXCEPT !.wait = @ \ came, !.available = @ \cup came,
                          !.error = @ \/ r.error \/ ~ c.wait \subseteq came]
    IN  IF Len(chain) = 1 \/ came = {} THEN c1
        ELSE storeParents(c1, Tail(chain), BrParent[OfBlock(CHOOSE x \in came : TRUE)])

onResponseRead(c, chain) ==
    scheduleResult(IF chain = <<>> THEN [c EXCEPT !.error = TRUE]
                   ELSE storeChain(c, chain), TRUE)
-----------------------------------------------------------------------------
NewRequest ==
    /\ bsClient.phase = "new"
    /\ \E t \in BrTipsets, depth \in 0 .. BsMaxLength + 1, options \in Options :
        bsClient' = makeRequest(bsClient, SyBlocksOf[t], depth, options)
    /\ UNCHANGED <<bsServer, bsWire>>

OnConnected(ok) ==
    /\ bsClient.phase = "connecting"
    /\ bsClient' = IF ok THEN [bsClient EXCEPT !.phase = "writing"]
                   ELSE scheduleResult([bsClient EXCEPT !.error = TRUE], FALSE)
    /\ UNCHANGED <<bsServer, bsWire>>

OnRequestWritten(ok) ==
    /\ bsClient.phase = "writing"
    /\ bsClient' = IF ok THEN [bsClient EXCEPT !.phase = "reading"]
                   ELSE scheduleResult([bsClient EXCEPT !.error = TRUE], TRUE)
    /\ UNCHANGED <<bsServer, bsWire>>

(* What else a peer can send: other blocks, or other messages, in one bundle. *)
Variants(chain) ==
    {[chain EXCEPT ![i].blocks = B] : i \in DOMAIN chain, B \in BsBundles}
      \cup {[chain EXCEPT ![i].lists = l] : i \in DOMAIN chain, l \in {"miscounted", "other"}}

ServerAnswers ==
    /\ bsClient.phase = "reading" /\ ~ bsWire.sent
    /\ LET chain == onRequest(bsServer, bsClient.wait, bsClient.depth, bsClient.options)
       IN  \E answer \in {chain} \cup Variants(chain) : bsWire' = [sent |-> TRUE, chain |-> answer]
    /\ UNCHANGED <<bsClient, bsServer>>

ServerStops == bsServer.started /\ bsServer' = [bsServer EXCEPT !.started = FALSE]
               /\ UNCHANGED <<bsClient, bsWire>>

(* An answer that comes after the request is done is dropped.              *)
OnResponseRead(ok) ==
    /\ bsClient.phase = "reading" /\ (ok => bsWire.sent)
    /\ bsClient' = onResponseRead(bsClient, IF ok THEN bsWire.chain ELSE <<>>)
    /\ UNCHANGED <<bsServer, bsWire>>

OnTimeout ==
    /\ bsClient.timer
    /\ bsClient' = scheduleResult([bsClient EXCEPT !.error = TRUE], TRUE)
    /\ UNCHANGED <<bsServer, bsWire>>

ResultPosted ==
    /\ bsClient.phase = "posted"
    /\ bsClient' = [bsClient EXCEPT !.phase = "told", !.told = @ + 1]
    /\ UNCHANGED <<bsServer, bsWire>>

(* The owner drops the request: the destructor cancels the timer and the task. *)
RequestDropped ==
    /\ bsClient.phase \notin {"new", "told", "gone"}
    /\ bsClient' = [bsClient EXCEPT !.phase = "gone", !.timer = FALSE]
    /\ UNCHANGED <<bsServer, bsWire>>

BsNext ==
    \/ NewRequest \/ ServerAnswers \/ ServerStops \/ OnTimeout \/ ResultPosted \/ RequestDropped
    \/ \E ok \in BOOLEAN : OnConnected(ok) \/ OnRequestWritten(ok) \/ OnResponseRead(ok)

BsSpec == BsInit /\ [][BsNext]_bsVars
-----------------------------------------------------------------------------
BsTypeOK ==
    /\ bsClient.headers \subseteq SyBlocks /\ bsClient.lists \subseteq bsClient.headers
    /\ bsClient.phase \in {"new", "connecting", "writing", "reading", "posted", "told", "gone"}
    /\ bsClient.timer => bsClient.phase \in {"connecting", "writing", "reading"}

(* Whatever a peer answers: the callback is called once, and a result without an
   error has all the blocks asked for in the store, with their messages if those
   were asked for, and nothing but their ancestors, in order and in the store,
   as the parents. *)
ResultIsWhole ==
    LET c == bsClient
        above(i) == IF i = 1 THEN BrParent[TipsetOf(c.asked)] ELSE BrParent[c.parents[i - 1]]
    IN  /\ c.told <= 1 /\ (c.phase = "told" => c.told = 1)
        /\ c.told = 1 /\ ~ c.error =>
             /\ c.asked \subseteq c.headers
             /\ c.available \subseteq c.asked
             /\ WithBlocks(c.options) => c.available = c.asked
             /\ WithMessages(c.options) => c.asked \subseteq c.lists
        /\ c.told = 1 =>
             \A i \in DOMAIN c.parents : /\ c.parents[i] = above(i)
                                         /\ SyBlocksOf[c.parents[i]] \subseteq c.headers

-----------------------------------------------------------------------------
(* What a node does for its peers: it says hello to those that identify
   themselves (node/identify.cpp, node/say_hello.cpp), and looks for new peers
   (node/peer_discovery.cpp).
   All callbacks run on one thread.  The node is a record: body tells whether a
   head is known, active and times are SayHello's two indexes of the hellos in
   flight, streams are the streams that callbacks are pending for;
   n_connections and searching are PeerDiscovery's, known are the peers whose
   addresses are, dialled those the host was told to connect to. *)

CONSTANTS
    PpPeers,        \* peers
    PpSpeakers,     \* those that handle the hello protocol
    PpHeartbeat,    \* kHeartbeatInterval, in ticks of the clock
    PpEnough,       \* kEnoughConnectionsNum
    PpSameTick,     \* whether two hellos can be sent within one tick
    PpMaxNow, PpMaxHellos

ASSUME PeersAssumption == PpSpeakers \subseteq PpPeers /\ PpSameTick \in BOOLEAN

VARIABLES pp, ppNow, ppHellos
ppVars == <<pp, ppNow, ppHellos>>

NoStream == 0

PpInit ==
    /\ pp = [body |-> FALSE, active |-> Empty, times |-> {}, streams |-> {},
             peers |-> {}, n_connections |-> 0, searching |-> {}, lookups |-> {}, known |-> {},
             dialled |-> {}]
    /\ ppNow = 1 /\ ppHellos = 0

-----------------------------------------------------------------------------
(* SayHello.  The multiset of times is ordered by the time alone, so that
   erasing an entry erases all that have its time. *)
eraseTime(times, t) == {e \in times : e[1] # t}

(* Mutant: a hello that failed stays among the active ones.                *)
clearRequestKeeping(n, p) ==
    IF p \notin DOMAIN n.active THEN n
    ELSE [n EXCEPT !.times = eraseTime(@, n.active[p].sent)]

clearRequest(n, p) ==
    IF p \notin DOMAIN n.active THEN n
    ELSE [n EXCEPT !.active = Without(@, p), !.times = eraseTime(@, n.active[p].sent),
                   !.streams = {s \in @ : s.id # n.active[p].stream}]

sayHello(n, p, now, id) ==
    IF ~ n.body \/ p \in DOMAIN n.active THEN n
    ELSE [n EXCEPT !.active = With(@, p, [sent |-> now, stream |-> NoStream]),
                   !.times = @ \cup {<<now, p>>},
                   !.streams = @ \cup {[id |-> id, peer |-> p, stage |-> "opening"]}]

Closed(n, s) == [n EXCEPT !.streams = @ \ {s}]
Moved(n, s, stage) == [n EXCEPT !.streams = (@ \ {s}) \cup {[s EXCEPT !.stage = stage]}]

onConnected(n, s) ==
    IF s.peer \notin DOMAIN n.active THEN Closed(n, s)
    ELSE [Moved(n, s, "writing") EXCEPT !.active[s.peer].stream = s.id]

onRequestWritten(n, s, ok) ==
    IF s.peer \notin DOMAIN n.active THEN Closed(n, s)
    ELSE IF ~ ok THEN Closed(clearRequest(n, s.peer), s)
    ELSE Moved(n, s, "reading")

ppOnResponseRead(n, s) ==
    IF s.peer \notin DOMAIN n.active THEN Closed(n, s) ELSE Closed(clearRequest(n, s.peer), s)

(* A hello that was sent long enough ago is given up. *)
onHeartbeat(n, now) ==
    LET expired == {e[2] : e \in {x \in n.times : x[1] <= now - PpHeartbeat}}
    IN  [n EXCEPT !.active = [p \in DOMAIN @ \ expired |-> @[p]],
                  !.times = {e \in @ : e[2] \notin expired},
                  !.streams = {s \in @ : ~ \E p \in expired \cap DOMAIN n.active :
                                             s.id = n.active[p].stream}]

(* PeerDiscovery.  A failed search forgets every search in progress.       *)
ppMakeRequest(n, p, ok) ==
    IF ok THEN [n EXCEPT !.lookups = @ \cup {p}, !.searching = @ \cup {p}]
    ELSE [n EXCEPT !.searching = {}]

onPossibleConnection(n, p, ok) ==
    IF p \in n.searching \/ p \in n.known THEN n ELSE ppMakeRequest(n, p, ok)

onPeerResolved(n, p) ==
    [n EXCEPT !.searching = @ \ {p}, !.known = @ \cup {p},
              !.dialled = IF n.n_connections < PpEnough THEN @ \cup {p} ELSE @]
-----------------------------------------------------------------------------
CurrentHead == ~ pp.body /\ pp' = [pp EXCEPT !.body = TRUE] /\ UNCHANGED <<ppNow, ppHellos>>

(* onIdentifyReceived: the peer's protocols are known. *)
PeerConnected(p) ==
    /\ p \notin pp.peers /\ ppHellos < PpMaxHellos
    /\ PpSameTick \/ ~ \E e \in pp.times : e[1] = ppNow
    /\ LET n == [pp EXCEPT !.peers = @ \cup {p}, !.known = @ \cup {p}, !.n_connections = @ + 1,
                            !.dialled = @ \ {p}]
       IN  pp' = IF p \in PpSpeakers THEN sayHello(n, p, ppNow, ppHellos + 1) ELSE n
    /\ ppHellos' = ppHellos + 1 /\ UNCHANGED ppNow

PeerDisconnected(p) ==
    /\ p \in pp.peers
    /\ pp' = [pp EXCEPT !.peers = @ \ {p}, !.n_connections = Larger(0, @ - 1)]
    /\ UNCHANGED <<ppNow, ppHellos>>

(* The callbacks of a stream. *)
StreamStep(s, ok) ==
    /\ pp' = CASE s.stage = "opening" -> IF ok THEN onConnected(pp, s)
                                         ELSE Closed(clearRequest(pp, s.peer), s)
               [] s.stage = "writing" -> onRequestWritten(pp, s, ok)
               [] s.stage = "reading" -> ppOnResponseRead(pp, s)
    /\ UNCHANGED <<ppNow, ppHellos>>

Heartbeat ==
    /\ ppNow % PpHeartbeat = 0 /\ pp' = onHeartbeat(pp, ppNow)
    /\ UNCHANGED <<ppNow, ppHellos>>

(* The clock does not pass a heartbeat that is due. *)
PpTick ==
    /\ ppNow < PpMaxNow
    /\ ppNow % PpHeartbeat = 0 => pp = onHeartbeat(pp, ppNow)
    /\ ppNow' = ppNow + 1 /\ UNCHANGED <<pp, ppHellos>>

PossibleConnection(p, ok) == pp' = onPossibleConnection(pp, p, ok) /\ UNCHANGED <<ppNow, ppHellos>>

LookupEnds(p, ok) ==
    /\ p \in pp.lookups
    /\ LET n == [pp EXCEPT !.lookups = @ \ {p}]
       IN  pp' = IF ok THEN onPeerResolved(n, p) ELSE [n EXCEPT !.searching = {}]
    /\ UNCHANGED <<ppNow, ppHellos>>

PpNext ==
    \/ CurrentHead \/ Heartbeat \/ PpTick
    \/ \E p \in PpPeers : PeerConnected(p) \/ PeerDisconnected(p)
    \/ \E s \in pp.streams, ok \in BOOLEAN : StreamStep(s, ok)
    \/ \E p \in PpPeers, b \in BOOLEAN :
        PossibleConnection(p, b) \/ LookupEnds(p, b)

PpSpec == PpInit /\ [][PpNext]_ppVars
-----------------------------------------------------------------------------
PpTypeOK ==
    /\ DOMAIN pp.active \subseteq PpSpeakers /\ pp.n_connections \in 0 .. Cardinality(PpPeers)
    /\ pp.searching \subseteq PpPeers /\ pp.known \subseteq PpPeers

(* A hello in flight can always time out, and only a hello in flight does: the
   two indexes hold the same requests, none of them older than two heartbeats.
   (A hello left in the first index alone would keep its peer from ever being
   greeted again.) *)
HellosEnd ==
    /\ {<<pp.active[p].sent, p>> : p \in DOMAIN pp.active} = pp.times
    /\ \A p \in DOMAIN pp.active : ppNow - pp.active[p].sent <= 2 * PpHeartbeat
=============================================================================
