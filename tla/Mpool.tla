------------------------------- MODULE Mpool --------------------------------
(***************************************************************************)
(* The message pool: selection of messages for a block, then the pool      *)
(* itself.                                                                 *)
(***************************************************************************)
EXTENDS ActorBase, FiniteSets, TLC

(***************************************************************************)
(* How the message pool picks the messages of a block (storage/mpool):     *)
(* chains of messages of one sender, ordered by reward per gas, taken in   *)
(* that order while the gas of a block lasts.  Doubles are fractions, and  *)
(* std::sort is the insertion sort it is for up to sixteen elements.       *)
(***************************************************************************)

CONSTANTS
    BlockGas, MinGas,     \* kBlockGasLimit and kMinGas
    MaxBlockMessages,
    BlockProbabilities    \* blockProbabilities by ticket quality, fractions

NoChain == <<>>

Less(x, y) == x[1] * y[2] < y[1] * x[2]
SameMessage(x, y) == x[1] * y[2] = y[1] * x[2]
RECURSIVE MpGcd(_, _)
MpGcd(a, b) == IF b = 0 THEN a ELSE MpGcd(b, a % b)
InLowest(x) == LET g == MpGcd(IF x[1] < 0 THEN -x[1] ELSE x[1], x[2]) IN <<x[1] \div g, x[2] \div g>>
Times(x, y) == InLowest(<<x[1] * y[1], x[2] * y[2]>>)
MpPlus(x, y) == InLowest(<<x[1] * y[2] + y[1] * x[2], x[2] * y[2]>>)
Negated(x) == <<-x[1], x[2]>>
MpZero == <<0, 1>>
-----------------------------------------------------------------------------
requiredFunds(m) == m.limit * m.cap

(* A message that costs its miner is weighed three times. *)
getGasReward(m, fee) ==
    LET reward == Smaller(m.cap - fee, m.premium) * m.limit
    IN  IF reward < 0 THEN 3 * reward ELSE reward

(* The fraction of a negative limit is negative; one of zero is thrown.    *)
getGasPerf(reward, limit) ==
    IF limit < 0 THEN <<-reward * BlockGas, -limit>> ELSE <<reward * BlockGas, limit>>

before(l, r) == \/ Less(r.perf, l.perf)
                \/ SameMessage(r.perf, l.perf) /\ r.reward < l.reward
beforeEffective(l, r) ==
    \/ l.merged /\ ~ r.merged
    \/ l.perf[1] >= 0 /\ r.perf[1] < 0
    \/ Less(r.eff, l.eff)
    \/ SameMessage(r.eff, l.eff) /\ before(l, r)

(* Element i moves down while the next one is not after it.                *)
bubble(order, i, less(_, _)) ==
    LET x == order[i]
        after == {j \in i + 1 .. Len(order) : less(x, order[j])}
        to == IF after = {} THEN Len(order) ELSE Min(after) - 1
    IN  InsertAt(RemoveAt(order, i), to, x)

sort(order, less(_, _)) ==
    FoldLeft(LAMBDA s, x :
               LET kept == {i \in DOMAIN s : ~ less(x, s[i])}
                   at == IF kept = {} \/ less(x, s[1]) THEN 1 ELSE Max(kept) + 1
               IN  InsertAt(s, at, x), <<>>, order)
-----------------------------------------------------------------------------
(* The messages of a sender that can follow each other, and the gas left.  *)
executable(pending, actor) ==
    LET next(s, n) ==
          LET m == pending[n]
              t == [s EXCEPT !.gas = @ - m.limit]
          IN  IF s.stop \/ n # s.nonce \/ m.limit < m.cost THEN [s EXCEPT !.stop = TRUE]
              ELSE IF t.gas < 0 \/ s.balance < requiredFunds(m) THEN [t EXCEPT !.stop = TRUE]
              ELSE [t EXCEPT !.nonce = @ + 1, !.balance = @ - requiredFunds(m) - m.value,
                             !.msgs = Append(@, m)]
    IN  FoldLeft(next, [gas |-> BlockGas, nonce |-> actor.nonce, balance |-> actor.balance,
                        msgs |-> <<>>, stop |-> FALSE],
                 Ascending({n \in DOMAIN pending : n >= actor.nonce}))

MsgChain == [msgs |-> <<>>, reward |-> 0, limit |-> 0, perf |-> MpZero, eff |-> MpZero, bp |-> MpZero,
             offset |-> MpZero, valid |-> TRUE, merged |-> FALSE, prev |-> NoChain, next |-> NoChain]

(* The performance of a chain that grows is taken on the gas that the block
   has left, that of a new chain on its own limit. *)
splitChains(msgs, fee, gasLeft) ==
    LET put(chains, m) ==
          LET cur == chains[Len(chains)]
              reward == getGasReward(m, fee)
              perf == getGasPerf(cur.reward + reward, gasLeft)
              new == [MsgChain EXCEPT !.msgs = <<m>>, !.reward = reward, !.limit = m.limit,
                                      !.perf = getGasPerf(reward, m.limit)]
              longer == [cur EXCEPT !.msgs = Append(@, m), !.reward = @ + reward,
                                    !.limit = @ + m.limit, !.perf = perf]
          IN  IF cur.msgs # <<>> /\ Less(perf, cur.perf) THEN Append(chains, new)
              ELSE [chains EXCEPT ![Len(chains)] = longer]
    IN  FoldLeft(put, <<MsgChain>>, msgs)

(* A chain at least as good as the one before it is joined to it.          *)
mergePass(chains) ==
    FoldLeft(LAMBDA later, prev :
               LET cur == Head(later)
                   reward == prev.reward + cur.reward
                   limit == prev.limit + cur.limit
               IN  IF later = <<>> THEN <<prev>>
                   ELSE IF Less(cur.perf, prev.perf) THEN <<prev>> \o later
                   ELSE <<[prev EXCEPT !.msgs = @ \o cur.msgs, !.reward = reward, !.limit = limit,
                                       !.perf = getGasPerf(reward, limit)]>> \o Tail(later),
             <<>>, Reverse(chains))

RECURSIVE mergeChains(_)
mergeChains(chains) ==
    LET merged == mergePass(chains)
    IN  IF merged = chains THEN chains ELSE mergeChains(merged)

(* The chains of a sender by their names, linked in the order of nonces.   *)
createMessageChains(from, pending, fee, actor) ==
    LET e == executable(pending, actor)
        chains == mergeChains(splitChains(e.msgs, fee, e.gas))
        n == Len(chains)
    IN  [thrown |-> e.msgs # <<>> /\ e.gas = 0,
         chains |-> IF e.msgs = <<>> THEN Empty ELSE
           [id \in {<<from, i>> : i \in 1 .. n} |->
                [chains[id[2]] EXCEPT !.prev = IF id[2] = 1 THEN NoChain ELSE <<from, id[2] - 1>>,
                                      !.next = IF id[2] = n THEN NoChain ELSE <<from, id[2] + 1>>]]]
-----------------------------------------------------------------------------
setEffPerf(c, id) ==
    LET mc == c[id]
        eff == Times(mc.perf, mc.bp)
        prev == c[mc.prev]
        parent == Times(MpPlus(Times(eff, <<mc.limit, 1>>), Times(prev.eff, <<prev.limit, 1>>)),
                        <<1, mc.limit + prev.limit>>)
    IN  IF eff[1] > 0 /\ mc.prev # NoChain
        THEN [c EXCEPT ![id].offset = MpPlus(eff, Negated(parent)), ![id].eff = parent]
        ELSE [c EXCEPT ![id].eff = eff]

RECURSIVE invalidate(_, _)
invalidate(c, id) ==
    IF id = NoChain THEN c
    ELSE invalidate([c EXCEPT ![id].valid = FALSE, ![id].msgs = <<>>, ![id].next = NoChain], c[id].next)

RECURSIVE popMessages(_, _, _, _)
popMessages(c, id, gas, fee) ==
    LET mc == c[id]
        m == mc.msgs[Len(mc.msgs)]
        rest == [mc EXCEPT !.msgs = Front(@), !.reward = @ - getGasReward(m, fee), !.limit = @ - m.limit]
        perf == [c EXCEPT ![id] = [rest EXCEPT !.perf = getGasPerf(rest.reward, rest.limit)]]
    IN  IF mc.msgs = <<>> \/ (mc.limit <= gas /\ mc.perf[1] >= 0) THEN c
        ELSE popMessages(IF rest.limit <= 0 THEN [c EXCEPT ![id] = [rest EXCEPT !.perf = MpZero, !.eff = MpZero]]
                         ELSE IF mc.bp[1] # 0 THEN setEffPerf(perf, id)
                         ELSE perf,
                         id, gas, fee)

(* Mutant: what follows the messages that are cut off stays.               *)
trimKeepingNext(c, id, gas, fee) ==
    LET cut == popMessages(c, id, gas, fee)
    IN  [cut EXCEPT ![id].valid = @ /\ cut[id].msgs # <<>>]

trim(c, id, gas, fee) ==
    LET cut == popMessages(c, id, gas, fee)
    IN  invalidate([cut EXCEPT ![id].valid = @ /\ cut[id].msgs # <<>>, ![id].next = NoChain], c[id].next)
-----------------------------------------------------------------------------
(* s: the chains c, their order, the gas left and the messages taken.      *)
RECURSIVE greedyFrom(_, _, _)
greedyFrom(s, i, fee) ==
    LET id == s.order[i]
        mc == s.c[id]
        c == trim(s.c, id, s.gas, fee)
    IN  IF i > Len(s.order) THEN s
        ELSE IF ~ mc.valid THEN greedyFrom(s, i + 1, fee)
        ELSE IF mc.perf[1] < 0 THEN s
        ELSE IF mc.limit <= s.gas
             THEN greedyFrom([s EXCEPT !.gas = @ - mc.limit, !.out = @ \o mc.msgs], i + 1, fee)
        ELSE IF s.gas < MinGas THEN s
        ELSE IF c[id].valid
             THEN greedyFrom([s EXCEPT !.c = c, !.order = bubble(@, i, LAMBDA l, r : before(c[l], c[r]))], i, fee)
        ELSE greedyFrom([s EXCEPT !.c = c], i + 1, fee)

Sorted(s) == [s EXCEPT !.order = sort(@, LAMBDA l, r : before(s.c[l], s.c[r]))]
greedy(s, fee) == greedyFrom(Sorted(s), 1, fee)

(* The first chain to take so that this one can be, and the gas for this.  *)
RECURSIVE getDeps(_, _, _)
getDeps(c, id, gas) ==
    IF c[id].prev = NoChain \/ c[c[id].prev].merged THEN [dep |-> id, gas |-> gas]
    ELSE getDeps(c, c[id].prev, gas - c[c[id].prev].limit)

setNullEffectivePerf(mc) == IF mc.perf[1] < 0 THEN mc.perf ELSE MpZero

RECURSIVE setEffectivePerfs(_, _, _, _, _)
setEffectivePerfs(c, order, i, gas, probabilities) ==
    LET id == order[i]
    IN  IF i > Len(order) THEN c
        ELSE IF probabilities = <<>>
             THEN setEffectivePerfs([c EXCEPT ![id].eff = setNullEffectivePerf(c[id])],
                                    order, i + 1, gas, probabilities)
        ELSE IF gas < MinGas THEN setEffectivePerfs(c, order, i, BlockGas, Tail(probabilities))
        ELSE setEffectivePerfs(setEffPerf([c EXCEPT ![id].bp = Head(probabilities)], id),
                               order, i + 1, gas - c[id].limit, probabilities)

RECURSIVE mergeDeps(_, _, _)
mergeDeps(s, dep, id) ==
    LET t == [s EXCEPT !.c[dep].merged = TRUE, !.out = @ \o s.c[dep].msgs, !.gas = @ - s.c[dep].limit]
    IN  IF dep = id THEN t ELSE mergeDeps(t, s.c[dep].next, id)

RECURSIVE raiseNext(_, _)
raiseNext(c, id) ==
    IF id = NoChain \/ c[id].eff[1] <= 0 THEN c ELSE raiseNext(setEffPerf(c, id), c[id].next)

(* Chains after a merged one lose its part in their performance.           *)
resort(s, i, id) ==
    LET next == s.c[id].next
        c == raiseNext([s.c EXCEPT ![next].eff = MpPlus(@, s.c[next].offset)], s.c[next].next)
    IN  IF next = NoChain \/ s.c[next].eff[1] <= 0 THEN s
        ELSE [s EXCEPT !.c = c, !.order = SubSeq(@, 1, i - 1)
                 \o sort(SubSeq(@, i, Len(@)), LAMBDA l, r : beforeEffective(c[l], c[r]))]

RECURSIVE optimalFrom(_, _, _)
optimalFrom(s, i, fee) ==
    LET id == s.order[i]
        mc == s.c[id]
        d == getDeps(s.c, id, s.gas)
        c == trim(s.c, id, d.gas, fee)
    IN  IF i > Len(s.order) THEN s
        ELSE IF ~ mc.valid \/ mc.merged THEN optimalFrom(s, i + 1, fee)
        ELSE IF mc.perf[1] < 0 THEN s
        ELSE IF d.gas <= 0 THEN optimalFrom([s EXCEPT !.c = invalidate(@, id)], i + 1, fee)
        ELSE IF mc.limit <= d.gas THEN optimalFrom(resort(mergeDeps(s, d.dep, id), i, id), i + 1, fee)
        ELSE IF s.gas < MinGas THEN s
        ELSE IF c[id].valid
             THEN optimalFrom([s EXCEPT !.c = c, !.order = bubble(@, i, LAMBDA l, r : beforeEffective(c[l], c[r]))], i, fee)
        ELSE optimalFrom([s EXCEPT !.c = c], i + 1, fee)

optimal(s, fee, probabilities) ==
    LET order == sort(s.order, LAMBDA l, r : before(s.c[l], s.c[r]))
        c == setEffectivePerfs(s.c, order, 1, BlockGas, probabilities)
    IN  IF order = <<>> \/ s.c[order[1]].perf[1] < 0 THEN s
        ELSE optimalFrom([s EXCEPT !.c = c, !.order = sort(order, LAMBDA l, r : beforeEffective(c[l], c[r]))], 1, fee)

(* The loop that takes a chain with those before it stops in front of it; when
   there is none before, it runs off the end. *)
RECURSIVE mergeRandom(_, _, _)
mergeRandom(s, dep, id) ==
    LET t == [s EXCEPT !.c[dep].merged = TRUE, !.out = @ \o s.c[dep].msgs, !.gas = @ - s.c[dep].limit]
        next == s.c[dep].next
    IN  IF dep = NoChain THEN [s EXCEPT !.crash = TRUE]
        ELSE IF next = id THEN t ELSE mergeRandom(t, next, id)

takeRandom(s, id, fee) ==
    LET mc == s.c[id]
        d == getDeps(s.c, id, s.gas)
        c == IF d.gas <= 0 THEN invalidate(s.c, id)
             ELSE IF mc.limit > d.gas THEN trim(s.c, id, d.gas, fee)
             ELSE s.c
    IN  IF s.gas < MinGas \/ s.crash \/ mc.merged \/ ~ mc.valid \/ mc.perf[1] < 0 THEN s
        ELSE IF c[id].valid THEN mergeRandom([s EXCEPT !.c = c], d.dep, id)
        ELSE [s EXCEPT !.c = c]

(* The chains that are left, in any order. *)
optimalRandom(s, fee) ==
    LET left == {id \in DOMAIN s.c : s.c[id].valid /\ ~ s.c[id].merged /\ s.c[id].perf[1] >= 0}
    IN  {FoldLeft(LAMBDA t, id : takeRandom(t, id, fee), s, order) :
           order \in IF s.gas < MinGas THEN {<<>>} ELSE SetToSeqs(left)}
-----------------------------------------------------------------------------
(* The messages of a block on a state, given what is pending by sender; in the
   code the senders with priority, taken first, are none. *)
Joined(chains) == FoldSet(LAMBDA from, f : f @@ chains[from].chains, Empty, DOMAIN chains)
InOrder(c) == SetToSortSeq(DOMAIN c, LAMBDA x, y : x[1] < y[1] \/ (x[1] = y[1] /\ x[2] < y[2]))
Undecided(c) == [c |-> c, order |-> InOrder(c), gas |-> BlockGas, out |-> <<>>, crash |-> FALSE]

pick(s, fee, quality) ==
    {[error |-> FALSE, crash |-> t.crash, out |-> SubSeq(t.out, 1, Smaller(MaxBlockMessages, Len(t.out)))] :
       t \in IF quality = "high" THEN {greedy(s, fee)}
             ELSE optimalRandom(optimal(s, fee, BlockProbabilities), fee)}
pickFrom(chains, fee, quality) ==
    IF \E from \in DOMAIN chains : chains[from].thrown THEN {[error |-> TRUE, out |-> <<>>, crash |-> FALSE]}
    ELSE pick(Undecided(Joined(chains)), fee, quality)

selectMessages(pending, actors, fee, quality) ==
    IF ~ DOMAIN pending \subseteq DOMAIN actors THEN {[error |-> TRUE, out |-> <<>>, crash |-> FALSE]}
    ELSE pickFrom([from \in DOMAIN pending |-> createMessageChains(from, pending[from], fee, actors[from])],
                  fee, quality)

-----------------------------------------------------------------------------
(***************************************************************************)
(* MessagePool (storage/mpool): messages of the api and of gossip wait for *)
(* the chain by sender and nonce, leave when a tipset holds their nonce    *)
(* and come back when it is reverted.  A block holds BLS messages without  *)
(* their signatures, so these come back from a cache of limited size.  All *)
(* handlers run on the io thread of the node.  The tipsets are given.      *)
(***************************************************************************)

CONSTANTS
    MpTipsets, MpGenesis, MpHeight, MpParent,
    MpMessagesOf,   \* messages of a tipset, in the order they run
    MpBlocks,       \* number of blocks of a tipset
    MpFee,          \* base fee of its blocks
    MpNextFee,      \* nextBaseFee of the tipset
    MpBalance,      \* balance of senders at the genesis
    MpGossip,       \* messages that peers send
    MpKinds,        \* messages of the api; a price that is zero is estimated
    MpBlsSenders,
    MpWallet,       \* senders whose keys the node holds
    MpBlsCache, MpLocalCache,
    MpMinPremium, MpGasTarget, MpFeeGrowth, MpMaxFee, MpMinFee, MpLowerFactor,
    MpPathDepth, MpRepubLimit, MpMaxPushed, MpMaxQueue, MpPremiumBlocks

ASSUME MpoolAssumption ==
    /\ MpGenesis \in MpTipsets /\ MpBlsCache \in Nat \ {0} /\ MpLocalCache \in Nat \ {0}
    /\ \A t \in MpTipsets \ {MpGenesis} : MpHeight[MpParent[t]] < MpHeight[t]

VARIABLES mpHead, mpPending, mpBls, mpLocal, mpQueue, mpPushed, mpGone
mpVars == <<mpHead, mpPending, mpBls, mpLocal, mpQueue, mpPushed, mpGone>>
-----------------------------------------------------------------------------
(* lru_cache: what is new pushes out the last; what is got moves to the front. *)
lruInsert(cache, x, capacity) ==
    IF x \in Range(cache) THEN cache
    ELSE <<x>> \o (IF Len(cache) >= capacity THEN SubSeq(cache, 1, capacity - 1) ELSE cache)
lruGet(cache, x) == IF x \in Range(cache) THEN <<x>> \o SelectSeq(cache, LAMBDA y : y # x) ELSE cache

addTo(pending, m) == With(pending, m.from, With(GetOr(pending, m.from, Empty), m.nonce, m))
removeFrom(pending, from, nonce) ==
    LET left == Without(GetOr(pending, from, Empty), nonce)
    IN  IF from \notin DOMAIN pending THEN pending
        ELSE IF DOMAIN left = {} THEN Without(pending, from)
        ELSE With(pending, from, left)

(* The state of senders once a tipset has run. *)
RECURSIVE MpChain(_)
MpChain(t) == IF t = MpGenesis THEN MpMessagesOf[t] ELSE MpChain(MpParent[t]) \o MpMessagesOf[t]
Actors(t) ==
    [from \in DOMAIN MpBalance |->
       LET own == {i \in DOMAIN MpChain(t) : MpChain(t)[i].from = from}
       IN  [nonce |-> Cardinality(own),
            balance |-> MpBalance[from] - Total(own, LAMBDA i : requiredFunds(MpChain(t)[i]) + MpChain(t)[i].value)]]

(* Tipsets to revert and to apply between two of them, or none when too deep. *)
RECURSIVE mpFindPath(_, _, _, _)
mpFindPath(from, to, revert, apply) ==
    IF from = to THEN [found |-> TRUE, revert |-> revert, apply |-> apply]
    ELSE IF Len(apply) > MpPathDepth \/ Len(revert) > MpPathDepth
         THEN [found |-> FALSE, revert |-> <<>>, apply |-> <<>>]
    ELSE IF MpHeight[from] < MpHeight[to] THEN mpFindPath(from, MpParent[to], revert, Append(apply, to))
    ELSE mpFindPath(MpParent[from], to, Append(revert, from), apply)

AllMessages(tipsets) == FoldLeft(LAMBDA s, t : s \o MpMessagesOf[t], <<>>, tipsets)

(* What is pending as seen from another tipset, and the block made of it.
   Reading signatures moves them in the cache; that is left out here. *)
pendingAt(path) ==
    LET back(p, m) == IF m.bls /\ m \notin Range(mpBls) THEN p ELSE addTo(p, m)
    IN  FoldLeft(LAMBDA p, m : removeFrom(p, m.from, m.nonce),
                 FoldLeft(back, mpPending, AllMessages(path.revert)), AllMessages(path.apply))

select(t, quality) ==
    LET path == mpFindPath(mpHead, t, <<>>, <<>>)
    IN  IF ~ path.found THEN {[error |-> TRUE, out |-> <<>>, crash |-> FALSE]}
        ELSE selectMessages(pendingAt(path), Actors(t), MpNextFee[t], quality)

(* Mutant: what waits in the pool is not looked at. *)
nonceOfActor(from) == Actors(mpHead)[from].nonce

nonce(from) ==
    LET actor == Actors(mpHead)[from].nonce
    IN  IF from \in DOMAIN mpPending THEN Larger(actor, Max(DOMAIN mpPending[from]) + 1) ELSE actor
-----------------------------------------------------------------------------
estimateFeeCap(premium) == (MpFee[mpHead] * MpFeeGrowth[1]) \div MpFeeGrowth[2] + premium

RECURSIVE MpAncestors(_, _)
MpAncestors(t, n) == IF n = 0 \/ MpHeight[t] = 0 THEN <<>> ELSE <<MpParent[t]>> \o MpAncestors(MpParent[t], n - 1)

(* The premium at the middle of the gas of the last blocks.  The noise that
   multiplies it, rounded down, takes one or nothing from a small number. *)
estimateGasPremium(blocks) ==
    LET tipsets == MpAncestors(mpHead, 2 * blocks)
        prices == sort(AllMessages(tipsets), LAMBDA l, r : \/ r.premium < l.premium
                                                           \/ r.premium = l.premium /\ l.limit < r.limit)
        half == (MpGasTarget * FoldLeft(LAMBDA n, t : n + MpBlocks[t], 0, tipsets)) \div 2
        walk(s, m) == IF s.at < 0 THEN s
                      ELSE [at |-> s.at - m.limit, premium |-> m.premium, prev |-> s.premium]
        end == FoldLeft(walk, [at |-> half, premium |-> 0, prev |-> 0], prices)
        middle == IF end.prev # 0 THEN (end.premium + end.prev) \div 2 ELSE end.premium
        least == CASE blocks = 1 -> 2 * MpMinPremium
                   [] blocks = 2 -> (MpMinPremium * 3) \div 2
                   [] OTHER -> MpMinPremium
        premium == IF middle < MpMinPremium THEN least ELSE middle
    IN  {premium - 1, premium}

capGasFee(m) ==
    IF m.limit * m.cap <= MpMaxFee THEN m
    ELSE [m EXCEPT !.cap = MpMaxFee \div m.limit, !.premium = Smaller(@, MpMaxFee \div m.limit)]

(* The gas limit is given: what the message uses when it runs after those of
   its sender that wait is not told apart. *)
estimate(m) ==
    {capGasFee([p EXCEPT !.cap = IF @ = 0 THEN estimateFeeCap(p.premium) ELSE @]) :
       p \in {[m EXCEPT !.premium = x] : x \in IF m.premium = 0 THEN estimateGasPremium(MpPremiumBlocks) ELSE {m.premium}}}

getBaseFeeLowerBound(fee) == Larger(fee \div MpLowerFactor, MpMinFee)
-----------------------------------------------------------------------------
Slot(m) == <<m.from, m.nonce>>
Pending == UNION {Range(mpPending[from]) : from \in DOMAIN mpPending}

MpInit ==
    /\ mpHead = MpGenesis /\ mpPending = Empty /\ mpBls = <<>> /\ mpLocal = <<>>
    /\ mpQueue = <<>> /\ mpPushed = {} /\ mpGone = {}

(* add, on the pool p: its messages and signatures. *)
add(p, m) ==
    [pending |-> addTo(p.pending, m),
     bls |-> IF m.bls THEN lruInsert(p.bls, m, MpBlsCache) ELSE p.bls]

Pool == [pending |-> mpPending, bls |-> mpBls]
SetPool(p) == mpPending' = p.pending /\ mpBls' = p.bls

Gossip ==
    /\ \E m \in MpGossip :
        /\ SetPool(add(Pool, m))
        /\ mpGone' = mpGone \union {x \in mpPushed : Slot(x) = Slot(m) /\ x # m}
    /\ UNCHANGED <<mpHead, mpLocal, mpQueue, mpPushed>>

MpoolPushMessage ==
    /\ Cardinality(mpPushed) < MpMaxPushed
    /\ \E from \in MpWallet, kind \in MpKinds :
         \E m \in estimate([from |-> from, nonce |-> nonce(from), bls |-> from \in MpBlsSenders] @@ kind) :
            /\ SetPool(add(Pool, m))
            /\ mpLocal' = lruInsert(mpLocal, from, MpLocalCache)
            /\ mpPushed' = mpPushed \union {m}
    /\ UNCHANGED <<mpHead, mpQueue, mpGone>>

(* Mutant: messages of a reverted tipset are not put back.                 *)
revertMessageLost(p, m) == p

revertMessage(p, m) ==
    IF ~ m.bls THEN add(p, m)
    ELSE IF m \notin Range(p.bls) THEN p
    ELSE add([p EXCEPT !.bls = lruGet(@, m)], m)

applyMessage(p, m) == [p EXCEPT !.pending = removeFrom(@, m.from, m.nonce)]

(* The head changes of one update, in the order of its events.             *)
onHeadChange ==
    /\ \E t \in MpTipsets \ {mpHead} :
        LET path == mpFindPath(mpHead, t, <<>>, <<>>)
            reverted == FoldLeft(revertMessage, Pool, AllMessages(path.revert))
            applied == AllMessages(Reverse(path.apply))
            back == {m \in Range(AllMessages(path.revert)) : m.bls /\ m \notin Range(mpBls)}
        IN  /\ path.found
            /\ SetPool(FoldLeft(applyMessage, reverted, applied))
            /\ mpHead' = t
            /\ mpGone' = mpGone \union back
                 \union {x \in mpPushed : \E y \in Range(applied) \union Range(AllMessages(path.revert)) :
                                             Slot(x) = Slot(y) /\ x # y}
    /\ UNCHANGED <<mpLocal, mpQueue, mpPushed>>

(* The loop of republishPendingMessages; a chain that was cut moves down and
   the one in its place is passed over. *)
RECURSIVE republishFrom(_, _, _, _)
republishFrom(s, i, fee, bound) ==
    LET id == s.order[i]
        mc == s.c[id]
        low == {j \in DOMAIN mc.msgs : mc.msgs[j].cap < bound}
        taken == SubSeq(mc.msgs, 1, IF low = {} THEN Len(mc.msgs) ELSE Min(low) - 1)
        gas == s.gas - FoldLeft(LAMBDA n, m : n + m.limit, 0, taken)
        c == trim(s.c, id, s.gas, fee)
    IN  IF i > Len(s.order) \/ Len(mc.msgs) > MpRepubLimit \/ s.gas <= MinGas THEN s
        ELSE IF ~ mc.valid THEN republishFrom(s, i + 1, fee, bound)
        ELSE IF mc.limit <= s.gas
             THEN republishFrom([s EXCEPT !.gas = gas, !.out = @ \o taken,
                                   !.c = IF low = {} THEN @ ELSE invalidate(@, id)], i + 1, fee, bound)
        ELSE republishFrom([s EXCEPT !.c = c, !.order = bubble(@, i, LAMBDA l, r : before(c[l], c[r]))],
                           i + 1, fee, bound)

republishPendingMessages ==
    LET bound == getBaseFeeLowerBound(MpNextFee[mpHead])
        own == DOMAIN mpPending \intersect Range(mpLocal)
    IN  /\ \E chains \in {[from \in own |-> createMessageChains(from, mpPending[from], bound,
                                                              Actors(mpHead)[from])]} :
             /\ \A from \in own : ~ chains[from].thrown
             /\ \E out \in {republishFrom(Sorted(Undecided(Joined(chains))), 1, MpNextFee[mpHead], bound).out} :
                  /\ out # <<>> /\ Len(mpQueue) + Len(out) <= MpMaxQueue
                  /\ mpQueue' = mpQueue \o out
        /\ UNCHANGED <<mpHead, mpPending, mpBls, mpLocal, mpPushed, mpGone>>

publishFromQueue ==
    /\ mpQueue # <<>> /\ mpQueue' = Tail(mpQueue)
    /\ UNCHANGED <<mpHead, mpPending, mpBls, mpLocal, mpPushed, mpGone>>

MpNext == Gossip \/ MpoolPushMessage \/ onHeadChange \/ republishPendingMessages \/ publishFromQueue
MpSpec == MpInit /\ [][MpNext]_mpVars
-----------------------------------------------------------------------------
(* Messages are kept under their sender and nonce, no sender has an empty
   entry, and caches keep their sizes. *)
MpTypeOK ==
    /\ mpHead \in MpTipsets
    /\ \A from \in DOMAIN mpPending :
         /\ DOMAIN mpPending[from] # {}
         /\ \A n \in DOMAIN mpPending[from] : Slot(mpPending[from][n]) = <<from, n>>
    /\ Len(mpBls) <= MpBlsCache /\ Len(mpLocal) <= MpLocalCache

(* A message that the api took is on the chain of the head or waits for it,
   whatever forks the head went through, until another message of the same
   nonce took its place or the signature that a block does not hold was
   pushed out of the cache. *)
PushedIsKept == \A m \in mpPushed \ mpGone : m \in Pending \union Range(MpChain(mpHead))

(* Whatever tipset a block is made on, the messages picked for it run: those
   of one sender have the nonces that follow its nonce there, in order, and
   all fit in the gas of a block.  optimalRandom finds no chain to run on. *)
SelectionIsExecutable ==
    \A t \in MpTipsets, quality \in {"high", "low"} : \A r \in select(t, quality) :
        /\ ~ r.crash
        /\ \A from \in DOMAIN MpBalance :
             LET own == SelectSeq(r.out, LAMBDA m : m.from = from)
             IN  \A i \in DOMAIN own : own[i].nonce = Actors(t)[from].nonce + i - 1
        /\ FoldLeft(LAMBDA n, m : n + m.limit, 0, r.out) <= BlockGas
=============================================================================
