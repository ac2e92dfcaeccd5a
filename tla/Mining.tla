------------------------------- MODULE Mining -------------------------------
(***************************************************************************)
(* What a miner proves: the rules a block must satisfy, the loop that      *)
(* mines blocks, and the window proofs of spacetime.                       *)
(***************************************************************************)
EXTENDS ActorBase, FiniteSets, TLC

(***************************************************************************)
(* What makes a block valid, and what the node gives its miner to make     *)
(* one: the block validator, the base information of a round, the block    *)
(* producer, the chain weight and the drand schedule.                      *)
(*                                                                         *)
(* The chain is a constant tree of tipsets with the actor state each one   *)
(* leaves behind.  Cryptography is symbolic: a signature or VRF proof      *)
(* names its key and its input, a PoSt names its sectors and randomness.   *)
(***************************************************************************)

CONSTANTS BkTipsets,        \* tipsets of the tree
          BkGenesis,        \* the tipset of height 0
          BkParent,         \* tipset -> its parent tipset
          BkHeight,         \* tipset -> its height
          BkWinCounts,      \* tipset -> sum of its blocks' win counts
          BkState,          \* tipset -> what its execution left in the state
          BkSelect,         \* tipset -> the messages the pool selects on it
          BkWins,           \* heights whose election the miner's key wins
          BkMiners,         \* kConsensusMinerMinMiners
          BkMinPower,       \* kConsensusMinerMinPower
          BkLookback,       \* kChainFinality or the earlier lookback
          BkVersion0,       \* whether the power actor is of version 0
          BkNetwork,        \* network version of the instance
          BkSmoke,          \* kUpgradeSmokeHeight
          BkGasLimit,       \* kBlockGasLimit
          BkDelay,          \* kBlockDelaySecs
          BkDrandPeriod,    \* drand_period
          BkDrandAhead      \* fc_genesis - drand_genesis

ASSUME BlockRulesAssumption ==
  /\ BkGenesis \in BkTipsets /\ BkHeight[BkGenesis] = 0
  /\ \A t \in BkTipsets \ {BkGenesis} : BkHeight[BkParent[t]] < BkHeight[t]
  /\ BkDelay > 0 /\ BkDrandPeriod > 0 /\ BkDrandAhead >= 0

-----------------------------------------------------------------------------
(* The chain: lookback, beacons, weight. *)

\* The tipset of the branch that ends in t which is the last at or below h.
findBelow[t \in BkTipsets] ==
  [h \in 0 .. 99 |-> IF BkHeight[t] <= h THEN t ELSE findBelow[BkParent[t]][h]]

getLookbackTipSetForRound(t, epoch) ==
  findBelow[t][Larger(0, epoch - BkLookback)]

maxRound(epoch) == ((epoch - 1) * BkDelay + BkDrandAhead) \div BkDrandPeriod

beaconEntriesForBlock(epoch, prev) ==
  LET max == maxRound(epoch)
      round == IF prev = 0 THEN max ELSE prev + 1
  IN IF max = prev THEN <<>> ELSE [i \in 1 .. (max - round + 1) |-> round + i - 1]

\* The rounds that the blocks of t carry, and the newest round at or below t.
Beacons[t \in BkTipsets] ==
  IF t = BkGenesis THEN [own |-> <<0>>, latest |-> 0]
  ELSE LET prev == Beacons[BkParent[t]].latest
           own == beaconEntriesForBlock(BkHeight[t], prev)
       IN [own |-> own, latest |-> IF own = <<>> THEN prev ELSE own[Len(own)]]

latestBeacon(t) == Beacons[t].latest

\* The position of the highest bit of a positive number.
msb[n \in 1 .. 4096] == IF n = 1 THEN 0 ELSE 1 + msb[n \div 2]

calculateWeight[t \in BkTipsets] ==
  IF t = BkGenesis THEN 0
  ELSE LET log == 256 * msb[BkState[BkParent[t]].total]
       IN calculateWeight[BkParent[t]] + log + (log * BkWinCounts[t]) \div 10

\* Every block of a tipset has the time of its height, so the oldest has it too.
getMinTimestamp(t) == BkHeight[t] * BkDelay

-----------------------------------------------------------------------------
(* Election. *)

BlockRand(height, beacons, prev, parent) ==
  LET beacon == IF beacons = <<>> THEN prev ELSE beacons[Len(beacons)]
  IN [ election |-> <<"election", beacon, height, 0>>,
       ticket   |-> <<"ticket", beacon, height - 1,
                      IF height > BkSmoke THEN parent ELSE 0>>,
       win      |-> <<"win", beacon, height, 0>> ]

Vrf(key, rand) == [key |-> key, rand |-> rand]

computeWinCount(vrf, power, total) ==
  IF power > 0 /\ vrf.rand[3] \in BkWins THEN 1 ELSE 0

minerHasMinPower(state) ==
  LET power == IF BkVersion0 THEN state.power ELSE state.raw
  IN IF state.miners < BkMiners THEN power # 0 ELSE power > BkMinPower

\* The power of the lookback is read from the state before it, its debt and
\* faults from the state of the parent.
minerEligibleToMine(lookback, parent) ==
  LET before == BkState[BkParent[lookback]]
      now == BkState[parent]
  IN /\ minerHasMinPower(before)
     /\ BkNetwork <= 3 \/ ( /\ now.claim /\ now.power > 0
                            /\ now.debt = 0
                            /\ BkHeight[parent] > now.faultUntil )

getSectorsForWinningPoSt(state, rand) ==
  LET usable == {s.id : s \in {x \in state.sectors :
                   ~x.faulty /\ (BkNetwork < 7 \/ (~x.terminated /\ ~x.unproven))}}
      ids == Ascending(usable)
  IN IF usable = {} THEN {} ELSE {ids[1 + (rand[3] % Len(ids))]}

-----------------------------------------------------------------------------
(* What the node answers its miner. *)

NoInfo == [none |-> TRUE]

\* MinerGetBaseInfo once the beacons of the round are there.
MinerGetBaseInfo(t, epoch, beacons) ==
  LET lookback == getLookbackTipSetForRound(t, epoch)
      state == BkState[lookback]
      rand == BlockRand(epoch, beacons, latestBeacon(t), t)
      sectors == getSectorsForWinningPoSt(state, rand.win)
  IN IF ~state.claim \/ sectors = {} THEN NoInfo
     ELSE [ none |-> FALSE, prev |-> latestBeacon(t), beacons |-> beacons,
            sectors |-> sectors, power |-> state.power, total |-> state.total,
            worker |-> state.worker, eligible |-> minerEligibleToMine(lookback, t) ]

IsBls(m) == m.bls
IsSecp(m) == ~m.bls

generate(t) ==
  [ ticket |-> t.ticket, election |-> t.election, beacons |-> t.beacons,
    post |-> t.post, parents |-> t.parents, height |-> t.height,
    timestamp |-> t.timestamp, executed |-> t.parents,
    weight |-> calculateWeight[t.parents], fee |-> t.parents,
    bls |-> SelectSeq(t.messages, IsBls), secp |-> SelectSeq(t.messages, IsSecp) ]

\* The worker who signs is the one of the parent's state.
MinerCreateBlock(t) ==
  [header |-> generate(t), sig |-> BkState[t.parents].worker]

-----------------------------------------------------------------------------
(* The validator. *)

validateMessage(v, m) ==
  LET gas == v.gas + m.gas
  IN [ ok |-> v.ok /\ gas <= BkGasLimit /\ m.from \in DOMAIN v.nonces
                   /\ m.nonce = v.nonces[m.from],
       gas |-> gas,
       nonces |-> IF m.from \in DOMAIN v.nonces
                  THEN [v.nonces EXCEPT ![m.from] = @ + 1] ELSE v.nonces ]

validateMessages(header) ==
  LET start == [ok |-> TRUE, gas |-> 0, nonces |-> BkState[header.parents].nonces]
  IN /\ FoldLeft(validateMessage, start, header.bls \o header.secp).ok
     /\ BkNetwork < 14 \/ \A i \in DOMAIN header.secp : ~header.secp[i].bls

validate(block) ==
  LET b == block.header
      parent == b.parents
      lookback == getLookbackTipSetForRound(parent, b.height)
      state == BkState[lookback]
      rand == BlockRand(b.height, b.beacons, latestBeacon(parent), parent)
  IN /\ b.height > BkHeight[parent]
     /\ b.timestamp = getMinTimestamp(parent) + (b.height - BkHeight[parent]) * BkDelay
     /\ b.fee = parent
     /\ b.weight = calculateWeight[parent]
     /\ b.executed = parent
     /\ validateMessages(b)
     /\ BkState[parent].claim
     /\ b.election.wins >= 1
     /\ minerEligibleToMine(lookback, parent)
     /\ b.election.vrf = Vrf(state.worker, rand.election)
     /\ b.election.wins = computeWinCount(b.election.vrf, state.power, state.total)
     /\ block.sig = state.worker
     /\ b.ticket = Vrf(state.worker, rand.ticket)
     /\ b.post = [sectors |-> getSectorsForWinningPoSt(state, rand.win), rand |-> rand.win]

-----------------------------------------------------------------------------
(***************************************************************************)
(* The block miner: a chain of timers and asynchronous calls that waits    *)
(* for a parent, for the beacon of the round and for the round's base      *)
(* information, then prepares a block and submits it when its time comes.  *)
(* Any error restarts the chain after a pause.                             *)
(*                                                                         *)
(* A continuation (what a timer or an answer will run) is a member of the  *)
(* sequence "loops".  The drand client answers each round once it is due,  *)
(* and keeps the rounds that it verified.                                  *)
(***************************************************************************)

CONSTANTS MnPropagation,    \* propagation
          MnMaxFaults,      \* bound: failing calls
          MnMaxNow          \* bound: the clock

ASSUME MiningAssumption == MnPropagation \in Nat /\ MnMaxNow \in Nat

VARIABLES mnNow,    \* UTC clock, in seconds since genesis
          mnHead,   \* head of the node's chain
          mn,       \* fields of Mining, and its continuations
          mnCache,  \* BeaconizerImpl::cache_: rounds that were verified
          mnMade    \* blocks submitted, in order
mnVars == <<mnNow, mnHead, mn, mnCache, mnMade>>

NoTs == 0

height(m) == BkHeight[m.ts] + m.skip + 1

MayFail(m) == IF m.faults < MnMaxFaults THEN {[m EXCEPT !.faults = @ + 1]} ELSE {}

\* A time in the past is due at once.
wait(m, at, what) ==
  [m EXCEPT !.loops = Append(@, [at |-> Larger(at, mnNow)] @@ what)]

reboot(m, time) == wait(m, mnNow + time, [pc |-> "parent"])

FailTo(m, time) == {reboot(f, time) : f \in MayFail(m)}

bestParent(m) ==
  IF m.ts = NoTs \/ ( mnHead # m.ts /\ calculateWeight[mnHead] > m.weight )
  THEN [m EXCEPT !.ts = mnHead, !.weight = calculateWeight[mnHead], !.skip = 0]
  ELSE m

waitParent(m) ==
  LET b == bestParent(m)
  IN FailTo(m, 5) \union
       {wait(b, getMinTimestamp(b.ts) + MnPropagation, [pc |-> "beacon"])}

-----------------------------------------------------------------------------
(* Preparing and submitting. *)

NoBlock == [none |-> TRUE]

\* The template of the block, made with the parent and the skip of now.
template(m) ==
  LET rand == BlockRand(height(m), m.info.beacons, m.info.prev, m.ts)
      vrf == Vrf(m.info.worker, rand.election)
  IN [ none |-> FALSE, parents |-> m.ts, height |-> height(m), timestamp |-> 0,
       ticket |-> Vrf(m.info.worker, rand.ticket),
       election |-> [wins |-> computeWinCount(vrf, m.info.power, m.info.total),
                     vrf |-> vrf],
       beacons |-> m.info.beacons, messages |-> BkSelect[m.ts],
       post |-> [sectors |-> m.info.sectors, rand |-> rand.win] ]

prepareBlock(m) ==
  IF m.info.none \/ ~m.info.eligible \/ template(m).election.wins = 0
  THEN NoBlock ELSE template(m)

\* A mutation: the block's time ignores the skipped rounds.
prepareUnskipped(m) ==
  LET time == getMinTimestamp(m.ts) + BkDelay
      block == prepareBlock(m)
  IN IF block.none
     THEN wait([m EXCEPT !.skip = @ + 1], time + MnPropagation, [pc |-> "parent"])
     ELSE wait(m, time, [pc |-> "submit", block |-> [block EXCEPT !.timestamp = time]])

prepare(m) ==
  LET time == getMinTimestamp(m.ts) + (m.skip + 1) * BkDelay
      block == prepareBlock(m)
  IN IF block.none
     THEN wait([m EXCEPT !.skip = @ + 1], time + MnPropagation, [pc |-> "parent"])
     ELSE wait(m, time, [pc |-> "submit", block |-> [block EXCEPT !.timestamp = time]])

\* A mutation: the round is not remembered.
onInfoForgetting(m, c) ==
  LET given == [m EXCEPT !.info = MinerGetBaseInfo(c.key, c.height, c.beacons)]
  IN FailTo(given, 1) \union {prepare(given)}

\* The answer of MinerGetBaseInfo; "last_mined" is set once prepared.
onInfo(m, c) ==
  LET given == [m EXCEPT !.info = MinerGetBaseInfo(c.key, c.height, c.beacons)]
  IN FailTo(given, 1) \union {[prepare(given) EXCEPT !.last = c.mined]}

getBaseInfo(m, cache) ==
  LET beacons == beaconEntriesForBlock(height(m), latestBeacon(m.ts))
      c == [ pc |-> "info", key |-> m.ts, height |-> height(m), beacons |-> beacons,
             mined |-> <<m.ts, m.skip>>, left |-> Range(beacons) \ cache ]
  IN FailTo(m, 1) \union
       (IF c.left = {} THEN onInfo(m, c) ELSE {wait(m, mnNow, c)})

waitInfo(m, cache) ==
  LET b == bestParent(m)
  IN FailTo(m, 1) \union
       (IF b.last = <<b.ts, b.skip>>
        THEN {wait(b, mnNow + BkDelay, [pc |-> "parent"])}
        ELSE getBaseInfo(b, cache))

-----------------------------------------------------------------------------
(* Actions.  A handler takes its continuation out of "loops".              *)

Without_(i) == [mn EXCEPT !.loops = RemoveAt(@, i)]

Due(i, pc) == i \in DOMAIN mn.loops /\ mn.loops[i].pc = pc /\ mn.loops[i].at <= mnNow

RoundTime(round) == round * BkDrandPeriod - BkDrandAhead

WaitParent(i) ==
  /\ Due(i, "parent")
  /\ mn' \in waitParent(Without_(i))
  /\ UNCHANGED <<mnNow, mnHead, mnCache, mnMade>>

\* BeaconGetEntry: a cached round is answered in the call.
WaitBeacon(i) ==
  /\ Due(i, "beacon")
  /\ LET m == Without_(i)
         round == maxRound(height(m))
     IN mn' \in IF round \in mnCache THEN waitInfo(m, mnCache)
                ELSE {wait(m, RoundTime(round), [pc |-> "entry", round |-> round])}
  /\ UNCHANGED <<mnNow, mnHead, mnCache, mnMade>>

\* BeaconizerImpl::entry answers with a verified entry, or with an error.
BeaconEntry(i) ==
  /\ Due(i, "entry")
  /\ LET m == Without_(i)
         cache == mnCache \union {mn.loops[i].round}
     IN \/ mn' \in FailTo(m, 1) /\ mnCache' = mnCache
        \/ mn' \in waitInfo(m, cache) /\ mnCache' = cache
  /\ UNCHANGED <<mnNow, mnHead, mnMade>>

\* AsyncAll: the first error or the last success of the round's entries.
InfoEntry(i) ==
  /\ Due(i, "info")
  /\ \E round \in mn.loops[i].left :
       /\ RoundTime(round) <= mnNow
       /\ LET m == Without_(i)
              c == [mn.loops[i] EXCEPT !.left = @ \ {round}]
          IN \/ mn' \in FailTo(m, 1) /\ mnCache' = mnCache
             \/ /\ mn' \in IF c.left = {} THEN onInfo(m, c)
                           ELSE {[mn EXCEPT !.loops[i] = c]}
                /\ mnCache' = mnCache \union {round}
  /\ UNCHANGED <<mnNow, mnHead, mnMade>>

\* The loop goes on before the result of SyncSubmitBlock is looked at: when
\* that is an error, reboot starts a second one.
Submit(i) ==
  /\ Due(i, "submit")
  /\ LET m == Without_(i)
         block == MinerCreateBlock(mn.loops[i].block)
     IN \/ mn' \in FailTo(m, 1) /\ mnMade' = mnMade
        \/ mn' \in waitParent(m) /\ mnMade' = Append(mnMade, block)
        \/ /\ \E w \in waitParent(m) : mn' \in FailTo([w EXCEPT !.forked = TRUE], 1)
           /\ mnMade' = Append(mnMade, block)
  /\ UNCHANGED <<mnNow, mnHead, mnCache>>

MoveHead(t) ==
  /\ calculateWeight[t] > calculateWeight[mnHead]
  /\ getMinTimestamp(t) <= mnNow
  /\ mnHead' = t
  /\ UNCHANGED <<mnNow, mn, mnCache, mnMade>>

TickClock ==
  /\ mnNow < MnMaxNow
  /\ mnNow' = mnNow + 1
  /\ UNCHANGED <<mnHead, mn, mnCache, mnMade>>

\* Mining::start calls waitParent.
MnInit ==
  /\ mnNow = 0 /\ mnHead = BkGenesis /\ mnCache = {} /\ mnMade = <<>>
  /\ mn = [ ts |-> NoTs, weight |-> 0, skip |-> 0, last |-> <<NoTs, 0>>,
            info |-> NoInfo, faults |-> 0, forked |-> FALSE,
            loops |-> <<[at |-> 0, pc |-> "parent"]>> ]

MnNext ==
  \/ \E i \in DOMAIN mn.loops :
       \/ WaitParent(i) \/ WaitBeacon(i) \/ BeaconEntry(i)
       \/ InfoEntry(i) \/ Submit(i)
  \/ \E t \in BkTipsets : MoveHead(t)
  \/ TickClock

MnSpec == MnInit /\ [][MnNext]_mnVars

-----------------------------------------------------------------------------
MnTypeOK ==
  /\ mnNow \in 0 .. MnMaxNow /\ mnHead \in BkTipsets
  /\ mn.ts \in BkTipsets \union {NoTs} /\ mn.skip \in Nat
  /\ \A i \in DOMAIN mn.loops :
       mn.loops[i].pc \in {"parent", "beacon", "entry", "info", "submit"}

\* What Mining::submit sends is a block that BlockValidator::validate accepts,
\* whatever heads, skipped rounds and retries came between asking for the base
\* information of the round and making the block.
MinedIsValid == \A i \in DOMAIN mnMade : validate(mnMade[i])

\* "last_mined" makes the miner submit at most one block for a parent and a
\* height.  The timers and answers never end its loop, and fork it only when
\* SyncSubmitBlock fails, once for each failure; two loops may submit twice.
OneBlockPerRound ==
  /\ mn.loops # <<>> /\ Len(mn.loops) <= 1 + (IF mn.forked THEN mn.faults ELSE 0)
  /\ \A i, j \in DOMAIN mnMade :
       i # j /\ ~mn.forked => <<mnMade[i].header.parents, mnMade[i].header.height>>
                  # <<mnMade[j].header.parents, mnMade[j].header.height>>

-----------------------------------------------------------------------------
(***************************************************************************)
(* WindowPoStScheduler: on every head change it prepares the proofs of the *)
(* next deadline whose challenge is known, declares recovered (and, before *)
(* the Ignition upgrade, new) faults two deadlines ahead, and submits the  *)
(* proofs of the open deadline once its opening is buried.                 *)
(*                                                                         *)
(* The chain is a sequence: position e holds the tipset of epoch e, or 0   *)
(* for a null round.  A tipset is known by the chain that ends in it, and  *)
(* randomness drawn at an epoch is the tipset at or below it.              *)
(***************************************************************************)

CONSTANTS WpDeadlines,      \* kWPoStPeriodDeadlines
          WpWindow,         \* kWPoStChallengeWindow
          WpLookback,       \* kWPoStChallengeLookback
          kStartConfidence,
          WpStart,          \* first epoch of the first proving period
          WpIgnition,       \* kUpgradeIgnitionHeight
          WpPartitions,     \* deadline -> sequence of partitions on chain
          WpPartSize,       \* part_size
          WpForks,          \* names of forks, numbers above 0
          WpBad,            \* the sets of sectors that may be unprovable
          WpCanFail,        \* whether the prover and the API may fail
          WpMaxReorg,       \* bound: tipsets reverted at once
          WpLastEpoch       \* bound: the chain's length

ASSUME WindowPostAssumption ==
  /\ WpDeadlines > 1 /\ WpWindow > kStartConfidence /\ WpLookback > 0
  /\ \A d \in DOMAIN WpPartitions : Len(WpPartitions[d]) <= WpPartSize

WpPeriod == WpDeadlines * WpWindow      \* kWPoStProvingPeriod

VARIABLES wpChain,  \* the chain of the node
          wpBad,    \* sectors that checkProvable calls bad
          wpCache,  \* cache: opening epoch -> Cached
          wpSent,   \* messages pushed by the last call
          wpPosted  \* opening epoch -> its last submission, and how often sent
wpVars == <<wpChain, wpBad, wpCache, wpSent, wpPosted>>

-----------------------------------------------------------------------------
(* Deadlines. *)

Deadline(start, index, now) ==
  LET open == start + index * WpWindow
  IN [ start |-> start, index |-> index, now |-> now, open |-> open,
       close |-> open + WpWindow, challenge |-> open - WpLookback ]

\* The deadline of the miner's state at an epoch (StateMinerProvingDeadline).
ProvingDeadline(now) ==
  IF now < WpStart THEN Deadline(WpStart, 0, now)
  ELSE LET since == now - WpStart
       IN Deadline(WpStart + WpPeriod * (since \div WpPeriod),
                   (since % WpPeriod) \div WpWindow, now)

periodStarted(d) == d.now >= d.start

\* After the last deadline the period start moves by the number of deadlines.
nextDeadline(d) ==
  IF d.index + 1 = WpDeadlines THEN Deadline(d.start + WpDeadlines, 0, d.now)
  ELSE Deadline(d.start, d.index + 1, d.now)

RECURSIVE uncached(_, _)
uncached(cache, d) ==
  IF d.open \in DOMAIN cache THEN uncached(cache, nextDeadline(d)) ELSE d

-----------------------------------------------------------------------------
(* Proofs and declarations. *)

Ticket(chain, epoch) ==
  SubSeq(chain, 1, Max({e \in 1 .. Larger(1, epoch) : chain[e] # 0}))

checkSectors(sectors, ok) == IF ok THEN sectors \ wpBad ELSE sectors \cap wpBad

\* The partitions with sectors to declare, as pairs of partition and sectors.
declared(index, faults) ==
  LET parts == WpPartitions[index]
      of(p) == IF faults THEN checkSectors(parts[p].live \ parts[p].faulty, FALSE)
               ELSE checkSectors(parts[p].faulty \ parts[p].recovering, TRUE)
  IN {<<p, of(p)>> : p \in {q \in DOMAIN parts : of(q) # {}}}

declare(index, faults) ==
  IF declared(index, faults) = {} THEN <<>>
  ELSE <<[ method |-> IF faults THEN "DeclareFaults" ELSE "DeclareFaultsRecovered",
           deadline |-> index, sectors |-> declared(index, faults) ]>>

declarations(d, epoch) ==
  LET index == (d.index + 2) % WpDeadlines
  IN declare(index, FALSE) \o (IF epoch <= WpIgnition THEN declare(index, TRUE) ELSE <<>>)

\* The partitions that one proof covers, with the sectors skipped in each.
\* Partitions with no good sector are left out of it.
prove(d, rand) ==
  LET parts == WpPartitions[d.index]
      to_prove(p) == (parts[p].live \ parts[p].faulty) \union parts[p].recovering
      good(p) == checkSectors(to_prove(p), TRUE)
      covered == {<<p, to_prove(p) \ good(p)>> : p \in {q \in DOMAIN parts : good(q) # {}}}
  IN IF covered = {} THEN <<>>
     ELSE <<[deadline |-> d.index, partitions |-> covered, rand |-> rand]>>

\* A deadline is proved when its challenge epoch is on the chain.
prepareDeadline(chain, cache, d) ==
  LET cached(params) == (d.open :> [deadline |-> d, params |-> params, submitted |-> 0]) @@ cache
  IN {cached(prove(d, Ticket(chain, d.challenge)))} \union
       (IF WpCanFail THEN {cached(<<>>)} ELSE {})

-----------------------------------------------------------------------------
(* Submission. *)

\* A mutation: a submission is never taken back.
resetRevertedNever(c, open, revert) == c

resetReverted(c, open, revert) ==
  IF revert # 0 /\ revert < open THEN [c EXCEPT !.submitted = 0] ELSE c

\* A mutation: the opening needs not be buried.
submitsAtOnce(c, open, epoch) ==
  /\ c.submitted < Len(c.params)
  /\ epoch < c.deadline.close /\ epoch >= open

submits(c, open, epoch) ==
  /\ c.submitted < Len(c.params)
  /\ epoch < c.deadline.close /\ epoch >= open + kStartConfidence

\* Both passes of the loop over the cache: what it leaves, what it pushes.
submitCached(chain, cache, revert) ==
  LET epoch == Len(chain)
      reset == [o \in DOMAIN cache |-> resetReverted(cache[o], o, revert)]
      due == {o \in DOMAIN cache : submits(reset[o], o, epoch)}
      post(o) == [i \in DOMAIN reset[o].params |->
                    [ method |-> "SubmitWindowedPoSt", epoch |-> epoch, open |-> o,
                      deadline |-> reset[o].params[i].deadline,
                      commit |-> Ticket(chain, o), rand |-> reset[o].params[i].rand ]]
      cat(posts, o) == posts \o post(o)
  IN [ cache |-> [o \in DOMAIN cache |->
                    IF o \in due THEN [reset[o] EXCEPT !.submitted = @ + 1] ELSE reset[o]],
       sent |-> FoldLeft(cat, <<>>, Ascending(due)) ]

\* onChange, with the tipset reverted last (0 if none) and the new head.
onChange(chain, revert) ==
  LET d0 == ProvingDeadline(Len(chain))
      d == uncached(wpCache, d0)
      ready == Len(chain) >= d.challenge
      caches == IF ready THEN prepareDeadline(chain, wpCache, d) ELSE {wpCache}
      told == IF ready THEN declarations(d, Len(chain)) ELSE <<>>
  IN IF ~periodStarted(d0) THEN {[cache |-> wpCache, sent |-> <<>>]}
     ELSE {LET s == submitCached(chain, c, revert)
           IN [cache |-> s.cache, sent |-> told \o s.sent] : c \in caches}

-----------------------------------------------------------------------------
(* Actions. *)

\* The history of submissions after one more.
posted(history, chain, revert, m) ==
  LET old == GetOr(history, m.open, [times |-> 0])
  IN With(history, m.open,
          [ commit |-> m.commit, below |-> Ticket(chain, m.open - 1),
            times |-> IF revert # 0 /\ revert < m.open THEN 1 ELSE old.times + 1 ])

IsPost(m) == m.method = "SubmitWindowedPoSt"

\* The chain moves by reverting "back" epochs and applying new ones, the
\* last of them not null; the scheduler gets one batch of changes.
HeadChange ==
  \E back \in 0 .. WpMaxReorg, fork \in WpForks, nulls \in 0 .. 1, more \in 0 .. WpMaxReorg :
    LET keep == Len(wpChain) - back
        dropped == {e \in (keep + 1) .. Len(wpChain) : wpChain[e] # 0}
        chain == SubSeq(wpChain, 1, keep) \o [i \in 1 .. nulls |-> 0]
                   \o [i \in 1 .. more + 1 |-> fork]
        revert == IF back = 0 THEN 0 ELSE Min(dropped)
    IN /\ keep >= 1
       /\ back = 0 \/ (dropped # {} /\ fork # wpChain[Min(dropped)])
       /\ Len(chain) >= Len(wpChain) /\ Len(chain) <= WpLastEpoch
       /\ back > 0 \/ more = 0
       /\ wpChain' = chain
       /\ \E r \in onChange(chain, revert) :
            /\ wpCache' = r.cache
            /\ wpSent' = r.sent
            /\ wpPosted' = LET add(h, m) == posted(h, chain, revert, m)
                           IN FoldLeft(add, wpPosted, SelectSeq(r.sent, IsPost))
       /\ UNCHANGED wpBad

\* Sectors become unprovable or provable again.
Disk(bad) == bad # wpBad /\ wpBad' = bad /\ UNCHANGED <<wpChain, wpCache, wpSent, wpPosted>>

WpInit ==
  /\ wpChain = <<CHOOSE f \in WpForks : \A g \in WpForks : f <= g>>
  /\ wpBad \in WpBad /\ wpCache = Empty /\ wpSent = <<>> /\ wpPosted = Empty

WpNext == HeadChange \/ \E bad \in WpBad : Disk(bad)

WpSpec == WpInit /\ [][WpNext]_wpVars

-----------------------------------------------------------------------------
WpTypeOK ==
  /\ Len(wpChain) \in 1 .. WpLastEpoch /\ wpBad \in WpBad
  /\ \A o \in DOMAIN wpCache : wpCache[o].deadline.open = o /\ wpCache[o].submitted \in Nat

OnChain(ticket) == IsPrefix(ticket, wpChain)

\* While a deadline whose proof is ready is open and its opening is buried by
\* kStartConfidence, its proof was submitted, with the ticket that the chain now
\* has at the opening (a reorganisation that replaces exactly the tipset of the
\* opening epoch excepted: "revert->epoch() < open" does not see it), and no
\* head change makes the scheduler submit it again until the chain is reverted to
\* before the opening.
PostsHoldOnChain ==
  LET now == Len(wpChain)
  IN /\ \A o \in DOMAIN wpCache :
          LET c == wpCache[o] IN
          (/\ c.params # <<>>
           /\ now >= o + kStartConfidence /\ now < c.deadline.close)
            => /\ o \in DOMAIN wpPosted
               /\ \/ wpPosted[o].commit = Ticket(wpChain, o)
                  \/ OnChain(wpPosted[o].below)
     /\ \A o \in DOMAIN wpPosted : wpPosted[o].times = 1
     /\ \A i \in DOMAIN wpSent :
          IsPost(wpSent[i]) => wpSent[i].epoch >= wpSent[i].open + kStartConfidence

\* The windows the scheduler works on are those of DeadlineInfo: non-overlapping
\* ranges [Open, Close).
WindowsDisjoint ==
  \A o, p \in DOMAIN wpCache : o < p => wpCache[o].deadline.close <= p
=============================================================================
