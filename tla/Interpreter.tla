---------------------------- MODULE Interpreter -----------------------------
(***************************************************************************)
(* The interpreter of tipsets and the virtual machine that it runs         *)
(* messages on.                                                            *)
(***************************************************************************)
EXTENDS ActorBase, FiniteSets, TLC

(***************************************************************************)
(* The virtual machine (core/vm): StateTreeImpl with its nested            *)
(* transactions, Execution that charges gas and sends messages, the calls  *)
(* that RuntimeImpl gives to actors, and Env that applies one message.     *)
(* A step of the machine is an operator on an execution record             *)
(*   tx, base  the layers of the state tree and the tree they lie over     *)
(*   used, limit, origin, nonce, created  the fields of Execution          *)
(*   err, ret  the outcome: "" or an error, and the value of the last call *)
(* An address is <<"id", n>>, <<"key", name>> or <<"exec", key, nonce, n>>; *)
(* the head of an actor is its state itself, cids being of content.        *)
(***************************************************************************)

CONSTANTS
    VmPrice,     \* of Pricelist: compute prices, and the price of a stored unit
    VmVersion,   \* network version
    VmPrograms,  \* what methods of miners and multisigs do with the runtime
    VmReward     \* this_epoch_reward * win_count / kExpectedLeadersPerEpoch

kSystem == <<"id", 0>>
kInit == <<"id", 1>>
kReward == <<"id", 2>>
kCron == <<"id", 3>>
kBurnt == <<"id", 99>>
NoId == -1
NoActor == [code |-> "none", head |-> <<>>, nonce |-> 0, balance |-> 0]
Id(n) == <<"id", n>>
isId(a) == a[1] = "id"
isKeyType(a) == a[1] = "key"

Fail(x, error) == [x EXCEPT !.err = error]
VmReturn(x, value) == [x EXCEPT !.ret = value]
Then(x, f(_)) == IF x.err # "" THEN x ELSE f(x)
-----------------------------------------------------------------------------
(* The state tree.  A read is kept in the top layer, like a write.         *)
NewLayer == [actors |-> Empty, removed |-> {}, lookup |-> Empty]
txBegin(x) == [x EXCEPT !.tx = Append(@, NewLayer)]
txRevert(x) == [x EXCEPT !.tx[Len(x.tx)] = NewLayer]

txEnd(x) ==
    LET top == Last(x.tx)
        below == x.tx[Len(x.tx) - 1]
    IN  [x EXCEPT !.tx = Append(SubSeq(@, 1, Len(@) - 2),
            [actors |-> top.actors @@ below.actors,
             removed |-> (below.removed \ DOMAIN top.actors) \cup top.removed,
             lookup |-> top.lookup @@ below.lookup])]

setActor(x, id, actor) ==
    [x EXCEPT !.tx[Len(x.tx)] = [@ EXCEPT !.actors = With(@, id, actor), !.removed = @ \ {id}]]

getById(x, id) ==
    LET found == {i \in DOMAIN x.tx : id \in x.tx[i].removed \cup DOMAIN x.tx[i].actors}
    IN  IF found # {} THEN LET l == x.tx[Max(found)]
                           IN  VmReturn(x, IF id \in l.removed THEN NoActor ELSE l.actors[id])
        ELSE IF id \in DOMAIN x.base THEN VmReturn(setActor(x, id, x.base[id]), x.base[id])
        ELSE VmReturn(x, NoActor)

lookupInit(y, address, map) ==
    IF address \notin DOMAIN map THEN VmReturn(y, NoId)
    ELSE VmReturn([y EXCEPT !.tx[Len(y.tx)].lookup = With(@, address, map[address])], map[address])
tryLookupId(x, address) ==
    LET found == {i \in DOMAIN x.tx : address \in DOMAIN x.tx[i].lookup}
    IN  IF isId(address) THEN VmReturn(x, address[2])
        ELSE IF found # {} THEN VmReturn(x, x.tx[Max(found)].lookup[address])
        ELSE Bind(getById(x, kInit[2]), LAMBDA y : lookupInit(y, address, y.ret.head[2]))

lookupId(x, address) ==
    Bind(tryLookupId(x, address), LAMBDA y : IF y.ret = NoId THEN Fail(y, "other") ELSE y)
tryGet(x, address) ==
    Bind(tryLookupId(x, address), LAMBDA y : IF y.ret = NoId THEN VmReturn(y, NoActor) ELSE getById(y, y.ret))
get(x, address) ==
    Bind(tryGet(x, address), LAMBDA y : IF y.ret = NoActor THEN Fail(y, "other") ELSE y)
set(x, address, actor) == Then(lookupId(x, address), LAMBDA y : setActor(y, y.ret, actor))
removeActor(x, address) ==
    Then(lookupId(x, address), LAMBDA y : [y EXCEPT !.tx[Len(y.tx)].removed = @ \cup {y.ret}])

addActor(head, address) == <<"init", With(head[2], address, head[3]), head[3] + 1>>
registerNewAddress(x, address) ==
    Then(get(x, kInit), LAMBDA y :
        VmReturn(set(y, kInit, [y.ret EXCEPT !.head = addActor(@, address)]), y.ret.head[3]))

flush(x) == LET l == x.tx[1] IN Restrict(l.actors @@ x.base, (DOMAIN x.base \cup DOMAIN l.actors) \ l.removed)
-----------------------------------------------------------------------------
(* Gas. *)
storage(size) == VmPrice.storage * size
onChainMessage(size) == VmPrice.message + storage(size)
onMethodInvocation(value, method) ==
    VmPrice.invoke + (IF value # 0 THEN VmPrice.transfer + (IF method = "Send" THEN VmPrice.send ELSE 0) ELSE 0)
      - (IF method # "Send" THEN VmPrice.discount ELSE 0)
onIpldPut(size) == VmPrice.put + storage(size)
onCreateActor == VmPrice.create + storage(2)
onDeleteActor == storage(-2)

chargeGas(x, amount) ==
    IF x.used + amount > x.limit THEN Fail([x EXCEPT !.used = x.limit], "outOfGas")
    ELSE [x EXCEPT !.used = @ + amount]

catchAbort(x) ==
    IF x.err # "assert" THEN x
    ELSE Fail(x, IF VmVersion <= 3 THEN "oldErrActorFailure" ELSE "sysErrReserved1")
IsExitCode(error) == error # "other"

(* The calls of RuntimeImpl; m is the message that the actor runs.         *)
commit(x, m, head) ==
    Then(chargeGas(x, onIpldPut(1)), LAMBDA y : Then(get(y, m.to), LAMBDA z :
        set(z, m.to, [z.ret EXCEPT !.head = head])))

getActorState(x, m) ==
    Then(get(x, m.to), LAMBDA y : Then(chargeGas(y, VmPrice.get), LAMBDA z : VmReturn(z, y.ret.head)))

transferIds(x, from, to, amount) ==
    IF from = to THEN x
    ELSE Then(get(x, Id(from)), LAMBDA f : Then(get(f, Id(to)), LAMBDA t :
        IF f.ret.balance < amount THEN Fail(t, "insufficientFunds")
        ELSE setActor(setActor(t, from, [f.ret EXCEPT !.balance = @ - amount]),
                      to, [t.ret EXCEPT !.balance = @ + amount])))

transfer(x, from, to, amount) ==
    Then(lookupId(x, from), LAMBDA a : Then(lookupId(a, to), LAMBDA b : transferIds(b, a.ret, b.ret, amount)))

(* Mutant: the balance goes with the actor. *)
deleteActorUnpaid(x, m, to) == Then(chargeGas(x, onDeleteActor), LAMBDA y : removeActor(y, m.to))

deleteActor(x, m, to) ==
    Then(chargeGas(x, onDeleteActor), LAMBDA y : Then(tryGet(y, m.to), LAMBDA a :
        IF a.ret = NoActor THEN Fail(a, "illegalActor")
        ELSE Bind(Then(IF a.ret.balance = 0 THEN a ELSE transfer(a, m.to, to, a.ret.balance),
                       LAMBDA p : removeActor(p, m.to)),
                  LAMBDA z : IF z.err # "" THEN Fail(z, "illegalActor") ELSE z)))

createActor(x, address, code) ==
    IF code \notin {"account", "miner", "multisig", "paych"} THEN Fail(x, "illegalArgument")
    ELSE Then(tryGet(x, address), LAMBDA y : IF y.ret # NoActor THEN Fail(y, "illegalArgument")
              ELSE Then(chargeGas(y, onCreateActor), LAMBDA z :
                       set(z, address, [NoActor EXCEPT !.code = code])))

resolveKey(x, address) ==
    IF isKeyType(address) THEN VmReturn(x, address)
    ELSE IF ~ isId(address) THEN Fail(x, "other")
    ELSE Bind(tryGet(x, address), LAMBDA y : IF y.ret = NoActor THEN Fail(y, "illegalArgument")
             ELSE IF y.ret.code # "account" THEN Fail(y, "other") ELSE VmReturn(y, y.ret.head[2]))

createNewActorAddress(x) ==
    Then(resolveKey(x, x.origin), LAMBDA y :
        VmReturn([y EXCEPT !.created = @ + 1], <<"exec", y.ret, x.nonce, x.created>>))
-----------------------------------------------------------------------------
Message(from, to, value, method, params) ==
    [from |-> from, to |-> to, value |-> value, method |-> method, params |-> params]

RECURSIVE send(_, _, _), sendWithRevert(_, _)

tryCreateAccountActor(x, address) ==
    Then(catchAbort(chargeGas(x, onCreateActor)), LAMBDA a : Then(registerNewAddress(a, address), LAMBDA b :
        IF ~ isKeyType(address) THEN Fail(b, "invalidReceiver")
        ELSE Then(sendWithRevert(setActor(b, b.ret, [NoActor EXCEPT !.code = "account"]),
                                 Message(kSystem, Id(b.ret), 0, "Construct", address)),
                  LAMBDA d : get(d, Id(b.ret)))))

sendWithRevert(x, m) ==
    Bind(send(txBegin(x), m, 0), LAMBDA y : txEnd(IF y.err # "" THEN txRevert(y) ELSE y))

pay(x, from, to, toActor, value) ==
    IF value = 0 THEN x
    ELSE IF value < 0 THEN Fail(x, "forbidden")
    ELSE IF to = from /\ VmVersion < 15 THEN x
    ELSE Then(get(x, Id(from)), LAMBDA y : IF y.ret.balance < value THEN Fail(y, "insufficientFunds")
              ELSE IF to = from THEN y
              ELSE setActor(setActor(y, from, [y.ret EXCEPT !.balance = @ - value]),
                            to, [toActor EXCEPT !.balance = @ + value]))

(* Account, init, cron and reward actors. *)
accountConstruct(x, m) ==
    IF m.from # kSystem THEN Fail(x, "forbidden")
    ELSE IF ~ isKeyType(m.params) THEN Fail(x, "illegalArgument") ELSE commit(x, m, <<"account", m.params>>)

canExec(caller, code) == IF code = "miner" THEN caller = "power" ELSE code \in {"paych", "multisig"}
initExec(x, m) ==
    Then(get(x, m.from), LAMBDA a :
      Then(IF canExec(a.ret.code, m.params.code) THEN createNewActorAddress(a) ELSE Fail(a, "forbidden"), LAMBDA b :
        Then(getActorState(b, m), LAMBDA c :
          Then(commit(c, m, addActor(c.ret, b.ret)), LAMBDA d :
            Then(createActor(d, Id(c.ret[3]), m.params.code), LAMBDA e :
              sendWithRevert(e, Message(m.to, Id(c.ret[3]), m.value, "Construct", m.params.start)))))))

(* A send that fails does not stop the tick; only an error that is no exit code does. *)
epochTick(x, m) ==
    IF m.from # kSystem THEN Fail(x, "forbidden")
    ELSE Then(getActorState(x, m), LAMBDA y :
            FoldLeft(LAMBDA z, to : IF z.err # "" THEN z
                        ELSE Bind(sendWithRevert(z, Message(m.to, to, 0, "Tick", <<>>)),
                                  LAMBDA s : IF IsExitCode(s.err) THEN Fail(s, "") ELSE s), y, y.ret[2]))

burnPenalty(x, m, value) ==
    IF value = 0 THEN x ELSE sendWithRevert(x, Message(m.to, kBurnt, value, "Send", <<>>))

payReward(x, m, miner, total, penalty) ==
    Then(getActorState(x, m), LAMBDA y : Then(commit(y, m, y.ret), LAMBDA a :
        Then(Bind(sendWithRevert(a, Message(m.to, Id(miner), total - penalty, "AddLockedFund", total - penalty)),
                  LAMBDA b : IF b.err = "" THEN b
                             ELSE sendWithRevert(Fail(b, ""), Message(m.to, kBurnt, total - penalty, "Send", <<>>))),
             LAMBDA c : burnPenalty(c, m, penalty))))

awardBlockReward(x, m) ==
    LET p == m.params
        award(bal, total) ==
          IF bal < p.gas THEN Fail(x, "illegalState")
          ELSE Bind(tryLookupId(x, p.miner), LAMBDA y : IF y.ret = NoId THEN Fail(y, "notFound")
                    ELSE payReward(y, m, y.ret, total, Smaller(p.penalty, total)))
    IN  IF m.from # kSystem THEN Fail(x, "forbidden")
        ELSE Bind(tryGet(x, m.to).ret.balance, LAMBDA bal : award(bal, Smaller(VmReward + p.gas, bal)))

(* What a method of another actor does: calls of its runtime, one by one.  *)
performStep(x, m, s) ==
    CASE s.op = "commit" -> commit(x, m, <<"value", s.value>>)
      [] s.op = "delete" -> deleteActor(x, m, s.to)
      [] s.op = "abort" -> Fail(x, s.code)
      [] s.op = "return" -> x
      [] s.op = "send" -> Bind(sendWithRevert(x, Message(m.to, s.to, s.value, s.method, <<>>)),
                               LAMBDA y : IF ~ s.must /\ y.err # "other" THEN Fail(y, "") ELSE y)
perform(x, m, steps) ==
    FoldLeft(LAMBDA y, s : Then(y, LAMBDA z :
        VmReturn(performStep(z, m, s), IF s.op = "return" THEN s.size ELSE 0)), x, steps)

(* The value of the call is the size of what it returns. *)
invoke(x, code, m) ==
    CASE code = "account" /\ m.method = "Construct" -> VmReturn(accountConstruct(x, m), 0)
      [] code = "init" /\ m.method = "Exec" -> VmReturn(initExec(x, m), 2)
      [] code = "cron" /\ m.method = "EpochTick" -> VmReturn(epochTick(x, m), 0)
      [] code = "reward" /\ m.method = "AwardBlockReward" -> VmReturn(awardBlockReward(x, m), 0)
      [] code \in {"miner", "multisig"} /\ m.method = "Construct" -> perform(x, m, m.params)
      [] code \in {"miner", "multisig"} /\ m.method \in DOMAIN VmPrograms -> perform(x, m, VmPrograms[m.method])
      [] OTHER -> Fail(x, "invalidMethod")

send(x, m, charge) ==
    LET called(from, to) == [m EXCEPT !.from = Id(from), !.to = IF VmVersion >= 4 THEN Id(to) ELSE @]
    IN
    Then(catchAbort(chargeGas(x, charge)), LAMBDA w : Then(tryGet(w, m.to), LAMBDA a :
      Then(IF a.ret = NoActor THEN tryCreateAccountActor(a, m.to) ELSE a, LAMBDA b :
        Then(catchAbort(chargeGas(b, onMethodInvocation(m.value, m.method))), LAMBDA c :
          Then(lookupId(c, m.from), LAMBDA d : Then(lookupId(d, m.to), LAMBDA e :
            Then(pay(e, d.ret, e.ret, b.ret, m.value), LAMBDA f :
              IF m.method = "Send" THEN VmReturn(f, 0)
              ELSE catchAbort(invoke(VmReturn(f, 0), b.ret.code, called(d.ret, e.ret))))))))))
-----------------------------------------------------------------------------
Execution(x, origin, nonce, limit) ==
    [x EXCEPT !.used = 0, !.limit = limit, !.origin = origin, !.nonce = nonce, !.created = 0,
              !.err = "", !.ret = 0]
Env(base) == [tx |-> <<NewLayer>>, base |-> base, used |-> 0, limit |-> 0, origin |-> kSystem,
              nonce |-> 0, created |-> 0, err |-> "", ret |-> 0]
Applied(x, code, used, penalty, reward) ==
    [x |-> x, code |-> code, used |-> used, penalty |-> penalty, reward |-> reward,
     locked |-> 0, ran |-> FALSE]

addLocked(x, address, add) ==
    IF add = 0 THEN x
    ELSE Then(get(x, address), LAMBDA y : set(y, address, [y.ret EXCEPT !.balance = @ + add]))

gasBurned(limit, used) ==
    LET over == limit - (11 * used) \div 10
    IN  IF used = 0 THEN limit
        ELSE IF over < 0 THEN 0 ELSE ((limit - used) * Smaller(used, over)) \div used

(* Mutant: any nonce will do. *)
refusalAnyNonce(from, m, baseFee) ==
    CASE onChainMessage(m.size) > m.limit -> "outOfGas"
      [] from.code # "account" -> "senderInvalid"
      [] from.balance < m.limit * m.cap -> "senderStateInvalid"
      [] OTHER -> ""

(* What the checks before the execution say; "" lets the message run.      *)
refusal(from, m, baseFee) ==
    CASE onChainMessage(m.size) > m.limit -> "outOfGas"
      [] from.code # "account" -> "senderInvalid"
      [] m.nonce # from.nonce \/ from.balance < m.limit * m.cap -> "senderStateInvalid"
      [] OTHER -> ""

(* Mutant: the execution is not undone when it fails. *)
finishKeeping(y, code) == y

finish(y, code) == IF code # "" THEN txRevert(y) ELSE y

noBaseFee(y, m, code) ==
    /\ VmVersion <= 12 /\ code = "" /\ m.method = "SubmitWindowedPoSt"
    /\ tryGet(y, m.to).ret.code = "miner"

settlePaid(y, m, code, fees) ==
    [Applied(addLocked(addLocked(addLocked(y, kBurnt, fees.burn), kReward, fees.reward), m.from, fees.locked),
             code, fees.used, fees.penalty, fees.reward) EXCEPT !.locked = fees.locked, !.ran = TRUE]

gasFees(m, used, noFee, baseFee) ==
    LET fee == Smaller(baseFee, m.cap)
        burned == gasBurned(m.limit, used)
        burn == (IF noFee THEN 0 ELSE fee * used) + fee * burned
        reward == Smaller(m.premium, m.cap - fee) * m.limit
    IN  [used |-> used, burn |-> burn, reward |-> reward, locked |-> m.limit * m.cap - burn - reward,
         penalty |-> (baseFee - fee) * (used + burned)]

settle(y, m, code, baseFee) ==
    Bind(gasFees(m, Larger(y.used, 0), noBaseFee(y, m, code), baseFee), LAMBDA fees : settlePaid(y, m, code, fees))

(* The message ran: its result is charged for, kept or undone, and paid.   *)
settleRun(ran, m, baseFee) ==
    IF ~ IsExitCode(ran.err) THEN Applied(txEnd(ran), "other", 0, 0, 0)
    ELSE Bind(IF ran.err = "" /\ ran.ret # 0 THEN catchAbort(chargeGas(ran, storage(ran.ret))) ELSE ran,
              LAMBDA y : [settle(finish(Fail(y, ""), y.err), m, y.err, baseFee) EXCEPT !.x = txEnd(@)])

applyRefused(env, m, refused, baseFee) ==
    Applied(env, refused, 0, (IF refused = "outOfGas" THEN onChainMessage(m.size) ELSE m.limit) * baseFee, 0)

applyAccepted(x, m, baseFee) ==
    LET begun == setActor(x, tryLookupId(x, m.from).ret,
                          [x.ret EXCEPT !.balance = @ - m.limit * m.cap, !.nonce = @ + 1])
    IN  settleRun(send(txBegin(begun), m, onChainMessage(m.size)), m, baseFee)

vmApplyMessage(env, m, baseFee) ==
    Bind(tryGet(Execution(env, m.from, m.nonce, m.limit), m.from), LAMBDA x :
        Bind(refusal(x.ret, m, baseFee), LAMBDA refused :
            IF refused # "" THEN applyRefused(env, m, refused, baseFee) ELSE applyAccepted(x, m, baseFee)))

applyImplicitMessage(env, m, limit, nonce) == send(Execution(env, m.from, nonce, limit), m, 0)

-----------------------------------------------------------------------------
(***************************************************************************)
(* InterpreterImpl::applyBlocks over VmRuntime: the ticks of null rounds,  *)
(* the messages of each block in the order of the tipset, the reward of    *)
(* each block, and the last tick.  A tipset is made of the blocks in the   *)
(* order they came in (TipsetCreator), and MessageVisitor picks what runs. *)
(* One action is one message or one implicit message; nothing interleaves, *)
(* but so what a message does can be stated of a step.                     *)
(***************************************************************************)

CONSTANTS
    ItMessages,   \* messages by name, which stands for the cid
    ItBlocks,     \* blocks: miner, ticket, cid, bls and secp, names of messages
    ItGenesis,    \* state tree of the genesis, a function on ids
    ItHyperdrive, \* the upgrade since which senders are looked up
    ItGasTarget, ItMinFee, ItFeeDenom,
    ItImplicitGas,
    ItMaxTipsets, ItMaxHeight

ASSUME InterpreterAssumption ==
    /\ ItHyperdrive \in BOOLEAN /\ ItGasTarget \in Nat \ {0} /\ ItFeeDenom \in Nat \ {0}
    /\ \A b \in ItBlocks : Range(b.bls) \cup Range(b.secp) \subseteq DOMAIN ItMessages

VARIABLES itHead, itJob
itVars == <<itHead, itJob>>
-----------------------------------------------------------------------------
(* Mutant: blocks stay in the order they came in. *)
expandTipsetArrived(blocks, b) == Append(blocks, b)

expandTipset(blocks, b) ==
    LET before == {i \in DOMAIN blocks : \/ b.ticket < blocks[i].ticket
                                         \/ b.ticket = blocks[i].ticket /\ b.cid < blocks[i].cid}
        i == IF before = {} THEN Len(blocks) + 1 ELSE Min(before)
    IN  InsertAt(blocks, i, b)
canExpandTipset(blocks, b) == \A i \in DOMAIN blocks : blocks[i].miner # b.miner
createTipset(arrived) == FoldLeft(expandTipset, <<>>, arrived)
Acceptable(arrived) == \A i \in DOMAIN arrived : canExpandTipset(SubSeq(arrived, 1, i - 1), arrived[i])

NewVisitor == [visited |-> {}, nonces |-> Empty]

(* onMessage of MessageVisitor: the visitor after it, and whether it runs. *)
onMessageFrom(v, name, from, nonce, next) ==
    [v |-> [v EXCEPT !.visited = @ \cup {name}, !.nonces = With(@, from, IF nonce = next THEN next + 1 ELSE next)],
     run |-> nonce = next, error |-> FALSE]

onMessage(v, name, base) ==
    LET m == ItMessages[name]
        from(id) == IF ItHyperdrive THEN Id(id) ELSE m.from
    IN  IF name \in v.visited THEN [v |-> v, run |-> FALSE, error |-> FALSE]
        ELSE Bind(IF ItHyperdrive THEN tryLookupId(Env(base), m.from).ret ELSE 0, LAMBDA id :
                IF id = NoId THEN [v |-> [v EXCEPT !.visited = @ \cup {name}], run |-> FALSE, error |-> TRUE]
                ELSE onMessageFrom(v, name, from(id), m.nonce, GetOr(v.nonces, from(id), m.nonce)))

visitOrder(b) == b.bls \o b.secp

nextBaseFee(fee, tipset) ==
    LET names == UNION {Range(visitOrder(tipset[i])) : i \in DOMAIN tipset}
        gas == Total(names, LAMBDA n : ItMessages[n].limit) \div Len(tipset)
        delta == Larger(-ItGasTarget, Smaller(gas - ItGasTarget, ItGasTarget))
    IN  Larger(ItMinFee, fee + ((fee * delta) \div ItGasTarget) \div ItFeeDenom)
-----------------------------------------------------------------------------
ItIdle == [phase |-> "idle"]

ItInit ==
    /\ itHead = [base |-> ItGenesis, height |-> 0, fee |-> ItMinFee, tipsets |-> 0, paid |-> {}]
    /\ itJob = ItIdle

(* The rewards of a block are collected anew. *)
nextBlock(job) ==
    [job EXCEPT !.queue = visitOrder(job.tipset[job.block]), !.penalty = 0, !.gas = 0]

(* A failed interpretation marks the tipset bad; the state stays.          *)
Bad == itJob' = ItIdle /\ UNCHANGED itHead

ItInterpret ==
    /\ itJob = ItIdle /\ itHead.tipsets < ItMaxTipsets
    /\ \E arrived \in UNION {[1 .. n -> ItBlocks] : n \in {1, 2}}, height \in itHead.height + 1 .. ItMaxHeight :
        /\ Acceptable(arrived)
        /\ LET ts == createTipset(arrived)
           IN  itJob' = nextBlock([phase |-> "run", tipset |-> ts, arrived |-> arrived, height |-> height,
                          epoch |-> itHead.height + 1, env |-> Env(itHead.base), block |-> 1,
                          queue |-> <<>>, visitor |-> NewVisitor, penalty |-> 0, gas |-> 0,
                          receipts |-> <<>>, paid |-> itHead.paid])
    /\ itHead' = [itHead EXCEPT !.tipsets = @ + 1]

cron(env, epoch) ==
    applyImplicitMessage(env, Message(kSystem, kCron, 0, "EpochTick", <<>>), ItImplicitGas, epoch)

(* The step that next(x) makes of an outcome, unless it failed. *)
UnlessBad(x, next(_)) == IF x.err # "" THEN Bad ELSE next(x)

CronNull ==
    /\ itJob.phase = "run" /\ itJob.epoch < itJob.height
    /\ UnlessBad(cron(itJob.env, itJob.epoch), LAMBDA x :
           itJob' = [itJob EXCEPT !.env = Env(flush(x)), !.epoch = @ + 1] /\ UNCHANGED itHead)

Receipt(job, name, r) ==
    [job EXCEPT !.env = r.x, !.penalty = @ + r.penalty, !.gas = @ + r.reward,
       !.receipts = Append(@, [name |-> name, code |-> r.code, used |-> r.used, locked |-> r.locked]),
       !.paid = IF r.ran THEN @ \cup {name} ELSE @]

VisitMessage ==
    /\ itJob.phase = "run" /\ itJob.epoch = itJob.height /\ itJob.queue # <<>>
    /\ \E name \in {Head(itJob.queue)} : \E v \in {onMessage(itJob.visitor, name, itHead.base)} :
         LET job == [itJob EXCEPT !.queue = Tail(@), !.visitor = v.v] IN
         IF v.error THEN Bad
         ELSE IF ~ v.run THEN itJob' = job /\ UNCHANGED itHead
         ELSE \E r \in {vmApplyMessage(itJob.env, ItMessages[name], itHead.fee)} :
                IF r.code = "other" THEN Bad ELSE itJob' = Receipt(job, name, r) /\ UNCHANGED itHead

AwardBlock ==
    /\ itJob.phase = "run" /\ itJob.epoch = itJob.height /\ itJob.queue = <<>>
    /\ itJob.block <= Len(itJob.tipset)
    /\ LET reward == [miner |-> itJob.tipset[itJob.block].miner, penalty |-> itJob.penalty, gas |-> itJob.gas]
       IN  UnlessBad(applyImplicitMessage(itJob.env, Message(kSystem, kReward, 0, "AwardBlockReward", reward),
                                          ItImplicitGas, itJob.height), LAMBDA x :
               LET job == [itJob EXCEPT !.env = x, !.block = @ + 1] IN
               /\ itJob' = IF job.block > Len(job.tipset) THEN job ELSE nextBlock(job)
               /\ UNCHANGED itHead)

CronEnd ==
    /\ itJob.phase = "run" /\ itJob.block > Len(itJob.tipset)
    /\ UnlessBad(cron(itJob.env, itJob.height), LAMBDA x :
           /\ itHead' = [itHead EXCEPT !.base = flush(x), !.height = itJob.height,
                                       !.fee = nextBaseFee(@, itJob.tipset), !.paid = itJob.paid]
           /\ itJob' = ItIdle)

ItNext == ItInterpret \/ CronNull \/ VisitMessage \/ AwardBlock \/ CronEnd

ItSpec == ItInit /\ [][ItNext]_itVars
-----------------------------------------------------------------------------
Tree == IF itJob = ItIdle THEN itHead.base ELSE flush(itJob.env)

(* Between two messages one layer is open, and the base fee has its bound. *)
ItTypeOK ==
    /\ itJob # ItIdle => Len(itJob.env.tx) = 1
    /\ itHead.fee >= ItMinFee /\ itHead.height <= ItMaxHeight

(* Nothing that a message or a tick does makes or loses funds: not gas that
   is locked and returned, nor transfers of actors that are undone, nor the
   removal of an actor, nor a reward that its miner could not take. *)
FundsConserved == SumOf([id \in DOMAIN Tree |-> Tree[id].balance])
                    = SumOf([id \in DOMAIN ItGenesis |-> ItGenesis[id].balance])

(* A message is paid for once, whatever blocks and tipsets of the chain hold
   it and however they name its sender: the nonce of an account is the number
   of its messages that were paid for. *)
PaidOnce ==
    LET paid == IF itJob = ItIdle THEN itHead.paid ELSE itJob.paid
        of(id) == {n \in paid : tryLookupId(Env(Tree), ItMessages[n].from).ret = id}
    IN  \A id \in DOMAIN Tree : Tree[id].code = "account" => Tree[id].nonce = Cardinality(of(id))

(* The assertions of vmApplyMessage on gas, and the tipset does not depend on
   the order in which its blocks came. *)
GasAndOrder ==
    itJob # ItIdle =>
        /\ \A i \in DOMAIN itJob.receipts :
             itJob.receipts[i].used <= ItMessages[itJob.receipts[i].name].limit /\ itJob.receipts[i].locked >= 0
        /\ createTipset(Reverse(itJob.arrived)) = itJob.tipset

(* A message that fails changes the balance and the nonce of its sender and
   the balances that its gas goes to, and nothing else. *)
FailureLeavesNoTrace ==
    [][itJob # ItIdle /\ itJob' # ItIdle /\ Len(itJob'.receipts) > Len(itJob.receipts)
         => LET r == Last(itJob'.receipts)
                before == flush(itJob.env)
                after == flush(itJob'.env)
                sender == tryLookupId(itJob.env, ItMessages[r.name].from).ret
            IN  r.code # "" =>
                  /\ DOMAIN after = DOMAIN before
                  /\ \A id \in DOMAIN before : id \notin {sender, kBurnt[2], kReward[2]} => after[id] = before[id]
                  /\ \A id \in DOMAIN before : after[id].head = before[id].head]_itVars
=============================================================================
