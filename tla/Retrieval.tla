----------------------------- MODULE Retrieval ------------------------------
(***************************************************************************)
(* The retrieval market: a client asks a provider for its price, pulls the *)
(* payload block by block through data transfer and pays for what it has   *)
(* got through a payment channel (markets/retrieval).  The provider works  *)
(* on its own thread; its answers reach the client in order on the         *)
(* graphsync request, payments each on a stream of their own.              *)
(***************************************************************************)
EXTENDS ActorBase, TLC

CONSTANTS RtAsks,             \* the asks a provider may set, the first by default
          RtBlocks,           \* the sizes of the payload's blocks, in their order
          RtPieceSize,        \* the size of the piece that holds them
          RtUnsealFails,      \* whether a sector can fail to be unsealed
          RtStoreFails,       \* whether the client can fail to read a block back
          RtMaxFaults,        \* bound on lost messages and failing calls
          RtMaxAsks           \* bound on changes of the ask

ASSUME RetrievalAssumption ==
    /\ RtBlocks \in Seq(Nat \ {0}) /\ Len(RtBlocks) > 0
    /\ \A k \in DOMAIN RtAsks : RtAsks[k].interval \in Nat /\ RtAsks[k].price \in Nat

VARIABLES rt, rtFaults, rtAsks
rtVars == <<rt, rtFaults, rtAsks>>

-----------------------------------------------------------------------------
(* What is paid for, on both sides (State of retrieval_protocol.hpp).      *)

Account(params) ==
    [params |-> params, interval |-> params.interval, bytes |-> 0, paid |-> 0,
     owed |-> params.unseal, sound |-> TRUE]

\* A block that is not added to the ones that were not paid for.
blockAlone(s, size) ==
    [s EXCEPT !.bytes = @ + size, !.sound = @ /\ s.owed = 0,
              !.owed = IF size >= s.interval THEN size * s.params.price ELSE @]

\* Debug builds assert that nothing is owed when a block comes.
block(s, size) ==
    LET bytes == s.bytes + size
        unpaid == bytes * s.params.price - (s.paid - s.params.unseal)
    IN  [s EXCEPT !.bytes = bytes, !.sound = @ /\ s.owed = 0,
                  !.owed = IF unpaid >= s.interval * s.params.price THEN unpaid ELSE @]

last(s) == [s EXCEPT !.owed = s.params.unseal + s.bytes * s.params.price - s.paid]

pay(s, amount) ==
    [s EXCEPT !.paid = @ + amount, !.owed = @ - amount, !.sound = @ /\ amount <= s.owed,
              !.interval = IF s.owed = amount THEN @ + s.params.increase ELSE @]

-----------------------------------------------------------------------------

NoParams == [price |-> 0, interval |-> 0, increase |-> 0, unseal |-> 0]
Blocks == Len(RtBlocks)

RtInit ==
    /\ rt = [ask |-> RtAsks[1], phase |-> "idle", offer |-> NoParams, total |-> 0,
             \* the client's deal
             out |-> FALSE, accepted |-> FALSE, waiting |-> FALSE, pending |-> <<>>, channel |-> "none",
             mine |-> Account(NoParams), seen |-> 0, all |-> FALSE, told |-> <<>>,
             \* the provider's deal and its thread
             work |-> <<>>, in |-> FALSE, theirs |-> Account(NoParams), unsealed |-> FALSE, sent |-> 0,
             \* answers on their way, the request, payments on their way, the lane
             answers |-> <<>>, broken |-> FALSE, proposed |-> NoParams, payments |-> {}, lane |-> 0]
    /\ rtFaults = 0 /\ rtAsks = 0

-----------------------------------------------------------------------------
(* Data transfer, as a pull uses it.                                       *)

Answer(status, owed) == [status |-> status, owed |-> owed, cid |-> 0]
\* Graphsync::postResponse: a request whose stream is gone is answered in vain.
postResponse(r, a) == IF r.broken THEN r ELSE [r EXCEPT !.answers = Append(@, a)]
acceptPull(r, status) == postResponse(r, Answer(status, r.theirs.owed))
rejectPull(r, status) == postResponse(r, Answer(status, 0))
postDataTransferResponse(r, status) == postResponse(r, Answer(status, r.theirs.owed))
pullOut(r, amount) == [r EXCEPT !.payments = @ \cup {amount}]

-----------------------------------------------------------------------------
(* The provider.                                                           *)

doFail(r) == rejectPull([r EXCEPT !.in = FALSE], "errored")

traverserCompleted(r) == r.unsealed /\ r.sent = Blocks

hasOwed(r) == r.theirs.owed # 0
demand(r) ==
    postDataTransferResponse(r, IF ~r.unsealed THEN "funds needed unseal"
                                ELSE IF traverserCompleted(r) THEN "funds needed last"
                                ELSE "funds needed")

doComplete(r) ==
    LET m == [r EXCEPT !.theirs = last(@)]
    IN  IF hasOwed(m) THEN demand(m) ELSE postResponse(m, Answer("completed", 0))

\* Blocks go out until something is owed or all are sent.
RECURSIVE doBlocks(_)
doBlocks(r) ==
    LET k == r.sent + 1
        m == postResponse([r EXCEPT !.sent = k, !.theirs = block(@, RtBlocks[k])],
                          [status |-> "block", owed |-> 0, cid |-> k])
    IN  IF hasOwed(r) THEN demand(r)
        ELSE IF traverserCompleted(m) THEN doComplete(m)
        ELSE doBlocks(m)

\* The piece is looked up, unsealed into a file and loaded; any of it can fail.
doUnseal(r, ok) ==
    IF hasOwed(r) THEN demand(r)
    ELSE IF ~ok THEN doFail(r)
    ELSE doBlocks([r EXCEPT !.unsealed = TRUE])

onProposal(r, ok) ==
    LET p == r.proposed
        m == [r EXCEPT !.theirs = Account(p)]
        accepted == [acceptPull(m, IF p.unseal # 0 THEN "funds needed unseal" ELSE "accepted")
                        EXCEPT !.in = TRUE]
    IN  IF \/ p.price < r.ask.price \/ p.interval > r.ask.interval
           \/ p.increase > r.ask.increase \/ p.unseal < r.ask.unseal
        THEN rejectPull(r, "rejected")
        ELSE IF p.unseal = 0 THEN doUnseal(accepted, ok) ELSE accepted

\* PaychVoucherAdd: a voucher worth less than what is owed is refused, one that
\* is known adds nothing.
voucherDelta(r, amount) == amount - r.lane
onPayment(r, amount, ok) ==
    LET delta == voucherDelta(r, amount)
        received == IF delta = 0 THEN Smaller(amount - r.theirs.paid, r.theirs.owed) ELSE delta
        m == [r EXCEPT !.lane = amount, !.theirs = pay(@, received)]
    IN  IF delta # 0 /\ delta < r.theirs.owed THEN doFail(r)
        ELSE IF hasOwed(m) THEN demand(m)
        ELSE IF ~m.unsealed THEN doUnseal(m, ok)
        ELSE IF ~traverserCompleted(m) THEN doBlocks(m)
        ELSE doComplete(m)

\* QueryResponse says nothing of the price of unsealing.
makeQueryResponse(r) == [r.ask EXCEPT !.unseal = 0]

-----------------------------------------------------------------------------
(* The client.                                                             *)

tell(r, result) == [r EXCEPT !.told = Append(@, result)]
failDeal(r) == [tell(r, "error") EXCEPT !.out = FALSE]

\* What is asked for is what the client itself has counted.
processPaymentRequest(r) ==
    IF r.mine.paid + r.mine.owed > r.total THEN failDeal(r)
    ELSE IF r.mine.owed = 0 THEN failDeal(r)                \* "voucher adds no value"
    ELSE [pullOut(r, r.mine.paid + r.mine.owed) EXCEPT !.mine = pay(@, r.mine.owed)]

\* The lambda `after`: an answer that is neither the end nor a demand is passed over.
after(r, a) ==
    IF a.status = "completed" THEN [tell(r, "done") EXCEPT !.out = FALSE]
    ELSE IF a.owed # 0 THEN processPaymentRequest(r)
    ELSE r

onPullData(r, a) ==
    IF ~r.accepted
    THEN IF a.status \in {"rejected", "failed", "errored"} THEN failDeal([r EXCEPT !.waiting = TRUE])
         ELSE [r EXCEPT !.accepted = TRUE, !.waiting = TRUE, !.pending = <<a>>, !.channel = "asked"]
    ELSE IF r.waiting THEN [r EXCEPT !.pending = Append(@, a)]
    ELSE after(r, a)

\* The callback of PaychGet: first the answer that was waited with, then the
\* ones that came meanwhile.
onPaychGet(r, ok) ==
    IF ~ok THEN tell([r EXCEPT !.channel = "failed"], "error")
    ELSE [FoldLeft(after, [r EXCEPT !.channel = "open"], r.pending)
             EXCEPT !.waiting = FALSE, !.pending = <<>>]

\* Blocks come in the order of the client's own traverser.
onPullCid(r, k, ok) ==
    LET m == [r EXCEPT !.seen = k, !.mine = block(@, RtBlocks[k])]
    IN  IF ~ok \/ k # r.seen + 1 THEN failDeal(r)
        ELSE IF k = Blocks THEN [m EXCEPT !.all = TRUE, !.mine = last(@)]
        ELSE m

-----------------------------------------------------------------------------
(* The steps.                                                              *)

Fault == rtFaults < RtMaxFaults /\ rtFaults' = rtFaults + 1
Maybe(ok) == IF ok THEN UNCHANGED rtFaults ELSE Fault

setAsk ==
    /\ rtAsks < RtMaxAsks /\ rtAsks' = rtAsks + 1
    /\ \E k \in DOMAIN RtAsks : rt' = [rt EXCEPT !.ask = RtAsks[k]]
    /\ UNCHANGED rtFaults

\* ClientMinerQueryOffer: the offer's total is the price of the whole piece.
query ==
    /\ rt.phase = "idle"
    /\ LET q == makeQueryResponse(rt)
       IN  rt' = [rt EXCEPT !.phase = "offered", !.offer = q,
                            !.total = q.unseal + q.price * RtPieceSize]
    /\ UNCHANGED <<rtFaults, rtAsks>>

\* ClientRetrieve, RetrievalClientImpl::retrieve and DataTransfer::pull.  The
\* user may offer to pay for unsealing and may name another total.
retrieve ==
    /\ rt.phase = "offered"
    /\ \E unseal \in {0, 1} : \E total \in {rt.total, rt.total + unseal} :
          LET p == [rt.offer EXCEPT !.price = total \div RtPieceSize, !.unseal = unseal]
          IN  rt' = [rt EXCEPT !.phase = "pulling", !.total = total, !.mine = Account(p),
                               !.proposed = p, !.out = TRUE, !.work = <<[kind |-> "proposal", amount |-> 0]>>]
    /\ UNCHANGED <<rtFaults, rtAsks>>

\* The provider's thread takes what was posted to it.
providerWorks ==
    /\ rt.work # <<>>
    /\ \E ok \in {TRUE} \cup {~RtUnsealFails} :
          LET w == Head(rt.work)
              r == [rt EXCEPT !.work = Tail(@)]
          IN  rt' = IF w.kind = "proposal" THEN onProposal(r, ok) ELSE onPayment(r, w.amount, ok)
    /\ UNCHANGED <<rtFaults, rtAsks>>

\* The next answer reaches the client: DataTransfer::pull's callback, onMsg.
answerArrives ==
    /\ rt.answers # <<>>
    /\ \E ok \in {TRUE} \cup {~RtStoreFails} :
          LET a == Head(rt.answers)
              r == [rt EXCEPT !.answers = Tail(@)]
          IN  /\ rt' = IF a.status = "block" THEN onPullCid(r, a.cid, ok)
                       ELSE IF r.out THEN onPullData(r, a) ELSE r
              /\ Maybe(ok \/ a.status # "block")
    /\ UNCHANGED rtAsks

\* The channel is made, or not.
channelAnswers ==
    /\ rt.channel = "asked"
    /\ \E ok \in BOOLEAN : Maybe(ok) /\ rt' = onPaychGet(rt, ok)
    /\ UNCHANGED rtAsks

\* A payment reaches the provider: it is for a pull it knows, or is rejected
\* with a message that says nothing to the client.
paymentArrives ==
    /\ \E amount \in rt.payments :
          LET r == [rt EXCEPT !.payments = @ \ {amount}]
          IN  rt' = IF r.in THEN [r EXCEPT !.work = Append(@, [kind |-> "payment", amount |-> amount])] ELSE r
    /\ UNCHANGED <<rtFaults, rtAsks>>

\* dtSend drops a message whose stream cannot be opened.
paymentLost ==
    /\ Fault
    /\ \E amount \in rt.payments : rt' = [rt EXCEPT !.payments = @ \ {amount}]
    /\ UNCHANGED rtAsks

\* The graphsync request fails: its callback gets a status without extensions.
requestFails ==
    /\ Fault /\ rt.phase = "pulling" /\ ~rt.broken
    /\ rt' = [rt EXCEPT !.broken = TRUE, !.answers = <<>>]
    /\ UNCHANGED rtAsks

RtNext ==
    \/ setAsk \/ query \/ retrieve \/ providerWorks \/ answerArrives \/ channelAnswers
    \/ paymentArrives \/ paymentLost \/ requestFails
RtSpec == RtInit /\ [][RtNext]_rtVars

-----------------------------------------------------------------------------

RtTypeOK ==
    /\ rt.seen \in 0 .. Blocks /\ rt.sent \in 0 .. Blocks
    /\ rt.mine.paid \in Nat /\ rt.theirs.paid \in Nat /\ rt.lane \in Nat
    /\ rtFaults \in 0 .. RtMaxFaults

\* What the client has paid and the provider has not counted is on its way or
\* lost, never more than the funds of the deal and never for blocks that were
\* not received; the provider is never out of pocket by more than the payment
\* interval and one block; no assertion of State fails on either side; the
\* handler hears one outcome at most, and of success only when the client has
\* every block and the provider all its money (State::block, onPayment,
\* processPaymentRequest, onPullData).
PaidAsReceived ==
    LET due(s) == s.params.unseal + s.bytes * s.params.price
        most == CHOOSE n \in Range(RtBlocks) : \A k \in DOMAIN RtBlocks : RtBlocks[k] <= n
    IN  /\ rt.mine.sound /\ rt.theirs.sound
        /\ rt.mine.paid <= rt.total /\ rt.mine.paid <= due(rt.mine) /\ rt.theirs.paid <= rt.mine.paid
        /\ rt.unsealed => due(rt.theirs) - rt.theirs.paid < (rt.theirs.interval + most) * rt.theirs.params.price + 1
        /\ Len(rt.told) <= 1
        /\ (rt.told # <<>> /\ rt.told[1] = "done") => rt.all /\ rt.theirs.paid = due(rt.mine)

Quiet == rt.work = <<>> /\ rt.answers = <<>> /\ rt.payments = {} /\ rt.channel # "asked"
\* A retrieval that has come to rest, with nothing lost, has told its handler:
\* "deal response handler, called on error or completion" (retrieval_client.hpp).
HandlerIsCalled == (rt.phase = "pulling" /\ Quiet /\ rtFaults = 0) => rt.told # <<>>
=============================================================================
