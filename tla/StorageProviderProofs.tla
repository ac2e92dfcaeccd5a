----------------------- MODULE StorageProviderProofs ------------------------
(***************************************************************************)
(* What the steps of the provider keep of the inductive invariant of       *)
(* StorageMarket (which StorageClientProofs defines): its queue, what its  *)
(* states say of data and chain, and that each of its deals has something  *)
(* to come.                                                                *)
(***************************************************************************)
EXTENDS StorageClientProofs

-----------------------------------------------------------------------------
\* A tick of the provider handles the first event.
LEMMA ProviderTakes ==
  ASSUME ProviderTypes, NEW d \in Deals, NEW event, NEW sends, pHandle(d, event, sends)
  PROVE  /\ pQueue # <<>> /\ pQueue[1] = <<d, event>> /\ Len(pQueue) \in Nat /\ Len(pQueue) >= 1
         /\ pState' \in [Deals -> Statuses \cup {"none"}]
         /\ status' \in [Deals -> Statuses]
         /\ \A e \in Deals \ {d} : pState'[e] = pState[e] /\ status'[e] = status[e]
         /\ ProviderMoves(pState[d], event, pState'[d])
         /\ status'[d] = pState'[d]
         /\ pState[d] # "none" /\ pState'[d] # "none"
         /\ pQueue' = Tail(pQueue) \o sends /\ pTick' = (pQueue' # <<>>)
<1>1. pTick /\ Head(pQueue) = <<d, event>> /\ pQueue' = Tail(pQueue) \o sends /\ pTick' = (pQueue' # <<>>)
  BY Zenon DEF pHandle
<1>2. pQueue # <<>>
  BY <1>1, Zenon DEF ProviderTypes
<1>3. Len(pQueue) \in Nat /\ Len(pQueue) >= 1 /\ Head(pQueue) = pQueue[1]
  BY <1>2, Taken, Zenon DEF ProviderTypes
<1>4. PICK r \in ProviderRules :
        /\ r.event = event /\ r.from = pState[d]
        /\ pState' = [pState EXCEPT ![d] = r.to] /\ status' = [status EXCEPT ![d] = r.to]
  BY Zenon DEF pHandle
<1>5. ProviderMoves(pState[d], event, r.to)
  BY <1>4, ProviderRuleIs, Zenon
<1>6. r.to \in Statuses
  BY <1>5, Zenon DEF ProviderMoves, Statuses
<1>7. /\ pState'[d] = r.to /\ pState' \in [Deals -> Statuses \cup {"none"}]
      /\ status'[d] = r.to /\ status' \in [Deals -> Statuses]
      /\ \A e \in Deals \ {d} : pState'[e] = pState[e] /\ status'[e] = status[e]
  BY <1>4, <1>6, Zenon DEF ProviderTypes
<1>8. pState[d] # "none" /\ r.to # "none"
  BY <1>5, Zenon DEF ProviderMoves, Statuses
<1> QED
  BY <1>1, <1>2, <1>3, <1>5, <1>7, <1>8, Zenon

\* The queue after a tick that sends nothing,
LEMMA ProviderTickQueue ==
  ASSUME ProviderTypes, NEW d \in Deals, NEW event, pHandle(d, event, <<>>)
  PROVE  /\ pQueue' \in Seq(Deals \X ProviderEvents)
         /\ Len(pQueue') = Len(pQueue) - 1
         /\ \A i \in 1..Len(pQueue') : i + 1 \in 1..Len(pQueue) /\ pQueue'[i] = pQueue[i + 1]
         /\ \A i \in 1..Len(pQueue) : i # 1 => i - 1 \in 1..Len(pQueue') /\ pQueue'[i - 1] = pQueue[i]
         /\ \A i \in 1..Len(pQueue') : pState'[pQueue'[i][1]] # "none"
         /\ \A x : InQueue(pQueue', x) => InQueue(pQueue, x)
<1>1. /\ pQueue # <<>> /\ Len(pQueue) \in Nat /\ Len(pQueue) >= 1 /\ pQueue' = Tail(pQueue) \o <<>>
      /\ \A e \in Deals : pState'[e] = "none" => pState[e] = "none"
  BY ProviderTakes, Zenon
<1>2. /\ pQueue' \in Seq(Deals \X ProviderEvents)
      /\ Len(pQueue') = Len(pQueue) - 1
      /\ \A i \in 1..Len(pQueue) - 1 : pQueue'[i] = pQueue[i + 1]
  BY <1>1, Taken DEF ProviderTypes
<1>3. \A i \in 1..Len(pQueue') : i + 1 \in 1..Len(pQueue) /\ pQueue'[i] = pQueue[i + 1]
  BY <1>1, <1>2
<1>4. \A i \in 1..Len(pQueue) : i # 1 => i - 1 \in 1..Len(pQueue') /\ pQueue'[i - 1] = pQueue[i]
  BY <1>1, <1>2
<1>5. \A i \in 1..Len(pQueue') : pState'[pQueue'[i][1]] # "none"
  <2>1. \A i \in 1..Len(pQueue) : pState[pQueue[i][1]] # "none" /\ pQueue[i][1] \in Deals
    BY DEF ProviderTypes
  <2> QED
    BY <1>1, <1>3, <2>1, Zenon
<1>6. \A x : InQueue(pQueue', x) => InQueue(pQueue, x)
  BY <1>3, Zenon DEF InQueue
<1> QED
  BY <1>2, <1>3, <1>4, <1>5, <1>6, Zenon

\* after one that sends an event,
LEMMA ProviderSendQueue ==
  ASSUME ProviderTypes, NEW d \in Deals, NEW event, NEW e \in Deals, NEW next \in ProviderEvents,
         pHandle(d, event, << <<e, next>> >>), pState[e] # "none"
  PROVE  /\ pQueue' \in Seq(Deals \X ProviderEvents) /\ pQueue' # <<>>
         /\ Len(pQueue') = Len(pQueue) /\ Len(pQueue) \in Nat /\ Len(pQueue) >= 1
         /\ \A i \in 1..Len(pQueue') : i # Len(pQueue) => i + 1 \in 1..Len(pQueue) /\ pQueue'[i] = pQueue[i + 1]
         /\ \A i \in 1..Len(pQueue) : i # 1 => i - 1 \in 1..Len(pQueue') /\ pQueue'[i - 1] = pQueue[i]
         /\ pQueue'[Len(pQueue)] = <<e, next>>
         /\ pQueue'[Len(pQueue)][1] = e /\ pQueue'[Len(pQueue)][2] = next
         /\ \A i \in 1..Len(pQueue') : pState'[pQueue'[i][1]] # "none"
         /\ \A x : InQueue(pQueue', x) => InQueue(pQueue, x) \/ (x[1] = e /\ x[2] = next)
<1>1. /\ Len(pQueue) \in Nat /\ Len(pQueue) >= 1
      /\ \A f \in Deals : pState'[f] = "none" => pState[f] = "none"
  BY ProviderTakes, Zenon
<1>2. /\ pQueue' \in Seq(Deals \X ProviderEvents) /\ pQueue' # <<>>
      /\ Len(pQueue') = Len(pQueue)
      /\ \A i \in 1..Len(pQueue) - 1 : pQueue'[i] = pQueue[i + 1]
      /\ pQueue'[Len(pQueue)] = <<e, next>>
  <2>1. <<e, next>> \in Deals \X ProviderEvents
    BY Zenon
  <2>2. pQueue # <<>> /\ pQueue' = Tail(pQueue) \o << <<e, next>> >>
    BY ProviderTakes, Zenon
  <2> QED
    BY <2>1, <2>2, TakenSent DEF ProviderTypes
<1>3. \A i \in 1..Len(pQueue') : i # Len(pQueue) => i + 1 \in 1..Len(pQueue) /\ pQueue'[i] = pQueue[i + 1]
  BY <1>1, <1>2
<1>4. \A i \in 1..Len(pQueue) : i # 1 => i - 1 \in 1..Len(pQueue') /\ pQueue'[i - 1] = pQueue[i]
  BY <1>1, <1>2
<1>5. \A i \in 1..Len(pQueue') : pState'[pQueue'[i][1]] # "none"
  <2>1. \A i \in 1..Len(pQueue) : pState[pQueue[i][1]] # "none" /\ pQueue[i][1] \in Deals
    BY DEF ProviderTypes
  <2>2. pState'[e] # "none"
    BY <1>1, Zenon
  <2> QED
    BY <1>1, <1>2, <1>3, <2>1, <2>2
<1>6. \A x : InQueue(pQueue', x) => InQueue(pQueue, x) \/ (x[1] = e /\ x[2] = next)
  BY <1>2, <1>3 DEF InQueue
<1> QED
  BY <1>1, <1>2, <1>3, <1>4, <1>5, <1>6

\* and after an event that comes from outside.
LEMMA ProviderOutsideQueue ==
  ASSUME ProviderTypes, NEW d \in Deals, NEW event \in ProviderEvents, pSend(d, event), pState'[d] # "none",
         \A e \in Deals : pState'[e] = "none" => pState[e] = "none"
  PROVE  /\ pQueue' \in Seq(Deals \X ProviderEvents) /\ pQueue' # <<>> /\ pTick' \in BOOLEAN
         /\ Len(pQueue') = Len(pQueue) + 1 /\ Len(pQueue) \in Nat
         /\ \A i \in 1..Len(pQueue) : i \in 1..Len(pQueue') /\ pQueue'[i] = pQueue[i]
         /\ \A i \in 1..Len(pQueue') : i \in 1..Len(pQueue) \/ i = Len(pQueue) + 1
         /\ pQueue'[Len(pQueue) + 1] = <<d, event>>
         /\ \A i \in 1..Len(pQueue') : pState'[pQueue'[i][1]] # "none"
         /\ \A x : InQueue(pQueue', x) => InQueue(pQueue, x) \/ x = <<d, event>>
         /\ \A e \in Deals \ {d} : HasEvent(pQueue', e) <=> HasEvent(pQueue, e)
         /\ (pTick = (pQueue # <<>>)) => pTick' = TRUE
<1>1. pQueue' = Append(pQueue, <<d, event>>) /\ pQueue \in Seq(Deals \X ProviderEvents) /\ pTick' = (pTick \/ pQueue = <<>>)
  BY Zenon DEF pSend, ProviderTypes
<1>2. <<d, event>> \in Deals \X ProviderEvents
  BY Zenon
<1>3. /\ pQueue' \in Seq(Deals \X ProviderEvents) /\ pQueue' # <<>>
      /\ Len(pQueue') = Len(pQueue) + 1 /\ Len(pQueue) \in Nat
      /\ \A i \in 1..Len(pQueue) : pQueue'[i] = pQueue[i]
      /\ pQueue'[Len(pQueue) + 1] = <<d, event>>
  BY <1>1, <1>2, Sent
<1>4. /\ \A i \in 1..Len(pQueue) : i \in 1..Len(pQueue')
      /\ \A i \in 1..Len(pQueue') : i \in 1..Len(pQueue) \/ i = Len(pQueue) + 1
      /\ \A e \in Deals \ {d} : HasEvent(pQueue', e) <=> HasEvent(pQueue, e)
  BY <1>1, SentEvents, Zenon
<1>5. \A i \in 1..Len(pQueue') : pState'[pQueue'[i][1]] # "none"
  <2>1. \A i \in 1..Len(pQueue) : pState[pQueue[i][1]] # "none" /\ pQueue[i][1] \in Deals
    BY DEF ProviderTypes
  <2> QED
    BY <1>3, <1>4, <2>1
<1>6. \A x : InQueue(pQueue', x) => InQueue(pQueue, x) \/ x = <<d, event>>
  BY <1>3, <1>4, Zenon DEF InQueue
<1>7. pTick' \in BOOLEAN
  BY <1>1, Zenon
<1>8. (pTick = (pQueue # <<>>)) => pTick' = TRUE
  BY <1>1, Zenon
<1> QED
  BY <1>3, <1>4, <1>5, <1>6, <1>7, <1>8, Zenon

-----------------------------------------------------------------------------
\* A tick of the provider keeps what its states say of the chain.
LEMMA ProviderTickTruth ==
  ASSUME ProviderTypes, ProviderTruth, OtherTypes, NEW d \in Deals, NEW event, NEW sends, pHandle(d, event, sends),
         \A e \in Deals : InQueue(pQueue', <<e, "DealPublished">>) => InQueue(pQueue, <<e, "DealPublished">>),
         \A e \in Deals : InQueue(pQueue', <<e, "VerifiedData">>) => InQueue(pQueue, <<e, "VerifiedData">>) \/ e \in imported',
         \A e \in Deals : stream'[e] \in {"none", "sent"} => stream[e] \in {"none", "sent"},
         publish_msg' = publish_msg \/ (event = "Funded" /\ publish_msg' = [publish_msg EXCEPT ![d] = "sent"]),
         handed' = handed \/ (event = "DealPublished" /\ handed' = handed \cup {d}),
         \A e \in Deals : e \in imported => e \in imported' \/ (event = "Failed" /\ e = d)
  PROVE  /\ ProviderTruth'
         /\ \A e \in Deals : publish_msg[e] = "ok" => publish_msg'[e] = "ok"
<1>1. /\ pQueue[1] = <<d, event>> /\ Len(pQueue) \in Nat /\ Len(pQueue) >= 1
      /\ \A e \in Deals \ {d} : pState'[e] = pState[e] /\ status'[e] = status[e]
      /\ ProviderMoves(pState[d], event, pState'[d])
      /\ status'[d] = pState'[d]
      /\ pState[d] # "none"
  BY ProviderTakes
<1>2. InQueue(pQueue, <<d, event>>)
  BY <1>1 DEF InQueue
<1>3. ProviderTruthOf(d)
  BY Zenon DEF ProviderTruth
<1>4. publish_msg \in [Deals -> {"none", "sent", "ok", "failed"}]
  BY Zenon DEF OtherTypes
<1>5. event = "Funded" => publish_msg[d] = "none"
  BY <1>1, <1>3, Zenon DEF ProviderMoves, ProviderTruthOf, AfterPublish
<1>6. \A e \in Deals : publish_msg[e] = "ok" => publish_msg'[e] = "ok"
  BY <1>4, <1>5, Zenon
<1>7. ASSUME NEW e \in Deals \ {d} PROVE ProviderTruthOf(e)'
  <2>1. ProviderTruthOf(e)
    BY Zenon DEF ProviderTruth
  <2>2. pState'[e] = pState[e] /\ status'[e] = status[e] /\ publish_msg'[e] = publish_msg[e] /\ (e \in handed' => e \in handed)
    BY <1>1, <1>4, Zenon
  <2>3. e \in imported => e \in imported'
    BY Zenon
  <2> QED
    BY <2>1, <2>2, <2>3, Zenon DEF ProviderTruthOf
<1>8. ProviderTruthOf(d)'
  <2>1. stream'[d] \in {"none", "sent"} => pState'[d] = "none" /\ publish_msg'[d] = "none"
    BY <1>1, <1>3, Zenon DEF ProviderTruthOf
  <2>2. publish_msg'[d] # "none" => pState'[d] \in {"none", "PUBLISH", "PUBLISHING", "ERROR"} \cup AfterPublish
    <3>1. CASE publish_msg' = publish_msg
      BY <1>1, <1>3, <3>1, Zenon DEF ProviderTruthOf, ProviderMoves, AfterPublish
    <3>2. CASE event = "Funded"
      BY <1>1, <3>2, Zenon DEF ProviderMoves
    <3> QED
      BY <3>1, <3>2, Zenon
  <2>3. InQueue(pQueue', <<d, "DealPublished">>) => publish_msg'[d] = "ok"
    BY <1>3, <1>6, Zenon DEF ProviderTruthOf
  <2>4. pState'[d] \in AfterPublish => publish_msg[d] = "ok"
    BY <1>1, <1>2, <1>3, Zenon DEF ProviderTruthOf, ProviderMoves, AfterPublish
  <2>5. d \in handed' => publish_msg'[d] = "ok"
    BY <1>2, <1>3, <1>6, Zenon DEF ProviderTruthOf
  <2>6. pState'[d] \in WithData => d \in imported'
    BY <1>1, <1>2, <1>3, Zenon DEF ProviderTruthOf, ProviderMoves, WithData, AfterPublish
  <2>7. InQueue(pQueue', <<d, "VerifiedData">>) /\ pState'[d] # "ERROR" => d \in imported'
    <3>1. pState[d] = "ERROR" \/ event = "Failed" => pState'[d] = "ERROR"
      BY <1>1, Zenon DEF ProviderMoves
    <3> QED
      BY <1>3, <3>1, Zenon DEF ProviderTruthOf
  <2> QED
    BY <1>1, <1>6, <2>1, <2>2, <2>3, <2>4, <2>5, <2>6, <2>7, Zenon DEF ProviderTruthOf
<1> QED
  BY <1>6, <1>7, <1>8, Zenon DEF ProviderTruth

\* An event from outside does so too.
LEMMA ProviderOutsideTruth ==
  ASSUME ProviderTypes, ProviderTruth, UNCHANGED <<pState, stream, publish_msg, handed>>,
         \A e \in Deals : InQueue(pQueue', <<e, "DealPublished">>) =>
           InQueue(pQueue, <<e, "DealPublished">>) \/ publish_msg[e] = "ok",
         \A e \in Deals : InQueue(pQueue', <<e, "VerifiedData">>) => InQueue(pQueue, <<e, "VerifiedData">>) \/ e \in imported',
         \A e \in Deals : e \in imported => e \in imported',
         \A e \in Deals : status'[e] = status[e] \/ status'[e] \notin AfterPublish
  PROVE  ProviderTruth'
<1>1. ASSUME NEW e \in Deals PROVE ProviderTruthOf(e)'
  <2>1. ProviderTruthOf(e)
    BY Zenon DEF ProviderTruth
  <2> QED
    BY <2>1, Zenon DEF ProviderTruthOf
<1> QED
  BY <1>1, Zenon DEF ProviderTruth

\* What the provider does leaves true what the client knows.
LEMMA ProviderKeepsClient ==
  ASSUME ClientTruth, OtherTypes, UNCHANGED cvars, UNCHANGED <<setting, committed>>,
         \A e \in Deals : publish_msg[e] = "ok" => publish_msg'[e] = "ok",
         \A e \in Deals : stream[e] = "none" => stream'[e] = "none",
         \A e \in Deals : (ask[e].state \in AfterPublish)' => ask'[e] = ask[e] \/ Published(CidOf[e])
  PROVE  ClientTruth'
<1>1. CidOf' = CidOf
  BY Zenon DEF CidOf
<1>2. \A c : Published(c) => Published(c)'
  BY <1>1, Zenon DEF Published
<1>3. ASSUME NEW e \in Deals PROVE ClientTruthOf(e)'
  <2>1. ClientTruthOf(e)
    BY Zenon DEF ClientTruth
  <2>2. Published(CidOf[e]) => Published(CidOf[e])'
    BY <1>1, <1>2, Zenon
  <2> QED
    BY <1>1, <2>1, <2>2, Zenon DEF ClientTruthOf, cvars
<1> QED
  BY <1>3, Zenon DEF ClientTruth

-----------------------------------------------------------------------------
\* The first event is one that its deal expects, and the only one unless a transfer was started.
LEMMA FirstEvent ==
  ASSUME ProviderTypes, ProviderIsCarried, NEW d \in Deals, NEW event, NEW sends, pHandle(d, event, sends)
  PROVE  /\ ~HasWait(pWaits, d)
         /\ event \notin Starts =>
              d \notin transfers /\ \A i \in 1..Len(pQueue) : pQueue[i][1] = d => i = 1
<1>1. pQueue[1] = <<d, event>> /\ Len(pQueue) \in Nat /\ Len(pQueue) >= 1
  BY ProviderTakes, Zenon
<1>2. HasEvent(pQueue, d)
  BY <1>1 DEF HasEvent
<1>3. ~HasWait(pWaits, d)
  BY <1>2, Zenon DEF HasWait, ProviderIsCarried, WaitsFit
<1>4. ASSUME event \notin Starts PROVE d \notin transfers
  BY <1>1, <1>2, <1>4 DEF ProviderIsCarried, TransfersFit
<1>5. ASSUME event \notin Starts, NEW i \in 1..Len(pQueue), pQueue[i][1] = d PROVE i = 1
  BY <1>1, <1>5 DEF ProviderIsCarried, PairsFit
<1> QED
  BY <1>3, <1>4, <1>5, Zenon

\* A tick after which the deal has no event.
LEMMA LastKeeps ==
  ASSUME ProviderTypes, ProviderIsCarried, NEW d \in Deals, NEW event, pHandle(d, event, <<>>),
         event \notin Starts, pState'[d] # "PROPOSAL_ACCEPTED", UNCHANGED transfers,
         \A w \in pWaits' : w \in pWaits \/ (w[1] = d /\ ProviderAwaits(pState'[d], w[2])),
         \A v, w \in pWaits' : v[1] = d /\ w[1] = d => v = w
  PROVE  ProviderIsCarried'
<1>1. /\ pQueue[1] = <<d, event>> /\ Len(pQueue) \in Nat /\ Len(pQueue) >= 1
      /\ \A e \in Deals \ {d} : pState'[e] = pState[e]
      /\ pTick' = (pQueue' # <<>>)
  BY ProviderTakes, Zenon
<1>2. ~HasWait(pWaits, d) /\ d \notin transfers /\ \A i \in 1..Len(pQueue) : pQueue[i][1] = d => i = 1
  BY FirstEvent, Zenon
<1>3. /\ Len(pQueue') = Len(pQueue) - 1
      /\ \A i \in 1..Len(pQueue') : i + 1 \in 1..Len(pQueue) /\ pQueue'[i] = pQueue[i + 1]
      /\ \A i \in 1..Len(pQueue) : i # 1 => i - 1 \in 1..Len(pQueue') /\ pQueue'[i - 1] = pQueue[i]
  BY ProviderTickQueue, Zenon
<1>4. \A i \in 1..Len(pQueue) : pQueue[i][1] \in Deals
  BY DEF ProviderTypes
<1>5. \A i \in 1..Len(pQueue') : pQueue'[i][1] \in Deals \ {d} /\ pState'[pQueue'[i][1]] = pState[pQueue'[i][1]]
  BY <1>1, <1>2, <1>3, <1>4
<1>6. ~HasEvent(pQueue', d)
  BY <1>5, Zenon DEF HasEvent
<1>7. \A e \in Deals : HasEvent(pQueue', e) => HasEvent(pQueue, e)
  BY <1>3 DEF HasEvent
<1>8. \A e \in Deals \ {d} : HasEvent(pQueue, e) => HasEvent(pQueue', e)
  BY <1>1, <1>3, SMTT(40) DEF HasEvent
<1>9. EventsFit'
  <2>1. SUFFICES ASSUME NEW i \in 1..Len(pQueue')
                 PROVE  \/ ProviderExpects(pState'[pQueue'[i][1]], pQueue'[i][2])
                        \/ \E k \in 1..Len(pQueue') : k < i /\ pQueue'[k][1] = pQueue'[i][1]
    BY Zenon DEF EventsFit
  <2>2. \/ ProviderExpects(pState[pQueue[i + 1][1]], pQueue[i + 1][2])
        \/ \E k \in 1..Len(pQueue) : k < i + 1 /\ pQueue[k][1] = pQueue[i + 1][1]
    BY <1>3, Zenon DEF ProviderIsCarried, EventsFit
  <2>3. CASE ProviderExpects(pState[pQueue[i + 1][1]], pQueue[i + 1][2])
    BY <1>3, <1>5, <2>3, Zenon
  <2>4. ASSUME NEW k \in 1..Len(pQueue), k < i + 1, pQueue[k][1] = pQueue[i + 1][1]
        PROVE  \E l \in 1..Len(pQueue') : l < i /\ pQueue'[l][1] = pQueue'[i][1]
    <3>1. k # 1
      BY <1>1, <1>3, <1>5, <2>4
    <3>2. k - 1 \in 1..Len(pQueue') /\ pQueue'[k - 1] = pQueue[k] /\ k - 1 < i
      BY <1>3, <2>4, <3>1, SMTT(40)
    <3> QED
      BY <1>3, <2>4, <3>2, Zenon
  <2> QED
    BY <2>2, <2>3, <2>4, Zenon
<1>10. PairsFit'
  <2>1. SUFFICES ASSUME NEW i \in 1..Len(pQueue'), NEW j \in 1..Len(pQueue'), i < j, pQueue'[i][1] = pQueue'[j][1]
                 PROVE  pState'[pQueue'[i][1]] = "PROPOSAL_ACCEPTED" /\ pQueue'[i][2] \in Starts /\ pQueue'[j][2] \in Ends
    BY Zenon DEF PairsFit
  <2>2. /\ i + 1 \in 1..Len(pQueue) /\ j + 1 \in 1..Len(pQueue) /\ i + 1 < j + 1
        /\ pQueue'[i] = pQueue[i + 1] /\ pQueue'[j] = pQueue[j + 1]
    BY <1>3, <2>1
  <2>3. pState[pQueue[i + 1][1]] = "PROPOSAL_ACCEPTED" /\ pQueue[i + 1][2] \in Starts /\ pQueue[j + 1][2] \in Ends
    BY <2>1, <2>2, Zenon DEF ProviderIsCarried, PairsFit
  <2> QED
    BY <1>5, <2>2, <2>3, Zenon
<1>11. WaitsFit'
  <2>1. \A w \in pWaits : w[1] \in Deals \ {d}
    BY <1>2, Zenon DEF HasWait, ProviderTypes
  <2>2. \A w \in pWaits' : ProviderAwaits(pState'[w[1]], w[2]) /\ ~HasEvent(pQueue', w[1])
    BY <1>1, <1>6, <1>7, <2>1, Zenon DEF ProviderIsCarried, WaitsFit
  <2>3. \A v, w \in pWaits' : v[1] = w[1] => v = w
    BY <2>1, Zenon DEF ProviderIsCarried, WaitsFit
  <2> QED
    BY <2>2, <2>3, Zenon DEF WaitsFit
<1>12. TransfersFit'
  <2>1. SUFFICES ASSUME NEW e \in transfers
                 PROVE  \/ /\ pState'[e] = "PROPOSAL_ACCEPTED"
                           /\ \A i \in 1..Len(pQueue') : pQueue'[i][1] = e => pQueue'[i][2] \in Starts
                        \/ pState'[e] \in {"WAITING_FOR_DATA", "TRANSFERRING"} /\ ~HasEvent(pQueue', e)
    BY Zenon DEF TransfersFit
  <2>2. e \in Deals \ {d} /\ pState'[e] = pState[e]
    BY <1>1, <1>2, Zenon DEF ProviderTypes
  <2>3. \/ /\ pState[e] = "PROPOSAL_ACCEPTED"
           /\ \A i \in 1..Len(pQueue) : pQueue[i][1] = e => pQueue[i][2] \in Starts
        \/ pState[e] \in {"WAITING_FOR_DATA", "TRANSFERRING"} /\ ~HasEvent(pQueue, e)
    BY Zenon DEF ProviderIsCarried, TransfersFit
  <2> QED
    BY <1>3, <1>7, <2>2, <2>3
<1>13. AcceptedFit'
  BY <1>1, <1>8, Zenon DEF ProviderIsCarried, AcceptedFit
<1> QED
  BY <1>1, <1>9, <1>10, <1>11, <1>12, <1>13, Zenon DEF ProviderIsCarried

\* A tick that sends an event for a deal that has nothing else to come.
LEMMA NextKeeps ==
  ASSUME ProviderTypes, ProviderIsCarried, NEW d \in Deals, NEW event, event \notin Starts,
         NEW x \in Deals, NEW next \in ProviderEvents, pHandle(d, event, << <<x, next>> >>),
         pState[x] # "none", \A i \in 1..Len(pQueue) : pQueue[i][1] = x => i = 1,
         ~HasWait(pWaits, x), x \notin transfers,
         ProviderExpects(pState'[x], next), x = d \/ pState'[d] # "PROPOSAL_ACCEPTED",
         UNCHANGED <<pWaits, transfers>>
  PROVE  ProviderIsCarried'
<1>1. /\ pQueue[1] = <<d, event>> /\ Len(pQueue) \in Nat /\ Len(pQueue) >= 1
      /\ \A e \in Deals \ {d} : pState'[e] = pState[e]
      /\ pTick' = (pQueue' # <<>>)
  BY ProviderTakes, Zenon
<1>2. ~HasWait(pWaits, d) /\ d \notin transfers /\ \A i \in 1..Len(pQueue) : pQueue[i][1] = d => i = 1
  BY FirstEvent, Zenon
<1>3. /\ Len(pQueue') = Len(pQueue)
      /\ \A i \in 1..Len(pQueue') : i # Len(pQueue) => i + 1 \in 1..Len(pQueue) /\ pQueue'[i] = pQueue[i + 1]
      /\ \A i \in 1..Len(pQueue) : i # 1 => i - 1 \in 1..Len(pQueue') /\ pQueue'[i - 1] = pQueue[i]
      /\ pQueue'[Len(pQueue)] = <<x, next>>
  <2>1. Len(pQueue') = Len(pQueue) /\ pQueue'[Len(pQueue)] = <<x, next>>
    <3>1. <<x, next>> \in Deals \X ProviderEvents
      BY Zenon
    <3>2. pQueue # <<>> /\ pQueue' = Tail(pQueue) \o << <<x, next>> >> /\ pQueue \in Seq(Deals \X ProviderEvents)
      BY ProviderTakes, Zenon DEF ProviderTypes
    <3> QED
      BY <3>1, <3>2, TakenSent
  <2>2. \A i \in 1..Len(pQueue') : i # Len(pQueue) => i + 1 \in 1..Len(pQueue) /\ pQueue'[i] = pQueue[i + 1]
    BY ProviderSendQueue, Zenon
  <2>3. \A i \in 1..Len(pQueue) : i # 1 => i - 1 \in 1..Len(pQueue') /\ pQueue'[i - 1] = pQueue[i]
    BY ProviderSendQueue, Zenon
  <2> QED
    BY <2>1, <2>2, <2>3, Zenon
<1>4. \A i \in 1..Len(pQueue) : pQueue[i][1] \in Deals
  BY DEF ProviderTypes
<1>5. \A i \in 1..Len(pQueue') : i # Len(pQueue) =>
        pQueue'[i][1] \in Deals \ {d, x} /\ pState'[pQueue'[i][1]] = pState[pQueue'[i][1]]
  BY <1>1, <1>2, <1>3, <1>4
<1>6. HasEvent(pQueue', x) /\ (d # x => ~HasEvent(pQueue', d))
  BY <1>1, <1>3, <1>5, SMTT(40) DEF HasEvent
<1>7. \A e \in Deals \ {x} : HasEvent(pQueue', e) => HasEvent(pQueue, e)
  BY <1>3 DEF HasEvent
<1>8. \A e \in Deals \ {d} : HasEvent(pQueue, e) => HasEvent(pQueue', e)
  BY <1>1, <1>3, SMTT(40) DEF HasEvent
<1>9. EventsFit'
  <2>1. SUFFICES ASSUME NEW i \in 1..Len(pQueue')
                 PROVE  \/ ProviderExpects(pState'[pQueue'[i][1]], pQueue'[i][2])
                        \/ \E k \in 1..Len(pQueue') : k < i /\ pQueue'[k][1] = pQueue'[i][1]
    BY Zenon DEF EventsFit
  <2>2. CASE i = Len(pQueue)
    BY <1>3, <2>2
  <2>3. CASE i # Len(pQueue)
    <3>1. \/ ProviderExpects(pState[pQueue[i + 1][1]], pQueue[i + 1][2])
          \/ \E k \in 1..Len(pQueue) : k < i + 1 /\ pQueue[k][1] = pQueue[i + 1][1]
      BY <1>3, <2>3, Zenon DEF ProviderIsCarried, EventsFit
    <3>2. CASE ProviderExpects(pState[pQueue[i + 1][1]], pQueue[i + 1][2])
      BY <1>3, <1>5, <2>3, <3>2, Zenon
    <3>3. ASSUME NEW k \in 1..Len(pQueue), k < i + 1, pQueue[k][1] = pQueue[i + 1][1]
          PROVE  \E l \in 1..Len(pQueue') : l < i /\ pQueue'[l][1] = pQueue'[i][1]
      <4>1. k # 1
        BY <1>1, <1>3, <1>5, <2>3, <3>3
      <4>2. k - 1 \in 1..Len(pQueue') /\ pQueue'[k - 1] = pQueue[k] /\ k - 1 < i
        BY <1>3, <3>3, <4>1
      <4> QED
        BY <1>3, <2>3, <3>3, <4>2, Zenon
    <3> QED
      BY <3>1, <3>2, <3>3, Zenon
  <2> QED
    BY <2>2, <2>3, Zenon
<1>10. PairsFit'
  <2>1. SUFFICES ASSUME NEW i \in 1..Len(pQueue'), NEW j \in 1..Len(pQueue'), i < j, pQueue'[i][1] = pQueue'[j][1]
                 PROVE  pState'[pQueue'[i][1]] = "PROPOSAL_ACCEPTED" /\ pQueue'[i][2] \in Starts /\ pQueue'[j][2] \in Ends
    BY Zenon DEF PairsFit
  <2>2. i # Len(pQueue)
    BY <1>1, <1>3, <2>1
  <2>3. j # Len(pQueue)
    BY <1>3, <1>5, <2>1, <2>2
  <2>4. /\ i + 1 \in 1..Len(pQueue) /\ j + 1 \in 1..Len(pQueue) /\ i + 1 < j + 1
        /\ pQueue'[i] = pQueue[i + 1] /\ pQueue'[j] = pQueue[j + 1]
    BY <1>3, <2>1, <2>2, <2>3
  <2>5. pState[pQueue[i + 1][1]] = "PROPOSAL_ACCEPTED" /\ pQueue[i + 1][2] \in Starts /\ pQueue[j + 1][2] \in Ends
    BY <2>1, <2>4, Zenon DEF ProviderIsCarried, PairsFit
  <2> QED
    BY <1>5, <2>2, <2>4, <2>5, Zenon
<1>11. WaitsFit'
  <2>1. \A w \in pWaits : w[1] \in Deals \ {d, x}
    BY <1>2, Zenon DEF HasWait, ProviderTypes
  <2>2. \A w \in pWaits : ProviderAwaits(pState'[w[1]], w[2]) /\ ~HasEvent(pQueue', w[1])
    BY <1>1, <1>7, <2>1, Zenon DEF ProviderIsCarried, WaitsFit
  <2>3. \A v, w \in pWaits : v[1] = w[1] => v = w
    BY Zenon DEF ProviderIsCarried, WaitsFit
  <2> QED
    BY <2>2, <2>3, Zenon DEF WaitsFit
<1>12. TransfersFit'
  <2>1. SUFFICES ASSUME NEW e \in transfers
                 PROVE  \/ /\ pState'[e] = "PROPOSAL_ACCEPTED"
                           /\ \A i \in 1..Len(pQueue') : pQueue'[i][1] = e => pQueue'[i][2] \in Starts
                        \/ pState'[e] \in {"WAITING_FOR_DATA", "TRANSFERRING"} /\ ~HasEvent(pQueue', e)
    BY Zenon DEF TransfersFit
  <2>2. e \in Deals \ {d, x} /\ pState'[e] = pState[e]
    BY <1>1, <1>2, Zenon DEF ProviderTypes
  <2>3. \/ /\ pState[e] = "PROPOSAL_ACCEPTED"
           /\ \A i \in 1..Len(pQueue) : pQueue[i][1] = e => pQueue[i][2] \in Starts
        \/ pState[e] \in {"WAITING_FOR_DATA", "TRANSFERRING"} /\ ~HasEvent(pQueue, e)
    BY Zenon DEF ProviderIsCarried, TransfersFit
  <2>4. \A i \in 1..Len(pQueue') : pQueue'[i][1] = e => i + 1 \in 1..Len(pQueue) /\ pQueue'[i] = pQueue[i + 1]
    BY <1>3, <2>2
  <2> QED
    BY <1>7, <2>2, <2>3, <2>4
<1>13. AcceptedFit'
  BY <1>1, <1>6, <1>8, Zenon DEF ProviderIsCarried, AcceptedFit
<1> QED
  BY <1>1, <1>9, <1>10, <1>11, <1>12, <1>13, Zenon DEF ProviderIsCarried

\* A tick that starts to wait for data: the transfer may be over already.
LEMMA StartKeeps ==
  ASSUME ProviderTypes, ProviderIsCarried, NEW d \in Deals, NEW event \in Starts, pHandle(d, event, <<>>),
         UNCHANGED <<pWaits, transfers>>
  PROVE  ProviderIsCarried'
<1>1. /\ pQueue[1] = <<d, event>> /\ Len(pQueue) \in Nat /\ Len(pQueue) >= 1
      /\ \A e \in Deals \ {d} : pState'[e] = pState[e]
      /\ pTick' = (pQueue' # <<>>)
      /\ ProviderMoves(pState[d], event, pState'[d])
  BY ProviderTakes, Zenon
<1>2. ~HasWait(pWaits, d)
  BY FirstEvent, Zenon
<1>3. /\ Len(pQueue') = Len(pQueue) - 1
      /\ \A i \in 1..Len(pQueue') : i + 1 \in 1..Len(pQueue) /\ pQueue'[i] = pQueue[i + 1]
      /\ \A i \in 1..Len(pQueue) : i # 1 => i - 1 \in 1..Len(pQueue') /\ pQueue'[i - 1] = pQueue[i]
  BY ProviderTickQueue, Zenon
<1>4. \A i \in 1..Len(pQueue') : pQueue'[i][1] \in Deals
  BY <1>3 DEF ProviderTypes
<1>5. pState[d] = "PROPOSAL_ACCEPTED" /\ pState'[d] \in {"WAITING_FOR_DATA", "TRANSFERRING"}
  BY <1>1, Zenon DEF ProviderMoves, Starts
<1>6. \A i \in 1..Len(pQueue') : pQueue'[i][1] = d => pQueue'[i][2] \in Ends
  <2>1. \A i \in 1..Len(pQueue) : 1 < i /\ pQueue[i][1] = d => pQueue[i][2] \in Ends
    BY <1>1 DEF ProviderIsCarried, PairsFit
  <2>2. \A i \in 1..Len(pQueue') : 1 < i + 1
    OBVIOUS
  <2> QED
    BY <1>3, <2>1, <2>2, SMTT(40)
<1>7. \A e \in Deals : HasEvent(pQueue', e) => HasEvent(pQueue, e)
  BY <1>3 DEF HasEvent
<1>8. \A e \in Deals \ {d} : HasEvent(pQueue, e) => HasEvent(pQueue', e)
  BY <1>1, <1>3 DEF HasEvent
<1>9. EventsFit'
  <2>1. SUFFICES ASSUME NEW i \in 1..Len(pQueue')
                 PROVE  \/ ProviderExpects(pState'[pQueue'[i][1]], pQueue'[i][2])
                        \/ \E k \in 1..Len(pQueue') : k < i /\ pQueue'[k][1] = pQueue'[i][1]
    BY Zenon DEF EventsFit
  <2>2. CASE pQueue'[i][1] = d
    BY <1>5, <1>6, <2>2, Zenon DEF ProviderExpects, Ends
  <2>3. CASE pQueue'[i][1] # d
    <3>1. \/ ProviderExpects(pState[pQueue[i + 1][1]], pQueue[i + 1][2])
          \/ \E k \in 1..Len(pQueue) : k < i + 1 /\ pQueue[k][1] = pQueue[i + 1][1]
      BY <1>3, Zenon DEF ProviderIsCarried, EventsFit
    <3>2. CASE ProviderExpects(pState[pQueue[i + 1][1]], pQueue[i + 1][2])
      BY <1>1, <1>3, <1>4, <2>3, <3>2
    <3>3. ASSUME NEW k \in 1..Len(pQueue), k < i + 1, pQueue[k][1] = pQueue[i + 1][1]
          PROVE  \E l \in 1..Len(pQueue') : l < i /\ pQueue'[l][1] = pQueue'[i][1]
      <4>1. k # 1
        BY <1>1, <1>3, <2>3, <3>3
      <4>2. k - 1 \in 1..Len(pQueue') /\ pQueue'[k - 1] = pQueue[k] /\ k - 1 < i
        BY <1>3, <3>3, <4>1
      <4> QED
        BY <1>3, <3>3, <4>2, Zenon
    <3> QED
      BY <3>1, <3>2, <3>3, Zenon
  <2> QED
    BY <2>2, <2>3, Zenon
<1>10. PairsFit'
  <2>1. SUFFICES ASSUME NEW i \in 1..Len(pQueue'), NEW j \in 1..Len(pQueue'), i < j, pQueue'[i][1] = pQueue'[j][1]
                 PROVE  pState'[pQueue'[i][1]] = "PROPOSAL_ACCEPTED" /\ pQueue'[i][2] \in Starts /\ pQueue'[j][2] \in Ends
    BY Zenon DEF PairsFit
  <2>2. /\ i + 1 \in 1..Len(pQueue) /\ j + 1 \in 1..Len(pQueue) /\ i + 1 < j + 1
        /\ pQueue'[i] = pQueue[i + 1] /\ pQueue'[j] = pQueue[j + 1]
    BY <1>3, <2>1
  <2>3. pState[pQueue[i + 1][1]] = "PROPOSAL_ACCEPTED" /\ pQueue[i + 1][2] \in Starts /\ pQueue[j + 1][2] \in Ends
    BY <2>1, <2>2, Zenon DEF ProviderIsCarried, PairsFit
  <2>4. pQueue'[i][1] # d
    BY <1>6, <2>2, <2>3, Zenon DEF Starts, Ends
  <2> QED
    BY <1>1, <1>4, <2>2, <2>3, <2>4, Zenon
<1>11. WaitsFit'
  <2>1. \A w \in pWaits : w[1] \in Deals \ {d}
    BY <1>2, Zenon DEF HasWait, ProviderTypes
  <2>2. \A w \in pWaits : ProviderAwaits(pState'[w[1]], w[2]) /\ ~HasEvent(pQueue', w[1])
    BY <1>1, <1>7, <2>1, Zenon DEF ProviderIsCarried, WaitsFit
  <2>3. \A v, w \in pWaits : v[1] = w[1] => v = w
    BY Zenon DEF ProviderIsCarried, WaitsFit
  <2> QED
    BY <2>2, <2>3, Zenon DEF WaitsFit
<1>12. TransfersFit'
  <2>1. SUFFICES ASSUME NEW e \in transfers
                 PROVE  \/ /\ pState'[e] = "PROPOSAL_ACCEPTED"
                           /\ \A i \in 1..Len(pQueue') : pQueue'[i][1] = e => pQueue'[i][2] \in Starts
                        \/ pState'[e] \in {"WAITING_FOR_DATA", "TRANSFERRING"} /\ ~HasEvent(pQueue', e)
    BY Zenon DEF TransfersFit
  <2>2. \/ /\ pState[e] = "PROPOSAL_ACCEPTED"
           /\ \A i \in 1..Len(pQueue) : pQueue[i][1] = e => pQueue[i][2] \in Starts
        \/ pState[e] \in {"WAITING_FOR_DATA", "TRANSFERRING"} /\ ~HasEvent(pQueue, e)
    BY Zenon DEF ProviderIsCarried, TransfersFit
  <2>3. CASE e = d
    <3>1. \A i \in 1..Len(pQueue') : pQueue'[i][1] = d => pQueue'[i][2] \in Starts
      BY <1>3, <1>5, <2>2, <2>3, Zenon
    <3>2. ~HasEvent(pQueue', d)
      BY <1>6, <3>1, Zenon DEF HasEvent, Starts, Ends
    <3> QED
      BY <1>5, <2>3, <3>2, Zenon
  <2>4. CASE e # d
    <3>1. pState'[e] = pState[e] /\ e \in Deals
      BY <1>1, <2>4, Zenon DEF ProviderTypes
    <3> QED
      BY <1>3, <1>7, <2>2, <3>1
  <2> QED
    BY <2>3, <2>4, Zenon
<1>13. AcceptedFit'
  BY <1>1, <1>5, <1>8, Zenon DEF ProviderIsCarried, AcceptedFit
<1> QED
  BY <1>1, <1>9, <1>10, <1>11, <1>12, <1>13, Zenon DEF ProviderIsCarried

\* An event from outside, for a deal that had nothing else to come.
LEMMA OutsideKeeps ==
  ASSUME ProviderTypes, ProviderIsCarried, NEW d \in Deals, NEW event \in ProviderEvents, pSend(d, event),
         \A e \in Deals \ {d} : pState'[e] = pState[e],
         ~HasEvent(pQueue, d), pState'[d] # "none", ProviderExpects(pState'[d], event),
         transfers' \subseteq transfers, d \notin transfers', pWaits' \subseteq pWaits, ~HasWait(pWaits', d)
  PROVE  ProviderIsCarried'
<1>1. \A e \in Deals : pState'[e] = "none" => pState[e] = "none"
  BY Zenon
<1>2. /\ pQueue' # <<>> /\ Len(pQueue') = Len(pQueue) + 1 /\ Len(pQueue) \in Nat
      /\ \A i \in 1..Len(pQueue) : i \in 1..Len(pQueue') /\ pQueue'[i] = pQueue[i]
      /\ \A i \in 1..Len(pQueue') : i \in 1..Len(pQueue) \/ i = Len(pQueue) + 1
      /\ pQueue'[Len(pQueue) + 1] = <<d, event>>
  BY <1>1, ProviderOutsideQueue, Zenon
<1>3. \A e \in Deals \ {d} : HasEvent(pQueue', e) <=> HasEvent(pQueue, e)
  BY <1>1, ProviderOutsideQueue, Zenon
<1>4. pTick' = (pQueue' # <<>>)
  <2>1. pTick' = TRUE
    BY <1>1, ProviderOutsideQueue, Zenon DEF ProviderIsCarried
  <2> QED
    BY <1>2, <2>1, Zenon
<1>5. HasEvent(pQueue', d)
  BY <1>2 DEF HasEvent
<1>6. \A i \in 1..Len(pQueue) : pQueue[i][1] \in Deals \ {d} /\ pState'[pQueue[i][1]] = pState[pQueue[i][1]]
  BY DEF ProviderTypes, HasEvent
<1>7. EventsFit'
  <2>1. SUFFICES ASSUME NEW i \in 1..Len(pQueue')
                 PROVE  \/ ProviderExpects(pState'[pQueue'[i][1]], pQueue'[i][2])
                        \/ \E k \in 1..Len(pQueue') : k < i /\ pQueue'[k][1] = pQueue'[i][1]
    BY Zenon DEF EventsFit
  <2>2. CASE i = Len(pQueue) + 1
    BY <1>2, <2>2
  <2>3. CASE i \in 1..Len(pQueue)
    <3>1. \/ ProviderExpects(pState[pQueue[i][1]], pQueue[i][2])
          \/ \E k \in 1..Len(pQueue) : k < i /\ pQueue[k][1] = pQueue[i][1]
      BY <2>3, Zenon DEF ProviderIsCarried, EventsFit
    <3> QED
      BY <1>2, <1>6, <2>3, <3>1, Zenon
  <2> QED
    BY <1>2, <2>2, <2>3, Zenon
<1>8. PairsFit'
  <2>1. SUFFICES ASSUME NEW i \in 1..Len(pQueue'), NEW j \in 1..Len(pQueue'), i < j, pQueue'[i][1] = pQueue'[j][1]
                 PROVE  pState'[pQueue'[i][1]] = "PROPOSAL_ACCEPTED" /\ pQueue'[i][2] \in Starts /\ pQueue'[j][2] \in Ends
    BY Zenon DEF PairsFit
  <2>2. i \in 1..Len(pQueue)
    BY <1>2, <2>1
  <2>3. j \in 1..Len(pQueue)
    BY <1>2, <1>6, <2>1, <2>2
  <2>4. pQueue'[i] = pQueue[i] /\ pQueue'[j] = pQueue[j]
    BY <1>2, <2>2, <2>3, Zenon
  <2>5. pState[pQueue[i][1]] = "PROPOSAL_ACCEPTED" /\ pQueue[i][2] \in Starts /\ pQueue[j][2] \in Ends
    BY <2>1, <2>2, <2>3, <2>4, Zenon DEF ProviderIsCarried, PairsFit
  <2> QED
    BY <1>6, <2>2, <2>4, <2>5, Zenon
<1>9. WaitsFit'
  <2>1. \A w \in pWaits' : w[1] \in Deals \ {d}
    BY Zenon DEF HasWait, ProviderTypes
  <2>2. \A w \in pWaits' : ProviderAwaits(pState'[w[1]], w[2]) /\ ~HasEvent(pQueue', w[1])
    BY <1>3, <2>1, Zenon DEF ProviderIsCarried, WaitsFit
  <2>3. \A v, w \in pWaits' : v[1] = w[1] => v = w
    BY Zenon DEF ProviderIsCarried, WaitsFit
  <2> QED
    BY <2>2, <2>3, Zenon DEF WaitsFit
<1>10. TransfersFit'
  <2>1. SUFFICES ASSUME NEW e \in transfers'
                 PROVE  \/ /\ pState'[e] = "PROPOSAL_ACCEPTED"
                           /\ \A i \in 1..Len(pQueue') : pQueue'[i][1] = e => pQueue'[i][2] \in Starts
                        \/ pState'[e] \in {"WAITING_FOR_DATA", "TRANSFERRING"} /\ ~HasEvent(pQueue', e)
    BY Zenon DEF TransfersFit
  <2>2. e \in Deals \ {d} /\ pState'[e] = pState[e] /\ e \in transfers
    BY Zenon DEF ProviderTypes
  <2>3. \/ /\ pState[e] = "PROPOSAL_ACCEPTED"
           /\ \A i \in 1..Len(pQueue) : pQueue[i][1] = e => pQueue[i][2] \in Starts
        \/ pState[e] \in {"WAITING_FOR_DATA", "TRANSFERRING"} /\ ~HasEvent(pQueue, e)
    BY <2>2, Zenon DEF ProviderIsCarried, TransfersFit
  <2>4. \A i \in 1..Len(pQueue') : pQueue'[i][1] = e => i \in 1..Len(pQueue) /\ pQueue'[i] = pQueue[i]
    BY <1>2, <2>2
  <2> QED
    BY <1>3, <2>2, <2>3, <2>4, Zenon
<1>11. AcceptedFit'
  BY <1>3, <1>5, Zenon DEF ProviderIsCarried, AcceptedFit
<1> QED
  BY <1>4, <1>7, <1>8, <1>9, <1>10, <1>11, Zenon DEF ProviderIsCarried

\* A transfer may end before the deal has begun to wait for it.
LEMMA TransferEndsKeeps ==
  ASSUME ProviderTypes, ProviderIsCarried, NEW d \in Deals, TransferEnds(d)
  PROVE  ProviderIsCarried'
<1>1. PICK event \in Ends : pSend(d, event)
  BY Zenon DEF TransferEnds, Ends
<1>2. /\ event \in ProviderEvents /\ d \in transfers /\ transfers' = transfers \ {d}
      /\ UNCHANGED <<pState, pWaits>>
  BY Zenon DEF TransferEnds, Ends, ProviderEvents
<1>3. ~HasWait(pWaits, d)
  BY <1>2, Zenon DEF HasWait, ProviderIsCarried, WaitsFit, TransfersFit, ProviderAwaits
<1>4. CASE pState[d] \in {"WAITING_FOR_DATA", "TRANSFERRING"}
  <2>1. ~HasEvent(pQueue, d) /\ ProviderExpects(pState[d], event)
    BY <1>2, <1>4, Zenon DEF ProviderIsCarried, TransfersFit, ProviderExpects, Ends
  <2> QED
    BY <1>1, <1>2, <1>3, <1>4, <2>1, OutsideKeeps, Zenon
<1>5. CASE pState[d] = "PROPOSAL_ACCEPTED"
  <2>1. \A i \in 1..Len(pQueue) : pQueue[i][1] = d => pQueue[i][2] \in Starts
    BY <1>2, <1>5, Zenon DEF ProviderIsCarried, TransfersFit
  <2>2. PICK f \in 1..Len(pQueue) : pQueue[f][1] = d
    BY <1>5, Zenon DEF ProviderIsCarried, AcceptedFit, HasEvent
  <2>3. /\ pQueue' # <<>> /\ Len(pQueue') = Len(pQueue) + 1 /\ Len(pQueue) \in Nat
        /\ \A i \in 1..Len(pQueue) : i \in 1..Len(pQueue') /\ pQueue'[i] = pQueue[i]
        /\ \A i \in 1..Len(pQueue') : i \in 1..Len(pQueue) \/ i = Len(pQueue) + 1
        /\ pQueue'[Len(pQueue) + 1] = <<d, event>>
    BY <1>1, <1>2, <1>5, ProviderOutsideQueue, Zenon
  <2>4. \A e \in Deals \ {d} : HasEvent(pQueue', e) <=> HasEvent(pQueue, e)
    BY <1>1, <1>2, <1>5, ProviderOutsideQueue, Zenon
  <2>5. pTick' = (pQueue' # <<>>)
    <3>1. pTick' = TRUE
      BY <1>1, <1>2, <1>5, ProviderOutsideQueue, Zenon DEF ProviderIsCarried
    <3> QED
      BY <2>3, <3>1, Zenon
  <2>6. EventsFit'
    <3>1. SUFFICES ASSUME NEW i \in 1..Len(pQueue')
                   PROVE  \/ ProviderExpects(pState'[pQueue'[i][1]], pQueue'[i][2])
                          \/ \E k \in 1..Len(pQueue') : k < i /\ pQueue'[k][1] = pQueue'[i][1]
      BY Zenon DEF EventsFit
    <3>2. CASE i = Len(pQueue) + 1
      BY <2>2, <2>3, <3>2
    <3>3. CASE i \in 1..Len(pQueue)
      <4>1. \/ ProviderExpects(pState[pQueue[i][1]], pQueue[i][2])
            \/ \E k \in 1..Len(pQueue) : k < i /\ pQueue[k][1] = pQueue[i][1]
        BY <3>3, Zenon DEF ProviderIsCarried, EventsFit
      <4> QED
        BY <1>2, <2>3, <3>3, <4>1, Zenon
    <3> QED
      BY <2>3, <3>2, <3>3, Zenon
  <2>7. PairsFit'
    <3>1. SUFFICES ASSUME NEW i \in 1..Len(pQueue'), NEW j \in 1..Len(pQueue'), i < j, pQueue'[i][1] = pQueue'[j][1]
                   PROVE  pState'[pQueue'[i][1]] = "PROPOSAL_ACCEPTED" /\ pQueue'[i][2] \in Starts /\ pQueue'[j][2] \in Ends
      BY Zenon DEF PairsFit
    <3>2. i \in 1..Len(pQueue) /\ pQueue'[i] = pQueue[i]
      BY <2>3, <3>1
    <3>3. CASE j = Len(pQueue) + 1
      BY <1>2, <1>5, <2>1, <2>3, <3>1, <3>2, <3>3
    <3>4. CASE j \in 1..Len(pQueue)
      <4>1. pQueue'[j] = pQueue[j]
        BY <2>3, <3>4, Zenon
      <4>2. pState[pQueue[i][1]] = "PROPOSAL_ACCEPTED" /\ pQueue[i][2] \in Starts /\ pQueue[j][2] \in Ends
        BY <3>1, <3>2, <3>4, <4>1, Zenon DEF ProviderIsCarried, PairsFit
      <4> QED
        BY <1>2, <3>2, <4>1, <4>2, Zenon
    <3> QED
      BY <2>3, <3>3, <3>4, Zenon
  <2>8. WaitsFit'
    <3>1. \A w \in pWaits : w[1] \in Deals \ {d}
      BY <1>3, Zenon DEF HasWait, ProviderTypes
    <3>2. \A w \in pWaits : ProviderAwaits(pState[w[1]], w[2]) /\ ~HasEvent(pQueue', w[1])
      BY <2>4, <3>1, Zenon DEF ProviderIsCarried, WaitsFit
    <3>3. \A v, w \in pWaits : v[1] = w[1] => v = w
      BY Zenon DEF ProviderIsCarried, WaitsFit
    <3> QED
      BY <1>2, <3>2, <3>3, Zenon DEF WaitsFit
  <2>9. TransfersFit'
    <3>1. SUFFICES ASSUME NEW e \in transfers \ {d}
                   PROVE  \/ /\ pState[e] = "PROPOSAL_ACCEPTED"
                             /\ \A i \in 1..Len(pQueue') : pQueue'[i][1] = e => pQueue'[i][2] \in Starts
                          \/ pState[e] \in {"WAITING_FOR_DATA", "TRANSFERRING"} /\ ~HasEvent(pQueue', e)
      BY <1>2, Zenon DEF TransfersFit
    <3>2. \/ /\ pState[e] = "PROPOSAL_ACCEPTED"
             /\ \A i \in 1..Len(pQueue) : pQueue[i][1] = e => pQueue[i][2] \in Starts
          \/ pState[e] \in {"WAITING_FOR_DATA", "TRANSFERRING"} /\ ~HasEvent(pQueue, e)
      BY Zenon DEF ProviderIsCarried, TransfersFit
    <3>3. \A i \in 1..Len(pQueue') : pQueue'[i][1] = e => i \in 1..Len(pQueue) /\ pQueue'[i] = pQueue[i]
      BY <2>3
    <3>4. e \in Deals \ {d}
      BY Zenon DEF ProviderTypes
    <3> QED
      BY <2>4, <3>2, <3>3, <3>4, Zenon
  <2>10. AcceptedFit'
    <3>1. HasEvent(pQueue', d)
      BY <2>2, <2>3, Zenon DEF HasEvent
    <3> QED
      BY <1>2, <2>4, <3>1, Zenon DEF ProviderIsCarried, AcceptedFit
  <2> QED
    BY <2>5, <2>6, <2>7, <2>8, <2>9, <2>10, Zenon DEF ProviderIsCarried
<1> QED
  BY <1>2, <1>4, <1>5, Zenon DEF ProviderIsCarried, TransfersFit

\* A transfer that is accepted while its deal waits for it.
LEMMA PushKeeps ==
  ASSUME ProviderTypes, ProviderIsCarried, NEW e \in Deals, WaitsForTransfer(e), transfers' = transfers \cup {e},
         UNCHANGED <<pState, pQueue, pTick, pWaits>>
  PROVE  ProviderIsCarried'
<1>1. pState[e] \in {"PROPOSAL_ACCEPTED", "TRANSFERRING"}
  BY Zenon DEF WaitsForTransfer
<1>2. \A i \in 1..Len(pQueue) : pQueue[i] \in Deals \X ProviderEvents
  BY DEF ProviderTypes
<1>3. \A i \in 1..Len(pQueue) : pQueue[i][1] = e => pQueue[i][2] \notin Ends
  BY <1>2 DEF WaitsForTransfer, Ends
<1>4. \A i \in 1..Len(pQueue) : pQueue[i][1] = e => ProviderExpects(pState[e], pQueue[i][2])
  BY <1>3, Zenon DEF ProviderIsCarried, EventsFit, PairsFit
<1>5. CASE pState[e] = "PROPOSAL_ACCEPTED"
  <2>1. \A i \in 1..Len(pQueue) : pQueue[i][1] = e => pQueue[i][2] \in Starts
    BY <1>3, <1>4, <1>5, Zenon DEF ProviderExpects, Starts, Ends
  <2> QED
    BY <1>5, <2>1, Zenon DEF ProviderIsCarried, EventsFit, PairsFit, WaitsFit, TransfersFit, AcceptedFit
<1>6. CASE pState[e] = "TRANSFERRING"
  <2>1. ~HasEvent(pQueue, e)
    BY <1>3, <1>4, <1>6, Zenon DEF ProviderExpects, HasEvent, Ends
  <2> QED
    BY <1>6, <2>1, Zenon DEF ProviderIsCarried, EventsFit, PairsFit, WaitsFit, TransfersFit, AcceptedFit
<1> QED
  BY <1>1, <1>5, <1>6, Zenon

\* Every event has a rule when its turn comes.
LEMMA EventsMatch ==
  ASSUME ProviderTypes, ProviderIsCarried
  PROVE  ~pUnmatched
<1>1. SUFFICES ASSUME pUnmatched PROVE FALSE
  BY Zenon
<1>2. pTick /\ pQueue # <<>>
  BY <1>1, Zenon DEF pUnmatched, ProviderTypes
<1>3. Len(pQueue) \in Nat /\ Len(pQueue) >= 1 /\ Head(pQueue) = pQueue[1] /\ pQueue[1] \in Deals \X ProviderEvents
  BY <1>2, Taken, Zenon DEF ProviderTypes
<1>4. ProviderExpects(pState[pQueue[1][1]], pQueue[1][2])
  BY <1>3 DEF ProviderIsCarried, EventsFit
<1>5. pState[pQueue[1][1]] \in Statuses \cup {"none"}
  BY <1>3, Zenon DEF ProviderTypes
<1>6. \E r \in ProviderRules : r.event = pQueue[1][2] /\ r.from = pState[pQueue[1][1]]
  BY <1>4, <1>5, ProviderRuleFor
<1> QED
  BY <1>1, <1>3, <1>6, Zenon DEF pUnmatched

-----------------------------------------------------------------------------
\* The stream is answered at most once, and is neither opened nor proposed again.
LEMMA ResponseIsSent ==
  ASSUME OtherTypes, NEW d \in Deals, NEW answer \in {"accepted", "rejected", "closed"}, Respond(d, answer)
  PROVE  /\ stream' \in [Deals -> {"none", "sent", "open", "accepted", "rejected", "closed"}]
         /\ \A e \in Deals : stream'[e] \in {"none", "sent"} => stream[e] \in {"none", "sent"}
         /\ \A e \in Deals : stream[e] = "none" => stream'[e] = "none"
<1>1. stream \in [Deals -> {"none", "sent", "open", "accepted", "rejected", "closed"}]
  BY Zenon DEF OtherTypes
<1>2. CASE stream' = stream
  BY <1>1, <1>2, Zenon
<1>3. CASE stream' # stream
  <2>1. /\ getStream(d) # NoDeal /\ stream[getStream(d)] = "open"
        /\ stream' = [stream EXCEPT ![getStream(d)] = answer]
    BY <1>3, Zenon DEF Respond
  <2>2. CidOf[d] \in Cids
    BY WorldAssumption DEF OtherTypes, CidOf
  <2>3. PICK s \in Deals : stream[s] = "open" /\ stream' = [stream EXCEPT ![s] = answer]
    BY <2>1, <2>2, Zenon DEF OtherTypes, getStream
  <2> QED
    BY <1>1, <2>3, Zenon
<1> QED
  BY <1>2, <1>3, Zenon

\* What every tick of the provider keeps.
LEMMA TickStep ==
  ASSUME ClientTruth, ProviderTypes, OtherTypes, ProviderTruth, UNCHANGED cvars,
         NEW d \in Deals, NEW event, NEW sends, pHandle(d, event, sends),
         pQueue' \in Seq(Deals \X ProviderEvents),
         \A i \in 1..Len(pQueue') : pState'[pQueue'[i][1]] # "none",
         \A e \in Deals : InQueue(pQueue', <<e, "DealPublished">>) => InQueue(pQueue, <<e, "DealPublished">>),
         \A e \in Deals : InQueue(pQueue', <<e, "VerifiedData">>) => InQueue(pQueue, <<e, "VerifiedData">>) \/ e \in imported',
         stream' \in [Deals -> {"none", "sent", "open", "accepted", "rejected", "closed"}],
         \A e \in Deals : stream'[e] \in {"none", "sent"} => stream[e] \in {"none", "sent"},
         \A e \in Deals : stream[e] = "none" => stream'[e] = "none",
         publish_msg' = publish_msg \/ (event = "Funded" /\ publish_msg' = [publish_msg EXCEPT ![d] = "sent"]),
         handed' = handed \/ (event = "DealPublished" /\ handed' = handed \cup {d}),
         \A e \in Deals : e \in imported => e \in imported' \/ (event = "Failed" /\ e = d),
         imported' \in SUBSET Deals, extra' \in BOOLEAN,
         pWaits' \in SUBSET (Deals \X {"funding", "publish", "commit", "forgotten"}),
         \A w \in pWaits' : w \in pWaits \/ w[1] = d,
         connections' \in [Cids -> Deals \cup {NoDeal}],
         UNCHANGED <<transfers, setting, ask, pushes, committed, imports, restarts>>
  PROVE  ProviderTypes' /\ OtherTypes' /\ ProviderTruth' /\ ClientTruth'
<1>1. /\ pState' \in [Deals -> Statuses \cup {"none"}] /\ status' \in [Deals -> Statuses]
      /\ pTick' = (pQueue' # <<>>)
  BY ProviderTakes, Zenon
<1>2. ProviderTypes'
  <2>1. pTick' \in BOOLEAN /\ (pTick' => pQueue' # <<>>)
    BY <1>1, Zenon
  <2>2. \A e \in Deals : pState'[e] = "none" => pState[e] = "none" /\ e # d
    BY ProviderTakes
  <2>3. transfers' \in SUBSET Deals /\ \A e \in transfers' : pState'[e] # "none"
    BY <2>2, Zenon DEF ProviderTypes
  <2>4. \A w \in pWaits' : pState'[w[1]] # "none"
    BY <2>2, Zenon DEF ProviderTypes
  <2> QED
    BY <1>1, <2>1, <2>3, <2>4, Zenon DEF ProviderTypes
<1>3. ProviderTruth' /\ \A e \in Deals : publish_msg[e] = "ok" => publish_msg'[e] = "ok"
  BY ProviderTickTruth, Zenon
<1>4. OtherTypes'
  BY DEF OtherTypes, cvars
<1>5. ClientTruth'
  BY <1>3, ProviderKeepsClient, Zenon
<1> QED
  BY <1>2, <1>3, <1>4, <1>5, Zenon

\* A tick that sends nothing,
LEMMA QuietTick ==
  ASSUME ClientTruth, ProviderTypes, OtherTypes, ProviderTruth, UNCHANGED cvars,
         NEW d \in Deals, NEW event, pHandle(d, event, <<>>),
         pWaits' \in SUBSET (Deals \X {"funding", "publish", "commit", "forgotten"}),
         \A w \in pWaits' : w \in pWaits \/ w[1] = d,
         UNCHANGED <<connections, transfers, imported, imports, restarts, extra, worldVars>>
  PROVE  ProviderTypes' /\ OtherTypes' /\ ProviderTruth' /\ ClientTruth'
<1>1. /\ pQueue' \in Seq(Deals \X ProviderEvents)
      /\ \A i \in 1..Len(pQueue') : pState'[pQueue'[i][1]] # "none"
      /\ \A x : InQueue(pQueue', x) => InQueue(pQueue, x)
  BY ProviderTickQueue, Zenon
<1>2. /\ stream \in [Deals -> {"none", "sent", "open", "accepted", "rejected", "closed"}]
      /\ connections \in [Cids -> Deals \cup {NoDeal}] /\ imported \in SUBSET Deals /\ extra \in BOOLEAN
  BY Zenon DEF OtherTypes, ProviderTypes
<1>3. UNCHANGED <<setting, stream, ask, pushes, publish_msg, handed, committed>>
  BY Zenon DEF worldVars
<1> QED
  BY <1>1, <1>2, <1>3, TickStep, Zenon

\* and one that sends an event.
LEMMA BusyTick ==
  ASSUME ClientTruth, ProviderTypes, OtherTypes, ProviderTruth, UNCHANGED cvars,
         NEW d \in Deals, NEW event, NEW x \in Deals, NEW next \in ProviderEvents, pHandle(d, event, << <<x, next>> >>),
         pState[x] # "none", next # "DealPublished", next = "VerifiedData" => x \in imported',
         stream' \in [Deals -> {"none", "sent", "open", "accepted", "rejected", "closed"}],
         \A e \in Deals : stream'[e] \in {"none", "sent"} => stream[e] \in {"none", "sent"},
         \A e \in Deals : stream[e] = "none" => stream'[e] = "none",
         publish_msg' = publish_msg \/ (event = "Funded" /\ publish_msg' = [publish_msg EXCEPT ![d] = "sent"]),
         handed' = handed \/ (event = "DealPublished" /\ handed' = handed \cup {d}),
         imported' = imported \/ imported' = imported \cup {x}, extra' \in BOOLEAN,
         UNCHANGED <<connections, pWaits, transfers, setting, ask, pushes, committed, imports, restarts>>
  PROVE  ProviderTypes' /\ OtherTypes' /\ ProviderTruth' /\ ClientTruth'
<1>1. /\ pQueue' \in Seq(Deals \X ProviderEvents)
      /\ \A i \in 1..Len(pQueue') : pState'[pQueue'[i][1]] # "none"
  BY ProviderSendQueue, Zenon
<1>2. ASSUME NEW y, InQueue(pQueue', y) PROVE InQueue(pQueue, y) \/ (y[1] = x /\ y[2] = next)
  <2>1. \A i \in 1..Len(pQueue') : i # Len(pQueue) => i + 1 \in 1..Len(pQueue) /\ pQueue'[i] = pQueue[i + 1]
    BY ProviderSendQueue, Zenon
  <2>2. pQueue'[Len(pQueue)][1] = x /\ pQueue'[Len(pQueue)][2] = next
    BY ProviderSendQueue
  <2> QED
    BY <1>2, <2>1, <2>2 DEF InQueue
<1>3. ASSUME NEW e \in Deals, InQueue(pQueue', <<e, "DealPublished">>) PROVE InQueue(pQueue, <<e, "DealPublished">>)
  BY <1>2, <1>3
<1>4. ASSUME NEW e \in Deals, InQueue(pQueue', <<e, "VerifiedData">>)
      PROVE  InQueue(pQueue, <<e, "VerifiedData">>) \/ e \in imported'
  BY <1>2, <1>4
<1>5. /\ connections' \in [Cids -> Deals \cup {NoDeal}] /\ imported' \in SUBSET Deals
      /\ pWaits' \in SUBSET (Deals \X {"funding", "publish", "commit", "forgotten"})
      /\ \A e \in Deals : e \in imported => e \in imported'
  BY DEF OtherTypes, ProviderTypes
<1> QED
  BY <1>1, <1>3, <1>4, <1>5, TickStep, Zenon

\* The quiet tick, for what the provider's deals wait for.
LEMMA QuietTickInv ==
  ASSUME ProviderTypes, ProviderInv, NEW d \in Deals, NEW event, pHandle(d, event, <<>>),
         event \notin Starts, pState'[d] # "PROPOSAL_ACCEPTED", UNCHANGED <<transfers, extra>>,
         pWaits' = pWaits \/ \E what : pWaits' = pWaits \cup {<<d, what>>} /\ ProviderAwaits(pState'[d], what)
  PROVE  ProviderInv'
<1>1. CASE extra
  BY <1>1, Zenon DEF ProviderInv
<1>2. CASE ~extra
  <2>1. ProviderIsCarried
    BY <1>2, Zenon DEF ProviderInv
  <2>2. ~HasWait(pWaits, d)
    BY <2>1, FirstEvent, Zenon
  <2>3. \A w \in pWaits' : w \in pWaits \/ (w[1] = d /\ ProviderAwaits(pState'[d], w[2]))
    OBVIOUS
  <2>4. \A v, w \in pWaits' : v[1] = d /\ w[1] = d => v = w
    BY <2>2, Zenon DEF HasWait
  <2>5. ProviderIsCarried'
    BY <2>1, <2>3, <2>4, LastKeeps, Zenon
  <2> QED
    BY <2>5, Zenon DEF ProviderInv
<1> QED
  BY <1>1, <1>2, Zenon

\* The tick that sends an event for its own deal.
LEMMA BusyTickInv ==
  ASSUME ProviderTypes, ProviderInv, NEW d \in Deals, NEW event, NEW next \in ProviderEvents,
         pHandle(d, event, << <<d, next>> >>), event \notin Starts,
         ProviderExpects(pState'[d], next), UNCHANGED <<pWaits, transfers, extra>>
  PROVE  ProviderInv'
<1>1. CASE extra
  BY <1>1, Zenon DEF ProviderInv
<1>2. CASE ~extra
  <2>1. ProviderIsCarried
    BY <1>2, Zenon DEF ProviderInv
  <2>2. ~HasWait(pWaits, d) /\ d \notin transfers /\ \A i \in 1..Len(pQueue) : pQueue[i][1] = d => i = 1
    BY <2>1, FirstEvent, Zenon
  <2>3. pState[d] # "none"
    BY ProviderTakes, Zenon
  <2>4. ProviderIsCarried'
    BY <2>1, <2>2, <2>3, NextKeeps, Zenon
  <2> QED
    BY <2>4, Zenon DEF ProviderInv
<1> QED
  BY <1>1, <1>2, Zenon

\* A tick that the deal itself goes on from, with nothing else changed than the deal's message, hand-over or answer.
LEMMA GoesOn ==
  ASSUME ClientTruth, ProviderTypes, OtherTypes, ProviderTruth, ProviderInv, UNCHANGED cvars,
         NEW d \in Deals, NEW event, event \notin Starts, NEW next \in ProviderEvents, pHandle(d, event, << <<d, next>> >>),
         ProviderExpects(pState'[d], next), next # "DealPublished", next = "VerifiedData" => d \in imported',
         imported' = imported \/ imported' = imported \cup {d},
         stream' \in [Deals -> {"none", "sent", "open", "accepted", "rejected", "closed"}],
         \A e \in Deals : stream'[e] \in {"none", "sent"} => stream[e] \in {"none", "sent"},
         \A e \in Deals : stream[e] = "none" => stream'[e] = "none",
         publish_msg' = publish_msg \/ (event = "Funded" /\ publish_msg' = [publish_msg EXCEPT ![d] = "sent"]),
         handed' = handed \/ (event = "DealPublished" /\ handed' = handed \cup {d}),
         UNCHANGED <<connections, pWaits, transfers, extra, setting, ask, pushes, committed, imports, restarts>>
  PROVE  ProviderTypes' /\ OtherTypes' /\ ProviderTruth' /\ ClientTruth' /\ ProviderInv'
<1>1. pState[d] # "none"
  BY ProviderTakes, Zenon
<1>2. extra' \in BOOLEAN
  BY Zenon DEF ProviderTypes
<1>3. ProviderTypes' /\ OtherTypes' /\ ProviderTruth' /\ ClientTruth'
  BY <1>1, <1>2, BusyTick, Zenon
<1>4. ProviderInv'
  BY BusyTickInv, Zenon
<1> QED
  BY <1>3, <1>4, Zenon
=============================================================================
