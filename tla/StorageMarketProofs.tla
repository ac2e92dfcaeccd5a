------------------------ MODULE StorageMarketProofs -------------------------
(***************************************************************************)
(* Proofs about StorageMarket, for any deals, any proposals they share and *)
(* any of the settings: client, provider and chain agree on deals,         *)
(* whatever order the handlers of the two nodes, the answers of the chain  *)
(* and the losses of the network come in, and however often the provider   *)
(* stops and starts again.  Here are the remaining steps of the provider,  *)
(* those of the network and of the chain, and the theorems; the invariant  *)
(* and the client's steps are in StorageClientProofs.                      *)
(***************************************************************************)
EXTENDS StorageProviderProofs

-----------------------------------------------------------------------------
\* Every tick of the provider.
LEMMA ProviderTickSteps ==
  ASSUME ClientTruth, ProviderTypes, OtherTypes, ProviderTruth, ProviderInv, UNCHANGED cvars,
         NEW d \in Deals,
         \/ onProviderEventOpen(d) \/ onProviderEventDealAccepted(d) \/ onProviderEventWaitingForManualData(d)
         \/ onProviderEventDataTransferInitiated(d) \/ onProviderEventVerifiedData(d)
         \/ onProviderEventFundingInitiated(d) \/ onProviderEventFunded(d) \/ onProviderEventDealPublishInitiated(d)
         \/ onProviderEventDealPublished(d) \/ onProviderEventDealHandedOff(d) \/ onProviderEventDealActivated(d)
  PROVE  ProviderTypes' /\ OtherTypes' /\ ProviderTruth' /\ ClientTruth' /\ ProviderInv'
<1> DEFINE Stream == /\ stream' \in [Deals -> {"none", "sent", "open", "accepted", "rejected", "closed"}]
                     /\ \A e \in Deals : stream'[e] \in {"none", "sent"} => stream[e] \in {"none", "sent"}
                     /\ \A e \in Deals : stream[e] = "none" => stream'[e] = "none"
           Kept == ProviderTypes' /\ OtherTypes' /\ ProviderTruth' /\ ClientTruth' /\ ProviderInv'
<1>1. UNCHANGED stream => Stream
  BY Zenon DEF OtherTypes
<1>2. ProviderEvents = {"Open", "DealAccepted", "WaitingForManualData", "DataTransferInitiated", "DataTransferCompleted",
   "VerifiedData", "FundingInitiated", "Funded", "DealPublishInitiated", "DealPublished",
   "DealHandedOff", "DealActivated", "DealCompleted", "Failed"}
  BY Zenon DEF ProviderEvents
<1>3. pWaits \in SUBSET (Deals \X {"funding", "publish", "commit", "forgotten"})
  BY Zenon DEF ProviderTypes
<1>4. CASE onProviderEventOpen(d)
  <2>1. PICK next \in {"DealAccepted", "Failed"} : pHandle(d, "Open", << <<d, next>> >>)
    BY <1>4, Zenon DEF onProviderEventOpen, Failed
  <2>2. UNCHANGED <<connections, pWaits, transfers, imported, imports, restarts, extra, setting, stream, ask, pushes, publish_msg, handed, committed>>
    BY <1>4, Zenon DEF onProviderEventOpen, worldVars
  <2>3. ProviderMoves(pState[d], "Open", pState'[d])
    BY <2>1, ProviderTakes, Zenon
  <2>4. ProviderExpects(pState'[d], next) /\ "Open" \notin Starts
    BY <2>3, Zenon DEF ProviderMoves, ProviderExpects, Starts
  <2> QED
    BY <1>1, <1>2, <2>1, <2>2, <2>4, GoesOn, Zenon
<1>5. CASE onProviderEventDealAccepted(d)
  <2>1. /\ \E next \in {"WaitingForManualData", "DataTransferInitiated", "Failed"} : pHandle(d, "DealAccepted", << <<d, next>> >>)
        /\ Respond(d, "accepted") \/ UNCHANGED stream
    BY <1>5, Zenon DEF onProviderEventDealAccepted, Failed
  <2>2. PICK next \in {"WaitingForManualData", "DataTransferInitiated", "Failed"} : pHandle(d, "DealAccepted", << <<d, next>> >>)
    BY <2>1, Zenon
  <2>3. Stream
    BY <1>1, <2>1, ResponseIsSent, Zenon
  <2>4. UNCHANGED <<connections, pWaits, transfers, imported, imports, restarts, extra, setting, ask, pushes, publish_msg, handed, committed>>
    BY <1>5, Zenon DEF onProviderEventDealAccepted
  <2>5. ProviderMoves(pState[d], "DealAccepted", pState'[d])
    BY <2>2, ProviderTakes, Zenon
  <2>6. ProviderExpects(pState'[d], next) /\ "DealAccepted" \notin Starts
    BY <2>5, Zenon DEF ProviderMoves, ProviderExpects, Starts
  <2> QED
    BY <1>2, <2>2, <2>3, <2>4, <2>6, GoesOn, Zenon
<1>6. CASE onProviderEventWaitingForManualData(d) \/ onProviderEventDataTransferInitiated(d)
  <2>1. PICK event \in Starts : pHandle(d, event, <<>>)
    BY <1>6, Zenon DEF onProviderEventWaitingForManualData, onProviderEventDataTransferInitiated, Starts
  <2>2. UNCHANGED <<connections, pWaits, transfers, imported, imports, restarts, extra, worldVars>>
    BY <1>6, Zenon DEF onProviderEventWaitingForManualData, onProviderEventDataTransferInitiated
  <2>3. ProviderTypes' /\ OtherTypes' /\ ProviderTruth' /\ ClientTruth'
    BY <1>3, <2>1, <2>2, QuietTick, Zenon
  <2>4. ProviderInv'
    BY <2>1, <2>2, StartKeeps, Zenon DEF ProviderInv
  <2> QED
    BY <2>3, <2>4, Zenon
<1>7. CASE onProviderEventVerifiedData(d)
  <2>1. PICK next \in ensureProviderFunds : pHandle(d, "VerifiedData", << <<d, next>> >>)
    BY <1>7, Zenon DEF onProviderEventVerifiedData
  <2>2. UNCHANGED <<connections, pWaits, transfers, imported, imports, restarts, extra, setting, stream, ask, pushes, publish_msg, handed, committed>>
    BY <1>7, Zenon DEF onProviderEventVerifiedData, worldVars
  <2>3. ProviderMoves(pState[d], "VerifiedData", pState'[d])
    BY <2>1, ProviderTakes, Zenon
  <2>4. ProviderExpects(pState'[d], next) /\ "VerifiedData" \notin Starts /\ next \in {"Failed", "FundingInitiated", "Funded"}
    BY <2>3, Zenon DEF ProviderMoves, ProviderExpects, Starts, ensureProviderFunds
  <2> QED
    BY <1>1, <1>2, <2>1, <2>2, <2>4, GoesOn, Zenon
<1>8. CASE onProviderEventFundingInitiated(d)
  <2>1. /\ pHandle(d, "FundingInitiated", <<>>) /\ pWaits' = pWaits \cup {<<d, "funding">>}
        /\ UNCHANGED <<connections, transfers, imported, imports, restarts, extra, worldVars>>
    BY <1>8, Zenon DEF onProviderEventFundingInitiated
  <2>2. ProviderMoves(pState[d], "FundingInitiated", pState'[d])
    BY <2>1, ProviderTakes, Zenon
  <2>3. ProviderAwaits(pState'[d], "funding") /\ "FundingInitiated" \notin Starts /\ pState'[d] # "PROPOSAL_ACCEPTED"
    BY <2>2, Zenon DEF ProviderMoves, ProviderAwaits, Starts
  <2>4. pWaits' \in SUBSET (Deals \X {"funding", "publish", "commit", "forgotten"})
    BY <1>3, <2>1
  <2>5. ProviderTypes' /\ OtherTypes' /\ ProviderTruth' /\ ClientTruth'
    BY <2>1, <2>4, QuietTick, Zenon
  <2>6. ProviderInv'
    BY <2>1, <2>3, QuietTickInv, Zenon
  <2> QED
    BY <2>5, <2>6, Zenon
<1>9. CASE onProviderEventFunded(d)
  <2>1. PICK next \in {"Failed", "DealPublishInitiated"} :
          /\ pHandle(d, "Funded", << <<d, next>> >>)
          /\ publish_msg' = publish_msg \/ publish_msg' = [publish_msg EXCEPT ![d] = "sent"]
    BY <1>9, Zenon DEF onProviderEventFunded, Failed
  <2>2. UNCHANGED <<connections, pWaits, transfers, imported, imports, restarts, extra, setting, stream, ask, pushes, handed, committed>>
    BY <1>9, Zenon DEF onProviderEventFunded
  <2>3. ProviderMoves(pState[d], "Funded", pState'[d])
    BY <2>1, ProviderTakes, Zenon
  <2>4. ProviderExpects(pState'[d], next) /\ "Funded" \notin Starts
    BY <2>3, Zenon DEF ProviderMoves, ProviderExpects, Starts
  <2> QED
    BY <1>1, <1>2, <2>1, <2>2, <2>4, GoesOn, Zenon
<1>10. CASE onProviderEventDealPublishInitiated(d)
  <2>1. /\ pHandle(d, "DealPublishInitiated", <<>>) /\ pWaits' = pWaits \cup {<<d, "publish">>}
        /\ UNCHANGED <<connections, transfers, imported, imports, restarts, extra, worldVars>>
    BY <1>10, Zenon DEF onProviderEventDealPublishInitiated
  <2>2. ProviderMoves(pState[d], "DealPublishInitiated", pState'[d])
    BY <2>1, ProviderTakes, Zenon
  <2>3. ProviderAwaits(pState'[d], "publish") /\ "DealPublishInitiated" \notin Starts /\ pState'[d] # "PROPOSAL_ACCEPTED"
    BY <2>2, Zenon DEF ProviderMoves, ProviderAwaits, Starts
  <2>4. pWaits' \in SUBSET (Deals \X {"funding", "publish", "commit", "forgotten"})
    BY <1>3, <2>1
  <2>5. ProviderTypes' /\ OtherTypes' /\ ProviderTruth' /\ ClientTruth'
    BY <2>1, <2>4, QuietTick, Zenon
  <2>6. ProviderInv'
    BY <2>1, <2>3, QuietTickInv, Zenon
  <2> QED
    BY <2>5, <2>6, Zenon
<1>11. CASE onProviderEventDealPublished(d)
  <2>1. PICK next \in {"Failed", "DealHandedOff"} :
          pHandle(d, "DealPublished", << <<d, next>> >>) /\ (handed' = handed \/ handed' = handed \cup {d})
    BY <1>11, Zenon DEF onProviderEventDealPublished, Failed
  <2>2. UNCHANGED <<connections, pWaits, transfers, imported, imports, restarts, extra, setting, stream, ask, pushes, publish_msg, committed>>
    BY <1>11, Zenon DEF onProviderEventDealPublished
  <2>3. ProviderMoves(pState[d], "DealPublished", pState'[d])
    BY <2>1, ProviderTakes, Zenon
  <2>4. ProviderExpects(pState'[d], next) /\ "DealPublished" \notin Starts
    BY <2>3, Zenon DEF ProviderMoves, ProviderExpects, Starts
  <2> QED
    BY <1>1, <1>2, <2>1, <2>2, <2>4, GoesOn, Zenon
<1>12. CASE onProviderEventDealHandedOff(d)
  <2>1. UNCHANGED <<connections, transfers, imported, imports, restarts, extra, setting, stream, ask, pushes, publish_msg, handed, committed>>
    BY <1>12, Zenon DEF onProviderEventDealHandedOff, worldVars
  <2>2. CASE UNCHANGED pWaits /\ pHandle(d, "DealHandedOff", << <<d, "DealActivated">> >>)
    <3>1. ProviderMoves(pState[d], "DealHandedOff", pState'[d])
      BY <2>2, ProviderTakes, Zenon
    <3>2. ProviderExpects(pState'[d], "DealActivated") /\ "DealHandedOff" \notin Starts
      BY <3>1, Zenon DEF ProviderMoves, ProviderExpects, Starts
    <3> QED
      BY <1>1, <1>2, <2>1, <2>2, <3>2, GoesOn, Zenon
  <2>3. ASSUME NEW what \in {"commit", "forgotten"}, pWaits' = pWaits \cup {<<d, what>>}, pHandle(d, "DealHandedOff", <<>>)
        PROVE  Kept
    <3>1. ProviderMoves(pState[d], "DealHandedOff", pState'[d])
      BY <2>3, ProviderTakes, Zenon
    <3>2. ProviderAwaits(pState'[d], what) /\ "DealHandedOff" \notin Starts /\ pState'[d] # "PROPOSAL_ACCEPTED"
      BY <3>1, Zenon DEF ProviderMoves, ProviderAwaits, Starts
    <3>3. pWaits' \in SUBSET (Deals \X {"funding", "publish", "commit", "forgotten"})
      BY <1>3, <2>3
    <3>4. UNCHANGED worldVars
      BY <2>1, Zenon DEF worldVars
    <3>5. ProviderTypes' /\ OtherTypes' /\ ProviderTruth' /\ ClientTruth'
      BY <2>1, <2>3, <3>3, <3>4, QuietTick, Zenon
    <3>6. ProviderInv'
      BY <2>1, <2>3, <3>2, QuietTickInv, Zenon
    <3> QED
      BY <3>5, <3>6, Zenon
  <2> QED
    BY <1>12, <2>2, <2>3, Zenon DEF onProviderEventDealHandedOff
<1>13. CASE onProviderEventDealActivated(d)
  <2>1. UNCHANGED <<connections, pWaits, transfers, imported, imports, restarts, extra, setting, stream, ask, pushes, publish_msg, handed, committed>>
    BY <1>13, Zenon DEF onProviderEventDealActivated, worldVars
  <2>2. CASE pHandle(d, "DealActivated", <<>>)
    <3>1. ProviderMoves(pState[d], "DealActivated", pState'[d])
      BY <2>2, ProviderTakes, Zenon
    <3>2. "DealActivated" \notin Starts /\ pState'[d] # "PROPOSAL_ACCEPTED"
      BY <3>1, Zenon DEF ProviderMoves, Starts
    <3>3. UNCHANGED worldVars
      BY <2>1, Zenon DEF worldVars
    <3>4. ProviderTypes' /\ OtherTypes' /\ ProviderTruth' /\ ClientTruth'
      BY <1>3, <2>1, <2>2, <3>3, QuietTick, Zenon
    <3>5. ProviderInv'
      BY <2>1, <2>2, <3>2, QuietTickInv, Zenon
    <3> QED
      BY <3>4, <3>5, Zenon
  <2>3. CASE pHandle(d, "DealActivated", << <<d, "Failed">> >>)
    <3>1. ProviderMoves(pState[d], "DealActivated", pState'[d])
      BY <2>3, ProviderTakes, Zenon
    <3>2. ProviderExpects(pState'[d], "Failed") /\ "DealActivated" \notin Starts
      BY <3>1, Zenon DEF ProviderMoves, ProviderExpects, Starts
    <3> QED
      BY <1>1, <1>2, <2>1, <2>3, <3>2, GoesOn, Zenon
  <2> QED
    BY <1>13, <2>2, <2>3, Zenon DEF onProviderEventDealActivated, Failed
<1> QED
  BY <1>4, <1>5, <1>6, <1>7, <1>8, <1>9, <1>10, <1>11, <1>12, <1>13, Zenon

\* The data of a deal may be imported for another deal of the same proposal.
LEMMA DataArrives ==
  ASSUME ClientTruth, ProviderTypes, OtherTypes, ProviderTruth, ProviderInv, UNCHANGED cvars,
         NEW d \in Deals, onProviderEventDataTransferCompleted(d)
  PROVE  ProviderTypes' /\ OtherTypes' /\ ProviderTruth' /\ ClientTruth' /\ ProviderInv'
<1> DEFINE Stream == /\ stream' \in [Deals -> {"none", "sent", "open", "accepted", "rejected", "closed"}]
                     /\ \A e \in Deals : stream'[e] \in {"none", "sent"} => stream[e] \in {"none", "sent"}
                     /\ \A e \in Deals : stream[e] = "none" => stream'[e] = "none"
<1>1. /\ UNCHANGED <<connections, pWaits, transfers, imports, restarts, setting, stream, ask, pushes, publish_msg, handed, committed>>
      /\ "Failed" \in ProviderEvents /\ "VerifiedData" \in ProviderEvents /\ "DataTransferCompleted" \notin Starts
  BY Zenon DEF onProviderEventDataTransferCompleted, worldVars, ProviderEvents, Starts
<1>2. Stream
  BY <1>1, Zenon DEF OtherTypes
<1>3. CASE pHandle(d, "DataTransferCompleted", << <<d, "Failed">> >>) /\ UNCHANGED <<imported, extra>>
  <2>1. ProviderMoves(pState[d], "DataTransferCompleted", pState'[d])
    BY <1>3, ProviderTakes, Zenon
  <2>2. ProviderExpects(pState'[d], "Failed")
    BY <2>1, Zenon DEF ProviderMoves, ProviderExpects
  <2> QED
    BY <1>1, <1>2, <1>3, <2>2, GoesOn, Zenon
<1>4. ASSUME NEW e \in Tracked(CidOf[d]), pHandle(d, "DataTransferCompleted", << <<e, "VerifiedData">> >>),
             imported' = imported \cup {e}, extra' = (extra \/ (e # d /\ ~WaitsForImport(e)))
      PROVE  ProviderTypes' /\ OtherTypes' /\ ProviderTruth' /\ ClientTruth' /\ ProviderInv'
  <2>1. e \in Deals /\ pState[e] # "none"
    BY Zenon DEF Tracked
  <2>2. extra' \in BOOLEAN
    BY <1>4, Zenon
  <2>3. ProviderTypes' /\ OtherTypes' /\ ProviderTruth' /\ ClientTruth'
    BY <1>1, <1>2, <1>4, <2>1, <2>2, BusyTick, Zenon
  <2>4. /\ \A f \in Deals \ {d} : pState'[f] = pState[f]
        /\ ProviderMoves(pState[d], "DataTransferCompleted", pState'[d])
    BY <1>4, ProviderTakes, Zenon
  <2>5. pState'[d] = "VERIFY_DATA"
    BY <2>4, Zenon DEF ProviderMoves
  <2>6. CASE extra'
    BY <2>3, <2>6, Zenon DEF ProviderInv
  <2>7. CASE ~extra'
    <3>1. ProviderIsCarried
      BY <1>4, <2>7, Zenon DEF ProviderInv
    <3>2. /\ ProviderExpects(pState'[e], "VerifiedData") /\ e \notin transfers /\ ~HasWait(pWaits, e)
          /\ \A i \in 1..Len(pQueue) : pQueue[i][1] = e => i = 1
      <4>1. CASE e = d
        <5>1. d \notin transfers /\ ~HasWait(pWaits, d) /\ \A i \in 1..Len(pQueue) : pQueue[i][1] = d => i = 1
          BY <1>1, <1>4, <3>1, FirstEvent, Zenon
        <5>2. ProviderExpects(pState'[d], "VerifiedData")
          BY <2>5, Zenon DEF ProviderExpects
        <5> QED
          BY <4>1, <5>1, <5>2, Zenon
      <4>2. CASE e # d
        <5>1. WaitsForImport(e)
          BY <1>4, <2>7, <4>2, Zenon
        <5>2. pState[e] = "WAITING_FOR_DATA" /\ e \notin transfers /\ \A i \in 1..Len(pQueue) : pQueue[i][1] # e
          BY <5>1, Zenon DEF WaitsForImport
        <5>3. ~HasWait(pWaits, e)
          BY <3>1, <5>2, Zenon DEF HasWait, ProviderIsCarried, WaitsFit, ProviderAwaits
        <5>4. ProviderExpects(pState'[e], "VerifiedData")
          BY <2>1, <2>4, <4>2, <5>2, Zenon DEF ProviderExpects
        <5> QED
          BY <5>2, <5>3, <5>4, Zenon
      <4> QED
        BY <4>1, <4>2, Zenon
    <3>3. ProviderIsCarried'
      <4>1. UNCHANGED <<pWaits, transfers>> /\ pState'[d] # "PROPOSAL_ACCEPTED"
        BY <1>1, <2>5, Zenon
      <4> QED
        BY <1>1, <1>4, <2>1, <3>1, <3>2, <4>1, NextKeeps, Zenon
    <3> QED
      BY <2>3, <3>3, Zenon DEF ProviderInv
  <2> QED
    BY <2>6, <2>7, Zenon
<1> QED
  BY <1>3, <1>4, Zenon DEF onProviderEventDataTransferCompleted, Failed

\* A deal that fails.
LEMMA DealFails ==
  ASSUME ClientTruth, ProviderTypes, OtherTypes, ProviderTruth, ProviderInv, UNCHANGED cvars,
         NEW d \in Deals, onProviderEventFailed(d)
  PROVE  ProviderTypes' /\ OtherTypes' /\ ProviderTruth' /\ ClientTruth' /\ ProviderInv'
<1>1. /\ pHandle(d, "Failed", <<>>) /\ imported' = imported \ {d}
      /\ connections' = [connections EXCEPT ![CidOf[d]] = NoDeal]
      /\ UNCHANGED <<pWaits, transfers, imports, restarts, extra, setting, ask, pushes, publish_msg, handed, committed>>
  BY Zenon DEF onProviderEventFailed, finalizeDeal
<1>2. /\ stream' \in [Deals -> {"none", "sent", "open", "accepted", "rejected", "closed"}]
      /\ \A e \in Deals : stream'[e] \in {"none", "sent"} => stream[e] \in {"none", "sent"}
      /\ \A e \in Deals : stream[e] = "none" => stream'[e] = "none"
  BY ResponseIsSent, Zenon DEF onProviderEventFailed
<1>3. /\ pQueue' \in Seq(Deals \X ProviderEvents)
      /\ \A i \in 1..Len(pQueue') : pState'[pQueue'[i][1]] # "none"
      /\ \A x : InQueue(pQueue', x) => InQueue(pQueue, x)
  BY <1>1, ProviderTickQueue, Zenon
<1>4. /\ connections' \in [Cids -> Deals \cup {NoDeal}] /\ imported' \in SUBSET Deals /\ extra' \in BOOLEAN
      /\ pWaits' \in SUBSET (Deals \X {"funding", "publish", "commit", "forgotten"})
      /\ \A e \in Deals : e \in imported => e \in imported' \/ e = d
  BY <1>1, Zenon DEF OtherTypes, ProviderTypes
<1>5. ProviderTypes' /\ OtherTypes' /\ ProviderTruth' /\ ClientTruth'
  BY <1>1, <1>2, <1>3, <1>4, TickStep, Zenon
<1>6. ProviderMoves(pState[d], "Failed", pState'[d])
  BY <1>1, ProviderTakes, Zenon
<1>7. "Failed" \notin Starts /\ pState'[d] # "PROPOSAL_ACCEPTED"
  BY <1>6, Zenon DEF ProviderMoves, Starts
<1>8. ProviderInv'
  BY <1>1, <1>7, QuietTickInv, Zenon
<1> QED
  BY <1>5, <1>8, Zenon

\* An event without a rule goes back to the queue, which changes nothing else.
LEMMA EventGoesBack ==
  ASSUME ClientTruth, ProviderTypes, OtherTypes, ProviderTruth, ProviderInv, UNCHANGED cvars, pUnmatched
  PROVE  ProviderTypes' /\ OtherTypes' /\ ProviderTruth' /\ ClientTruth' /\ ProviderInv'
<1>1. /\ UNCHANGED <<pState, status, connections, pWaits, transfers, imported, imports, restarts, extra, worldVars>>
      /\ pTick /\ pTick' = (Tail(pQueue) # <<>>)
      /\ pQueue' = Append(Tail(pQueue), Head(pQueue))
  BY Zenon DEF pUnmatched
<1>2. extra
  BY EventsMatch, Zenon DEF ProviderInv
<1>3. pQueue # <<>> /\ pQueue \in Seq(Deals \X ProviderEvents)
  BY <1>1, Zenon DEF ProviderTypes
<1>4. /\ Len(pQueue) \in Nat /\ Len(pQueue) >= 1 /\ Head(pQueue) = pQueue[1] /\ pQueue[1] \in Deals \X ProviderEvents
      /\ Tail(pQueue) \in Seq(Deals \X ProviderEvents) /\ Len(Tail(pQueue)) = Len(pQueue) - 1
      /\ \A i \in 1..Len(pQueue) - 1 : Tail(pQueue)[i] = pQueue[i + 1]
  BY <1>3
<1>5. /\ pQueue' \in Seq(Deals \X ProviderEvents) /\ Len(pQueue') = Len(pQueue) /\ pQueue' # <<>>
      /\ \A i \in 1..Len(pQueue) - 1 : pQueue'[i] = pQueue[i + 1]
      /\ pQueue'[Len(pQueue)] = pQueue[1]
  <2>1. /\ Append(Tail(pQueue), Head(pQueue)) \in Seq(Deals \X ProviderEvents)
        /\ Len(Append(Tail(pQueue), Head(pQueue))) = Len(Tail(pQueue)) + 1
        /\ \A i \in 1..Len(Tail(pQueue)) : Append(Tail(pQueue), Head(pQueue))[i] = Tail(pQueue)[i]
        /\ Append(Tail(pQueue), Head(pQueue))[Len(Tail(pQueue)) + 1] = Head(pQueue)
        /\ Append(Tail(pQueue), Head(pQueue)) # <<>>
    BY <1>4, Sent
  <2> QED
    BY <1>1, <1>4, <2>1
<1>6. \A i \in 1..Len(pQueue') : \E j \in 1..Len(pQueue) : pQueue'[i] = pQueue[j]
  <2>1. SUFFICES ASSUME NEW i \in 1..Len(pQueue') PROVE \E j \in 1..Len(pQueue) : pQueue'[i] = pQueue[j]
    BY Zenon
  <2>2. CASE i = Len(pQueue)
    BY <1>4, <1>5, <2>2
  <2>3. CASE i # Len(pQueue)
    <3>1. Len(pQueue') = Len(pQueue) /\ Len(pQueue) \in Nat
      BY <1>4, <1>5, Zenon
    <3>2. i \in 1..Len(pQueue) - 1 /\ i + 1 \in 1..Len(pQueue)
      BY <2>3, <3>1
    <3>3. pQueue'[i] = pQueue[i + 1]
      BY <1>5, <3>2, Zenon
    <3> QED
      BY <3>2, <3>3, Zenon
  <2> QED
    BY <2>2, <2>3, Zenon
<1>7. \A x : InQueue(pQueue', x) => InQueue(pQueue, x)
  BY <1>6, Zenon DEF InQueue
<1>8. ProviderTypes'
  <2>1. \A i \in 1..Len(pQueue') : pState[pQueue'[i][1]] # "none"
    BY <1>6 DEF ProviderTypes
  <2>2. pTick' \in BOOLEAN
    BY <1>1, Zenon
  <2> QED
    BY <1>1, <1>5, <2>1, <2>2, Zenon DEF ProviderTypes
<1>9. OtherTypes'
  BY <1>1, Zenon DEF OtherTypes, worldVars, cvars
<1>10. ProviderTruth'
  BY <1>1, <1>7, ProviderOutsideTruth, Zenon DEF worldVars
<1>11. ClientTruth'
  BY <1>1, ProviderKeepsClient, Zenon DEF worldVars
<1> QED
  BY <1>1, <1>2, <1>8, <1>9, <1>10, <1>11, Zenon DEF ProviderInv

-----------------------------------------------------------------------------
\* What every event from outside keeps.
LEMMA OutsideStep ==
  ASSUME ClientTruth, ProviderTypes, OtherTypes, ProviderTruth, UNCHANGED cvars,
         NEW d \in Deals, NEW event \in ProviderEvents, pSend(d, event), pState[d] # "none",
         event = "DealPublished" => publish_msg[d] = "ok", event = "VerifiedData" => d \in imported',
         status' = status \/ status' = [status EXCEPT ![d] = "PUBLISHING"],
         pWaits' \subseteq pWaits, transfers' \subseteq transfers,
         imported' = imported \/ imported' = imported \cup {d},
         imports' \in 0..setting.imports, extra' \in BOOLEAN,
         UNCHANGED <<pState, connections, restarts, worldVars>>
  PROVE  ProviderTypes' /\ OtherTypes' /\ ProviderTruth' /\ ClientTruth'
<1>1. UNCHANGED <<setting, stream, ask, pushes, publish_msg, handed, committed>>
  BY Zenon DEF worldVars
<1>2. /\ pQueue' \in Seq(Deals \X ProviderEvents) /\ pQueue' # <<>> /\ pTick' \in BOOLEAN
      /\ \A i \in 1..Len(pQueue') : pState'[pQueue'[i][1]] # "none"
  BY ProviderOutsideQueue, Zenon
<1>3. \A x : InQueue(pQueue', x) => InQueue(pQueue, x) \/ x = <<d, event>>
  BY ProviderOutsideQueue, Zenon
<1>4. status' \in [Deals -> Statuses] /\ \A e \in Deals : status'[e] = status[e] \/ status'[e] \notin AfterPublish
  BY Zenon DEF ProviderTypes, Statuses, AfterPublish
<1>5. ProviderTypes'
  <2>1. /\ pState' \in [Deals -> Statuses \cup {"none"}]
        /\ pWaits' \in SUBSET (Deals \X {"funding", "publish", "commit", "forgotten"})
        /\ transfers' \in SUBSET Deals /\ imported' \in SUBSET Deals
    BY Zenon DEF ProviderTypes
  <2>2. (\A w \in pWaits' : pState'[w[1]] # "none") /\ (\A e \in transfers' : pState'[e] # "none")
    BY Zenon DEF ProviderTypes
  <2> QED
    BY <1>2, <1>4, <2>1, <2>2, Zenon DEF ProviderTypes
<1>6. OtherTypes'
  BY <1>1, Zenon DEF OtherTypes, cvars
<1>7. ASSUME NEW e \in Deals, InQueue(pQueue', <<e, "DealPublished">>)
      PROVE  InQueue(pQueue, <<e, "DealPublished">>) \/ publish_msg[e] = "ok"
  BY <1>3, <1>7, Zenon
<1>8. ASSUME NEW e \in Deals, InQueue(pQueue', <<e, "VerifiedData">>)
      PROVE  InQueue(pQueue, <<e, "VerifiedData">>) \/ e \in imported'
  BY <1>3, <1>8, Zenon
<1>9. \A e \in Deals : e \in imported => e \in imported'
  BY Zenon
<1>10. ProviderTruth'
  BY <1>1, <1>4, <1>7, <1>8, <1>9, ProviderOutsideTruth, Zenon
<1>11. ClientTruth'
  BY <1>1, ProviderKeepsClient, Zenon
<1> QED
  BY <1>5, <1>6, <1>10, <1>11, Zenon

\* A callback that a deal waits for.
LEMMA CallbackStep ==
  ASSUME ClientTruth, ProviderTypes, OtherTypes, ProviderTruth, ProviderInv, UNCHANGED cvars,
         NEW d \in Deals, NEW what, NEW event \in ProviderEvents, pSend(d, event),
         <<d, what>> \in pWaits, pWaits' = pWaits \ {<<d, what>>},
         ProviderAwaits(pState[d], what) => ProviderExpects(pState[d], event),
         event = "DealPublished" => publish_msg[d] = "ok", event # "VerifiedData",
         status' = status \/ status' = [status EXCEPT ![d] = "PUBLISHING"],
         UNCHANGED <<pState, connections, transfers, imported, imports, restarts, extra, worldVars>>
  PROVE  ProviderTypes' /\ OtherTypes' /\ ProviderTruth' /\ ClientTruth' /\ ProviderInv'
<1>1. pState[d] # "none" /\ imports' \in 0..setting.imports /\ extra' \in BOOLEAN
  BY Zenon DEF ProviderTypes, OtherTypes
<1>2. ProviderTypes' /\ OtherTypes' /\ ProviderTruth' /\ ClientTruth'
  BY <1>1, OutsideStep, Zenon
<1>3. CASE extra
  BY <1>2, <1>3, Zenon DEF ProviderInv
<1>4. CASE ~extra
  <2>1. ProviderIsCarried
    BY <1>4, Zenon DEF ProviderInv
  <2>2. ProviderAwaits(pState[d], what) /\ ~HasEvent(pQueue, d)
    BY <2>1, Zenon DEF ProviderIsCarried, WaitsFit
  <2>3. ~HasWait(pWaits', d)
    BY <2>1, Zenon DEF HasWait, ProviderIsCarried, WaitsFit
  <2>4. d \notin transfers
    BY <2>1, <2>2, Zenon DEF ProviderIsCarried, TransfersFit, ProviderAwaits
  <2>5. ProviderExpects(pState'[d], event) /\ pState'[d] # "none" /\ d \notin transfers' /\ transfers' \subseteq transfers
    BY <1>1, <2>2, <2>4, Zenon
  <2>6. pWaits' \subseteq pWaits /\ \A e \in Deals \ {d} : pState'[e] = pState[e]
    BY Zenon
  <2>7. ProviderIsCarried'
    BY <2>1, <2>2, <2>3, <2>5, <2>6, OutsideKeeps, Zenon
  <2> QED
    BY <1>2, <2>7, Zenon DEF ProviderInv
<1> QED
  BY <1>3, <1>4, Zenon

\* The answers of the chain.
LEMMA ProviderAnswers ==
  ASSUME ClientTruth, ProviderTypes, OtherTypes, ProviderTruth, ProviderInv, UNCHANGED cvars,
         NEW d \in Deals, FundingAnswer(d) \/ PublishAnswer(d) \/ CommitAnswer(d)
  PROVE  ProviderTypes' /\ OtherTypes' /\ ProviderTruth' /\ ClientTruth' /\ ProviderInv'
<1>1. CASE FundingAnswer(d)
  <2>1. PICK event \in {"Failed", "Funded"} : pSend(d, event)
    BY <1>1, Zenon DEF FundingAnswer
  <2>2. /\ <<d, "funding">> \in pWaits /\ pWaits' = pWaits \ {<<d, "funding">>}
        /\ UNCHANGED <<pState, status, connections, transfers, imported, imports, restarts, extra, worldVars>>
    BY <1>1, Zenon DEF FundingAnswer
  <2>3. ProviderAwaits(pState[d], "funding") => ProviderExpects(pState[d], event)
    BY Zenon DEF ProviderAwaits, ProviderExpects
  <2>4. event \in ProviderEvents
    BY Zenon DEF ProviderEvents
  <2> QED
    BY <2>1, <2>2, <2>3, <2>4, CallbackStep, Zenon
<1>2. CASE PublishAnswer(d)
  <2>1. PICK event \in {"Failed", "DealPublished"} :
          /\ pSend(d, event)
          /\ event = "DealPublished" => publish_msg[d] = "ok"
          /\ status' = status \/ status' = [status EXCEPT ![d] = "PUBLISHING"]
    BY <1>2, Zenon DEF PublishAnswer
  <2>2. /\ <<d, "publish">> \in pWaits /\ pWaits' = pWaits \ {<<d, "publish">>}
        /\ UNCHANGED <<pState, connections, transfers, imported, imports, restarts, extra, worldVars>>
    BY <1>2, Zenon DEF PublishAnswer
  <2>3. ProviderAwaits(pState[d], "publish") => ProviderExpects(pState[d], event)
    BY Zenon DEF ProviderAwaits, ProviderExpects
  <2>4. event \in ProviderEvents
    BY Zenon DEF ProviderEvents
  <2> QED
    BY <2>1, <2>2, <2>3, <2>4, CallbackStep, Zenon
<1>3. CASE CommitAnswer(d)
  <2>1. PICK event \in {"Failed", "DealActivated"} : pSend(d, event)
    BY <1>3, Zenon DEF CommitAnswer
  <2>2. /\ <<d, "commit">> \in pWaits /\ pWaits' = pWaits \ {<<d, "commit">>}
        /\ UNCHANGED <<pState, status, connections, transfers, imported, imports, restarts, extra, worldVars>>
    BY <1>3, Zenon DEF CommitAnswer
  <2>3. ProviderAwaits(pState[d], "commit") => ProviderExpects(pState[d], event)
    BY Zenon DEF ProviderAwaits, ProviderExpects
  <2>4. event \in ProviderEvents
    BY Zenon DEF ProviderEvents
  <2> QED
    BY <2>1, <2>2, <2>3, <2>4, CallbackStep, Zenon
<1> QED
  BY <1>1, <1>2, <1>3, Zenon

\* Data that is pushed, received or imported.
LEMMA ProviderData ==
  ASSUME ClientTruth, ProviderTypes, OtherTypes, ProviderTruth, ProviderInv, UNCHANGED cvars,
         \/ \E d \in Deals : onPush(d) \/ TransferEnds(d)
         \/ \E c \in Cids : importDataForDeal(c)
  PROVE  ProviderTypes' /\ OtherTypes' /\ ProviderTruth' /\ ClientTruth' /\ ProviderInv'
<1>1. ASSUME NEW d \in Deals, TransferEnds(d)
      PROVE  ProviderTypes' /\ OtherTypes' /\ ProviderTruth' /\ ClientTruth' /\ ProviderInv'
  <2>1. PICK event \in {"DataTransferCompleted", "Failed"} : pSend(d, event)
    BY <1>1, Zenon DEF TransferEnds
  <2>2. /\ d \in transfers /\ transfers' = transfers \ {d}
        /\ UNCHANGED <<pState, status, connections, pWaits, imported, imports, restarts, extra, worldVars>>
    BY <1>1, Zenon DEF TransferEnds
  <2>3. /\ pState[d] # "none" /\ imports' \in 0..setting.imports /\ extra' \in BOOLEAN /\ event \in ProviderEvents
        /\ transfers' \subseteq transfers
    BY <2>2, Zenon DEF ProviderTypes, OtherTypes, ProviderEvents
  <2>4. ProviderTypes' /\ OtherTypes' /\ ProviderTruth' /\ ClientTruth'
    BY <2>1, <2>2, <2>3, OutsideStep, Zenon
  <2>5. ProviderInv'
    BY <1>1, <2>2, TransferEndsKeeps, Zenon DEF ProviderInv
  <2> QED
    BY <2>4, <2>5, Zenon
<1>2. ASSUME NEW c \in Cids, importDataForDeal(c)
      PROVE  ProviderTypes' /\ OtherTypes' /\ ProviderTruth' /\ ClientTruth' /\ ProviderInv'
  <2>1. PICK d \in Tracked(c) :
          /\ imports < setting.imports /\ imports' = imports + 1 /\ imported' = imported \cup {d}
          /\ extra' = (extra \/ ~WaitsForImport(d)) /\ pSend(d, "VerifiedData")
          /\ UNCHANGED <<pState, status, connections, pWaits, transfers, restarts, worldVars>>
    BY <1>2, Zenon DEF importDataForDeal
  <2>2. d \in Deals /\ pState[d] # "none" /\ "VerifiedData" \in ProviderEvents
    BY Zenon DEF Tracked, ProviderEvents
  <2>3. imports' \in 0..setting.imports
    BY <2>1, WorldAssumption DEF OtherTypes
  <2>4. extra' \in BOOLEAN
    BY <2>1, Zenon
  <2>5. ProviderTypes' /\ OtherTypes' /\ ProviderTruth' /\ ClientTruth'
    BY <2>1, <2>2, <2>3, <2>4, OutsideStep, Zenon
  <2>6. CASE extra'
    BY <2>5, <2>6, Zenon DEF ProviderInv
  <2>7. CASE ~extra'
    <3>1. ProviderIsCarried /\ WaitsForImport(d)
      BY <2>1, <2>7, Zenon DEF ProviderInv
    <3>2. pState[d] = "WAITING_FOR_DATA" /\ d \notin transfers /\ ~HasEvent(pQueue, d)
      BY <3>1, Zenon DEF WaitsForImport, HasEvent
    <3>3. ~HasWait(pWaits, d)
      BY <3>1, <3>2, Zenon DEF HasWait, ProviderIsCarried, WaitsFit, ProviderAwaits
    <3>4. ProviderExpects(pState[d], "VerifiedData")
      BY <3>2, Zenon DEF ProviderExpects
    <3>5. ProviderIsCarried'
      BY <2>1, <2>2, <3>1, <3>2, <3>3, <3>4, OutsideKeeps, Zenon
    <3> QED
      BY <2>5, <3>5, Zenon DEF ProviderInv
  <2> QED
    BY <2>6, <2>7, Zenon
<1>3. ASSUME NEW d \in Deals, onPush(d)
      PROVE  ProviderTypes' /\ OtherTypes' /\ ProviderTruth' /\ ClientTruth' /\ ProviderInv'
  <2>1. /\ pushes' = pushes \ {d}
        /\ UNCHANGED <<pState, status, pQueue, pTick, connections, pWaits, imported, imports, restarts,
                       setting, stream, ask, publish_msg, handed, committed>>
    BY <1>3, Zenon DEF onPush
  <2>2. OtherTypes'
    BY <2>1, Zenon DEF OtherTypes, cvars
  <2>3. ProviderTruth'
    BY <2>1, ProviderOutsideTruth, Zenon
  <2>4. ClientTruth'
    BY <2>1, ProviderKeepsClient, Zenon
  <2>5. CASE UNCHANGED <<transfers, extra>>
    <3>1. ProviderTypes'
      BY <2>1, <2>5, Zenon DEF ProviderTypes
    <3>2. ProviderInv'
      BY <2>1, <2>5, Zenon DEF ProviderInv, ProviderIsCarried, EventsFit, PairsFit, WaitsFit, TransfersFit, AcceptedFit
    <3> QED
      BY <2>2, <2>3, <2>4, <3>1, <3>2, Zenon
  <2>6. ASSUME NEW e \in Tracked(CidOf[d]), transfers' = transfers \cup {e}, extra' = (extra \/ ~WaitsForTransfer(e))
        PROVE  ProviderTypes' /\ ProviderInv'
    <3>1. e \in Deals /\ pState[e] # "none"
      BY Zenon DEF Tracked
    <3>2. extra' \in BOOLEAN
      BY <2>6, Zenon
    <3>3. ProviderTypes'
      <4>1. transfers' \in SUBSET Deals /\ \A f \in transfers' : pState[f] # "none"
        BY <2>6, <3>1, Zenon DEF ProviderTypes
      <4> QED
        BY <2>1, <3>2, <4>1, Zenon DEF ProviderTypes
    <3>4. CASE extra'
      BY <3>3, <3>4, Zenon DEF ProviderInv
    <3>5. CASE ~extra'
      <4>1. ProviderIsCarried /\ WaitsForTransfer(e)
        BY <2>6, <3>5, Zenon DEF ProviderInv
      <4>2. ProviderIsCarried'
        BY <2>1, <2>6, <3>1, <4>1, PushKeeps, Zenon
      <4> QED
        BY <3>3, <4>2, Zenon DEF ProviderInv
    <3> QED
      BY <3>4, <3>5, Zenon
  <2> QED
    BY <1>3, <2>2, <2>3, <2>4, <2>5, <2>6, Zenon DEF onPush
<1> QED
  BY <1>1, <1>2, <1>3, Zenon

\* A proposal is read: the deal is new to the provider.
LEMMA ProposalIsRead ==
  ASSUME ClientTruth, ProviderTypes, OtherTypes, ProviderTruth, ProviderInv, UNCHANGED cvars,
         NEW d \in Deals, handleMKDealStream(d)
  PROVE  ProviderTypes' /\ OtherTypes' /\ ProviderTruth' /\ ClientTruth' /\ ProviderInv'
<1>1. /\ stream[d] = "sent" /\ stream' = [stream EXCEPT ![d] = "open"]
      /\ pState' = [pState EXCEPT ![d] = "UNKNOWN"] /\ pSend(d, "Open")
      /\ UNCHANGED <<status, pWaits, transfers, imported, imports, restarts, extra,
                     setting, ask, pushes, publish_msg, handed, committed>>
  BY Zenon DEF handleMKDealStream
<1>2. pState[d] = "none" /\ publish_msg[d] = "none"
  BY <1>1, Zenon DEF ProviderTruth, ProviderTruthOf
<1>3. /\ pState' \in [Deals -> Statuses \cup {"none"}] /\ pState'[d] = "UNKNOWN"
      /\ \A e \in Deals \ {d} : pState'[e] = pState[e]
      /\ \A e \in Deals : pState'[e] = "none" => pState[e] = "none"
  BY <1>1, Zenon DEF ProviderTypes, Statuses
<1>4. "Open" \in ProviderEvents /\ ProviderExpects("UNKNOWN", "Open")
  BY Zenon DEF ProviderEvents, ProviderExpects
<1>5. /\ pQueue' \in Seq(Deals \X ProviderEvents) /\ pQueue' # <<>> /\ pTick' \in BOOLEAN
      /\ \A i \in 1..Len(pQueue') : pState'[pQueue'[i][1]] # "none"
  BY <1>1, <1>3, <1>4, ProviderOutsideQueue, Zenon
<1>6. \A x : InQueue(pQueue', x) => InQueue(pQueue, x) \/ x = <<d, "Open">>
  BY <1>1, <1>3, <1>4, ProviderOutsideQueue, Zenon
<1>7. ~HasEvent(pQueue, d) /\ ~HasWait(pWaits, d) /\ d \notin transfers
  BY <1>2, Zenon DEF ProviderTypes, HasEvent, HasWait
<1>8. ProviderTypes'
  <2>1. (\A w \in pWaits : pState'[w[1]] # "none") /\ (\A e \in transfers : pState'[e] # "none")
    BY <1>3, Zenon DEF ProviderTypes
  <2> QED
    BY <1>1, <1>3, <1>5, <2>1, Zenon DEF ProviderTypes
<1>9. OtherTypes'
  <2>1. stream' \in [Deals -> {"none", "sent", "open", "accepted", "rejected", "closed"}]
    BY <1>1, Zenon DEF OtherTypes
  <2>2. connections' \in [Cids -> Deals \cup {NoDeal}]
    BY Zenon DEF handleMKDealStream, OtherTypes
  <2> QED
    BY <1>1, <2>1, <2>2, Zenon DEF OtherTypes, cvars
<1>10. ProviderTruth'
  <2>1. ASSUME NEW e \in Deals, NEW event \in {"DealPublished", "VerifiedData"}, InQueue(pQueue', <<e, event>>)
        PROVE  InQueue(pQueue, <<e, event>>) /\ e # d
    <3>1. InQueue(pQueue, <<e, event>>)
      BY <1>6, <2>1, Zenon
    <3>2. PICK i \in 1..Len(pQueue) : pQueue[i] = <<e, event>>
      BY <3>1, Zenon DEF InQueue
    <3>3. pQueue[i][1] = e
      BY <3>2
    <3>4. HasEvent(pQueue, e)
      BY <3>3, Zenon DEF HasEvent
    <3> QED
      BY <1>7, <3>1, <3>4, Zenon
  <2>2. ASSUME NEW e \in Deals \ {d} PROVE ProviderTruthOf(e)'
    <3>1. ProviderTruthOf(e)
      BY Zenon DEF ProviderTruth
    <3>2. stream'[e] = stream[e] /\ pState'[e] = pState[e]
      BY <1>1, <1>3, Zenon DEF OtherTypes
    <3>3. /\ InQueue(pQueue', <<e, "DealPublished">>) => InQueue(pQueue, <<e, "DealPublished">>)
          /\ InQueue(pQueue', <<e, "VerifiedData">>) => InQueue(pQueue, <<e, "VerifiedData">>)
      BY <2>1, Zenon
    <3> QED
      BY <1>1, <3>1, <3>2, <3>3, Zenon DEF ProviderTruthOf
  <2>3. ProviderTruthOf(d)'
    <3>1. ProviderTruthOf(d)
      BY Zenon DEF ProviderTruth
    <3>2. stream'[d] = "open"
      BY <1>1, Zenon DEF OtherTypes
    <3>3. ~InQueue(pQueue', <<d, "DealPublished">>) /\ ~InQueue(pQueue', <<d, "VerifiedData">>)
      BY <2>1, Zenon
    <3> QED
      BY <1>1, <1>2, <1>3, <3>1, <3>2, <3>3, Zenon DEF ProviderTruthOf, AfterPublish, WithData
  <2> QED
    BY <2>2, <2>3, Zenon DEF ProviderTruth
<1>11. ClientTruth'
  <2>1. \A e \in Deals : stream[e] = "none" => stream'[e] = "none"
    BY <1>1, Zenon DEF OtherTypes
  <2> QED
    BY <1>1, <2>1, ProviderKeepsClient, Zenon
<1>12. ProviderInv'
  <2>1. CASE extra
    BY <1>1, <2>1, Zenon DEF ProviderInv
  <2>2. CASE ~extra
    <3>1. ProviderIsCarried
      BY <2>2, Zenon DEF ProviderInv
    <3>2. ProviderIsCarried'
      BY <1>1, <1>3, <1>4, <1>7, <3>1, OutsideKeeps, Zenon
    <3> QED
      BY <3>2, Zenon DEF ProviderInv
  <2> QED
    BY <2>1, <2>2, Zenon
<1> QED
  BY <1>8, <1>9, <1>10, <1>11, <1>12, Zenon

\* A status request is answered with what the provider's deal says, which is true of the chain.
LEMMA StatusIsTold ==
  ASSUME ClientTruth, ProviderTypes, OtherTypes, ProviderTruth, ProviderInv, UNCHANGED cvars,
         NEW d \in Deals, handleDealStatus(d)
  PROVE  ProviderTypes' /\ OtherTypes' /\ ProviderTruth' /\ ClientTruth' /\ ProviderInv'
<1>1. UNCHANGED <<pvars, setting, stream, pushes, publish_msg, handed, committed>>
  BY Zenon DEF handleDealStatus
<1>2. UNCHANGED <<pState, status, pQueue, pTick, connections, pWaits, transfers, imported, imports, restarts, extra>>
  BY <1>1, Zenon DEF pvars
<1>3. PICK a \in [state : AskStates, from : Deals \cup {NoDeal}] :
        ask' = [ask EXCEPT ![d] = a] /\ (a.state \in AfterPublish => Published(CidOf[d]))
  <2>1. CASE ask' = [ask EXCEPT ![d] = [state |-> "ERROR", from |-> NoDeal]]
    <3> DEFINE a == [state |-> "ERROR", from |-> NoDeal]
    <3>1. "ERROR" \in AskStates /\ "ERROR" \notin AfterPublish
      BY Zenon DEF AskStates, Statuses, AfterPublish
    <3>2. a \in [state : AskStates, from : Deals \cup {NoDeal}] /\ a.state = "ERROR"
      BY <3>1, Zenon
    <3> QED
      BY <2>1, <3>1, <3>2, Zenon
  <2>2. ASSUME NEW e \in Tracked(CidOf[d]), ask' = [ask EXCEPT ![d] = [state |-> status[e], from |-> e]]
        PROVE  \E a \in [state : AskStates, from : Deals \cup {NoDeal}] :
                 ask' = [ask EXCEPT ![d] = a] /\ (a.state \in AfterPublish => Published(CidOf[d]))
    <3>1. e \in Deals /\ CidOf[e] = CidOf[d]
      BY Zenon DEF Tracked
    <3>2. status[e] \in AfterPublish => publish_msg[e] = "ok"
      BY <3>1, Zenon DEF ProviderTruth, ProviderTruthOf
    <3>3. status[e] \in AfterPublish => Published(CidOf[d])
      BY <3>1, <3>2, Zenon DEF Published
    <3>4. status[e] \in AskStates
      BY <3>1, Zenon DEF ProviderTypes, AskStates
    <3> DEFINE a == [state |-> status[e], from |-> e]
    <3>5. a \in [state : AskStates, from : Deals \cup {NoDeal}] /\ a.state = status[e]
      BY <3>1, <3>4, Zenon
    <3> QED
      BY <2>2, <3>3, <3>5, Zenon
  <2> QED
    BY <2>1, <2>2, Zenon DEF handleDealStatus
<1>4. OtherTypes'
  <2>1. ask' \in [Deals -> [state : AskStates, from : Deals \cup {NoDeal}]]
    BY <1>3, Zenon DEF OtherTypes
  <2> QED
    BY <1>1, <1>2, <2>1, Zenon DEF OtherTypes, cvars
<1>5. ProviderTypes'
  BY <1>2, Zenon DEF ProviderTypes
<1>6. ProviderTruth'
  BY <1>1, <1>2, ProviderOutsideTruth, Zenon
<1>7. ClientTruth'
  <2>1. \A e \in Deals : (ask[e].state \in AfterPublish)' => ask'[e] = ask[e] \/ Published(CidOf[e])
    BY <1>3, Zenon DEF OtherTypes
  <2> QED
    BY <1>1, <2>1, ProviderKeepsClient, Zenon
<1>8. ProviderInv'
  BY <1>2, Zenon DEF ProviderInv, ProviderIsCarried, EventsFit, PairsFit, WaitsFit, TransfersFit, AcceptedFit
<1> QED
  BY <1>4, <1>5, <1>6, <1>7, <1>8, Zenon

\* A restart forgets the deals and leaves the chain as it is.
LEMMA DealsAreForgotten ==
  ASSUME ClientTruth, ProviderTypes, OtherTypes, ProviderTruth, ProviderInv, UNCHANGED cvars, ProviderRestart
  PROVE  ProviderTypes' /\ OtherTypes' /\ ProviderTruth' /\ ClientTruth' /\ ProviderInv'
<1>1. /\ pState' = [d \in Deals |-> "none"] /\ status' = [d \in Deals |-> "UNKNOWN"]
      /\ pQueue' = <<>> /\ pTick' = FALSE /\ connections' = [c \in Cids |-> NoDeal]
      /\ pWaits' = {} /\ transfers' = {} /\ imported' = {} /\ extra' = FALSE
      /\ restarts < setting.restarts /\ restarts' = restarts + 1
      /\ stream' = [d \in Deals |-> IF stream[d] = "open" THEN "closed" ELSE stream[d]]
      /\ UNCHANGED <<imports, setting, ask, pushes, publish_msg, handed, committed>>
  BY Zenon DEF ProviderRestart
<1>2. pQueue' \in Seq(Deals \X ProviderEvents) /\ Len(pQueue') = 0
  BY <1>1
<1>3. \A q : ~InQueue(pQueue', q) /\ ~HasEvent(pQueue', q)
  BY <1>2 DEF InQueue, HasEvent
<1>4. ProviderTypes'
  <2>1. pState' \in [Deals -> Statuses \cup {"none"}] /\ status' \in [Deals -> Statuses]
    BY <1>1, Zenon DEF Statuses
  <2>2. /\ \A i \in 1..Len(pQueue') : pState'[pQueue'[i][1]] # "none"
        /\ pTick' \in BOOLEAN /\ (pTick' => pQueue' # <<>>) /\ extra' \in BOOLEAN
    <3>1. \A i \in 1..Len(pQueue') : pState'[pQueue'[i][1]] # "none"
      BY <1>2
    <3>2. pTick' = FALSE /\ extra' = FALSE
      BY <1>1, Zenon
    <3> QED
      BY <3>1, <3>2, Zenon
  <2>3. /\ pWaits' \in SUBSET (Deals \X {"funding", "publish", "commit", "forgotten"})
        /\ transfers' \in SUBSET Deals /\ imported' \in SUBSET Deals
        /\ (\A w \in pWaits' : pState'[w[1]] # "none") /\ (\A d \in transfers' : pState'[d] # "none")
    BY <1>1, Zenon
  <2> QED
    BY <1>2, <2>1, <2>2, <2>3, Zenon DEF ProviderTypes
<1>5. OtherTypes'
  <2>1. restarts' \in 0..setting.restarts
    BY <1>1, WorldAssumption DEF OtherTypes
  <2>2. /\ stream' \in [Deals -> {"none", "sent", "open", "accepted", "rejected", "closed"}]
        /\ connections' \in [Cids -> Deals \cup {NoDeal}]
    BY <1>1, Zenon DEF OtherTypes
  <2> QED
    BY <1>1, <2>1, <2>2, Zenon DEF OtherTypes, cvars
<1>6. ProviderTruth'
  <2>1. ASSUME NEW d \in Deals PROVE ProviderTruthOf(d)'
    <3>1. ProviderTruthOf(d)
      BY Zenon DEF ProviderTruth
    <3>2. pState'[d] = "none" /\ status'[d] = "UNKNOWN" /\ (stream'[d] \in {"none", "sent"} => stream[d] \in {"none", "sent"})
      BY <1>1, Zenon
    <3> QED
      BY <1>1, <1>3, <3>1, <3>2, Zenon DEF ProviderTruthOf, AfterPublish, WithData
  <2> QED
    BY <2>1, Zenon DEF ProviderTruth
<1>7. ClientTruth'
  <2>1. \A e \in Deals : stream[e] = "none" => stream'[e] = "none"
    BY <1>1, Zenon
  <2> QED
    BY <1>1, <2>1, ProviderKeepsClient, Zenon
<1>8. ProviderIsCarried'
  <2>1. pTick' = (pQueue' # <<>>)
    BY <1>1, Zenon
  <2>2. EventsFit' /\ PairsFit'
    BY <1>2 DEF EventsFit, PairsFit
  <2>3. WaitsFit' /\ TransfersFit' /\ AcceptedFit'
    BY <1>1, Zenon DEF WaitsFit, TransfersFit, AcceptedFit
  <2> QED
    BY <2>1, <2>2, <2>3, Zenon DEF ProviderIsCarried
<1> QED
  BY <1>4, <1>5, <1>6, <1>7, <1>8, Zenon DEF ProviderInv

\* Every step of the provider.
LEMMA ProviderStepInv ==
  ASSUME ClientTruth, ProviderTypes, OtherTypes, ProviderTruth, ProviderInv, UNCHANGED cvars, providerStep
  PROVE  ProviderTypes' /\ OtherTypes' /\ ProviderTruth' /\ ClientTruth' /\ ProviderInv'
<1>1. CASE providerTick
  <2>1. CASE pUnmatched
    BY <2>1, EventGoesBack, Zenon
  <2>2. CASE ~pUnmatched
    <3>1. PICK d \in Deals :
            \/ onProviderEventOpen(d) \/ onProviderEventDealAccepted(d) \/ onProviderEventWaitingForManualData(d)
            \/ onProviderEventDataTransferInitiated(d) \/ onProviderEventDataTransferCompleted(d)
            \/ onProviderEventVerifiedData(d) \/ onProviderEventFundingInitiated(d) \/ onProviderEventFunded(d)
            \/ onProviderEventDealPublishInitiated(d) \/ onProviderEventDealPublished(d)
            \/ onProviderEventDealHandedOff(d) \/ onProviderEventDealActivated(d) \/ onProviderEventFailed(d)
      BY <1>1, <2>2, Zenon DEF providerTick
    <3> QED
      BY <3>1, ProviderTickSteps, DataArrives, DealFails, Zenon
  <2> QED
    BY <2>1, <2>2, Zenon
<1>2. ASSUME NEW d \in Deals, FundingAnswer(d) \/ PublishAnswer(d) \/ CommitAnswer(d)
      PROVE  ProviderTypes' /\ OtherTypes' /\ ProviderTruth' /\ ClientTruth' /\ ProviderInv'
  BY <1>2, ProviderAnswers, Zenon
<1>3. CASE \/ \E d \in Deals : onPush(d) \/ TransferEnds(d)
           \/ \E c \in Cids : importDataForDeal(c)
  BY <1>3, ProviderData, Zenon
<1>4. ASSUME NEW d \in Deals, handleMKDealStream(d)
      PROVE  ProviderTypes' /\ OtherTypes' /\ ProviderTruth' /\ ClientTruth' /\ ProviderInv'
  BY <1>4, ProposalIsRead, Zenon
<1>5. ASSUME NEW d \in Deals, handleDealStatus(d)
      PROVE  ProviderTypes' /\ OtherTypes' /\ ProviderTruth' /\ ClientTruth' /\ ProviderInv'
  BY <1>5, StatusIsTold, Zenon
<1>6. CASE ProviderRestart
  BY <1>6, DealsAreForgotten, Zenon
<1> QED
  BY <1>1, <1>2, <1>3, <1>4, <1>5, <1>6, Zenon DEF providerStep

-----------------------------------------------------------------------------
\* The network loses what was not answered yet.
LEMMA NetworkStepInv ==
  ASSUME MarketIInv, networkStep
  PROVE  MarketIInv'
<1> USE DEF MarketIInv
<1>1. UNCHANGED <<pvars, cvars>>
  BY Zenon DEF networkStep
<1>2. /\ UNCHANGED <<pState, status, pQueue, pTick, connections, pWaits, transfers, imported, imports, restarts, extra>>
      /\ UNCHANGED <<cState, cQueue, cTick, cWaits, waiting_deals, publish_message, stuck>>
  BY <1>1, Zenon DEF pvars, cvars
<1>3. UNCHANGED <<setting, publish_msg, handed, committed>>
  BY Zenon DEF networkStep, StreamBreaks, AskIsLost, PushIsLost
<1>4. PICK d \in Deals : StreamBreaks(d) \/ AskIsLost(d) \/ PushIsLost(d)
  BY Zenon DEF networkStep
<1>5. /\ stream' \in [Deals -> {"none", "sent", "open", "accepted", "rejected", "closed"}]
      /\ \A e \in Deals : stream[e] = "none" => stream'[e] = "none"
      /\ \A e \in Deals : stream'[e] \in {"none", "sent"} => stream[e] \in {"none", "sent"}
  BY <1>4, Zenon DEF StreamBreaks, AskIsLost, PushIsLost, OtherTypes
<1>6. AskFailed \in [state : AskStates, from : Deals \cup {NoDeal}] /\ AskFailed.state \notin AfterPublish
  BY Zenon DEF AskFailed, AskStates, AfterPublish
<1>7. /\ ask' \in [Deals -> [state : AskStates, from : Deals \cup {NoDeal}]]
      /\ \A e \in Deals : ask'[e].state \in AfterPublish => ask'[e] = ask[e]
  <2>1. CASE ask' = [ask EXCEPT ![d] = AskFailed]
    BY <1>6, <2>1, Zenon DEF OtherTypes
  <2>2. CASE UNCHANGED ask
    BY <2>2, Zenon DEF OtherTypes
  <2> QED
    BY <1>4, <2>1, <2>2, Zenon DEF StreamBreaks, AskIsLost, PushIsLost
<1>8. OtherTypes'
  <2>1. pushes' \in SUBSET Deals
    BY <1>4, Zenon DEF StreamBreaks, AskIsLost, PushIsLost, OtherTypes
  <2> QED
    BY <1>2, <1>3, <1>5, <1>7, <2>1, Zenon DEF OtherTypes
<1>9. ClientTypes' /\ ClientInv'
  BY <1>2, Zenon DEF ClientTypes, ClientInv, OnePlace, ClientIsCarried
<1>10. ProviderTypes' /\ ProviderInv'
  <2>1. ProviderTypes'
    BY <1>2, Zenon DEF ProviderTypes
  <2>2. ProviderInv'
    BY <1>2, Zenon DEF ProviderInv, ProviderIsCarried, EventsFit, PairsFit, WaitsFit, TransfersFit, AcceptedFit
  <2> QED
    BY <2>1, <2>2, Zenon
<1>11. ProviderTruth'
  <2>1. ASSUME NEW e \in Deals PROVE ProviderTruthOf(e)'
    <3>1. ProviderTruthOf(e)
      BY Zenon DEF ProviderTruth
    <3> QED
      BY <1>2, <1>3, <1>5, <3>1, Zenon DEF ProviderTruthOf
  <2> QED
    BY <2>1, Zenon DEF ProviderTruth
<1>12. ClientTruth'
  <2>1. \A e \in Deals : publish_msg[e] = "ok" => publish_msg'[e] = "ok"
    BY <1>3, Zenon
  <2>2. \A e \in Deals : (ask[e].state \in AfterPublish)' => ask'[e] = ask[e] \/ Published(CidOf[e])
    BY <1>7, Zenon
  <2>3. UNCHANGED cvars /\ UNCHANGED <<setting, committed>> /\ ClientTruth /\ OtherTypes
    BY <1>1, <1>3, Zenon
  <2> HIDE DEF MarketIInv
  <2> QED
    BY <1>5, <2>1, <2>2, <2>3, ProviderKeepsClient, Zenon
<1> QED
  BY <1>8, <1>9, <1>10, <1>11, <1>12, Zenon

\* The chain executes messages, and never takes back what it accepted.
LEMMA ChainStepInv ==
  ASSUME MarketIInv, chainStep
  PROVE  MarketIInv'
<1>1. /\ ClientTypes /\ ProviderTypes /\ OtherTypes
      /\ ClientInv /\ ProviderTruth /\ ClientTruth /\ ProviderInv
  BY Zenon DEF MarketIInv
<1>2. UNCHANGED <<pvars, cvars>>
  BY Zenon DEF chainStep
<1>3. /\ UNCHANGED <<pState, status, pQueue, pTick, connections, pWaits, transfers, imported, imports, restarts, extra>>
      /\ UNCHANGED <<cState, cQueue, cTick, cWaits, waiting_deals, publish_message, stuck>>
  BY <1>2, Zenon DEF pvars, cvars
<1>4. PICK d \in Deals : PublishIsExecuted(d) \/ SectorIsCommitted(d)
  BY Zenon DEF chainStep
<1>5. UNCHANGED <<setting, stream, ask, pushes, handed>>
  BY <1>4, Zenon DEF PublishIsExecuted, SectorIsCommitted
<1>6. /\ publish_msg' \in [Deals -> {"none", "sent", "ok", "failed"}]
      /\ \A e \in Deals : publish_msg[e] = "ok" => publish_msg'[e] = "ok"
      /\ \A e \in Deals : publish_msg[e] = "none" => publish_msg'[e] = "none"
      /\ \A e \in Deals : publish_msg'[e] # "none" => publish_msg[e] # "none"
  BY <1>1, <1>4, Zenon DEF PublishIsExecuted, SectorIsCommitted, OtherTypes
<1>7. committed' \in SUBSET Cids /\ committed \subseteq committed'
  <2>1. CidOf[d] \in Cids
    BY <1>1, WorldAssumption DEF OtherTypes, CidOf
  <2> QED
    BY <1>1, <1>4, <2>1, Zenon DEF PublishIsExecuted, SectorIsCommitted, OtherTypes
<1>8. OtherTypes'
  BY <1>1, <1>3, <1>5, <1>6, <1>7, Zenon DEF OtherTypes
<1>9. ClientTypes' /\ ClientInv'
  BY <1>1, <1>3, Zenon DEF ClientTypes, ClientInv, OnePlace, ClientIsCarried
<1>10. ProviderTypes'
  BY <1>1, <1>3, Zenon DEF ProviderTypes
<1>11. ProviderInv'
  BY <1>1, <1>3, Zenon DEF ProviderInv, ProviderIsCarried, EventsFit, PairsFit, WaitsFit, TransfersFit, AcceptedFit
<1>12. ProviderTruth'
  <2>1. ASSUME NEW e \in Deals PROVE ProviderTruthOf(e)'
    <3>1. ProviderTruthOf(e)
      BY <1>1, Zenon DEF ProviderTruth
    <3> QED
      BY <1>3, <1>5, <1>6, <3>1, Zenon DEF ProviderTruthOf
  <2> QED
    BY <2>1, Zenon DEF ProviderTruth
<1>13. ClientTruth'
  <2>1. CidOf' = CidOf
    BY <1>5, Zenon DEF CidOf
  <2>2. \A c : Published(c) => Published(c)'
    BY <1>6, <2>1, Zenon DEF Published
  <2>3. ASSUME NEW e \in Deals PROVE ClientTruthOf(e)'
    <3>1. ClientTruthOf(e)
      BY <1>1, Zenon DEF ClientTruth
    <3>2. Published(CidOf[e]) => Published(CidOf[e])'
      BY <2>1, <2>2, Zenon
    <3> QED
      BY <1>3, <1>5, <1>7, <2>1, <3>1, <3>2, Zenon DEF ClientTruthOf
  <2> QED
    BY <2>3, Zenon DEF ClientTruth
<1> QED
  BY <1>8, <1>9, <1>10, <1>11, <1>12, <1>13, Zenon DEF MarketIInv

\* At the start nothing has been proposed.
LEMMA InitIInv ==
  ASSUME Init
  PROVE  MarketIInv
<1>1. /\ cState = [d \in Deals |-> "none"] /\ cQueue = <<>> /\ cTick = FALSE /\ cWaits = {} /\ waiting_deals = <<>>
      /\ publish_message = [d \in Deals |-> NoDeal] /\ stuck = FALSE
  BY Zenon DEF Init, CInit
<1>2. /\ pState = [d \in Deals |-> "none"] /\ status = [d \in Deals |-> "UNKNOWN"] /\ pQueue = <<>> /\ pTick = FALSE
      /\ connections = [c \in Cids |-> NoDeal] /\ pWaits = {} /\ transfers = {} /\ imported = {}
      /\ imports = 0 /\ restarts = 0 /\ extra = FALSE
  BY Zenon DEF Init, PInit
<1>3. /\ setting \in Settings /\ stream = [d \in Deals |-> "none"] /\ ask = [d \in Deals |-> NotAsked] /\ pushes = {}
      /\ publish_msg = [d \in Deals |-> "none"] /\ handed = {} /\ committed = {}
  BY Zenon DEF Init, WorldInit
<1>4. /\ Len(cQueue) = 0 /\ Len(pQueue) = 0 /\ Len(waiting_deals) = 0
      /\ cQueue \in Seq(Deals \X ClientEvents) /\ pQueue \in Seq(Deals \X ProviderEvents) /\ waiting_deals \in Seq(Deals)
  BY <1>1, <1>2
<1>5. \A x : /\ ~InQueue(cQueue, x) /\ ~HasEvent(cQueue, x) /\ ~Listed(waiting_deals, x)
             /\ ~InQueue(pQueue, x) /\ ~HasEvent(pQueue, x)
  BY <1>4 DEF InQueue, HasEvent, Listed
<1>6. ClientTypes
  <2>1. cState \in [Deals -> Statuses \cup {"none"}]
    BY <1>1, Zenon
  <2>2. cTick \in BOOLEAN
    BY <1>1, Zenon
  <2>3. cWaits \in SUBSET (Deals \X {"funding", "response", "status", "publish", "commit", "forgotten"})
    BY <1>1, Zenon
  <2> QED
    BY <1>4, <2>1, <2>2, <2>3, Zenon DEF ClientTypes
<1>7. ProviderTypes
  <2>1. pState \in [Deals -> Statuses \cup {"none"}] /\ status \in [Deals -> Statuses]
    BY <1>2, Zenon DEF Statuses
  <2>2. pTick \in BOOLEAN /\ (pTick => pQueue # <<>>) /\ extra \in BOOLEAN
    BY <1>2, Zenon
  <2>3. \A i \in 1..Len(pQueue) : pState[pQueue[i][1]] # "none"
    BY <1>4
  <2>4. /\ pWaits \in SUBSET (Deals \X {"funding", "publish", "commit", "forgotten"})
        /\ transfers \in SUBSET Deals /\ imported \in SUBSET Deals
        /\ (\A w \in pWaits : pState[w[1]] # "none") /\ (\A d \in transfers : pState[d] # "none")
    BY <1>2, Zenon
  <2> QED
    BY <1>4, <2>1, <2>2, <2>3, <2>4, Zenon DEF ProviderTypes
<1>8. OtherTypes
  <2>1. imports \in 0..setting.imports /\ restarts \in 0..setting.restarts
    BY <1>2, <1>3, WorldAssumption
  <2>2. /\ connections \in [Cids -> Deals \cup {NoDeal}] /\ publish_message \in [Deals -> Deals \cup {NoDeal}]
        /\ stream \in [Deals -> {"none", "sent", "open", "accepted", "rejected", "closed"}]
        /\ publish_msg \in [Deals -> {"none", "sent", "ok", "failed"}]
    BY <1>1, <1>2, <1>3, Zenon
  <2>3. ask \in [Deals -> [state : AskStates, from : Deals \cup {NoDeal}]]
    BY <1>3, Zenon DEF NotAsked, AskStates
  <2>4. stuck \in BOOLEAN
    BY <1>1, Zenon
  <2> QED
    BY <1>3, <2>1, <2>2, <2>3, <2>4, Zenon DEF OtherTypes
<1>9. ClientInv
  <2>1. OnePlace
    BY <1>1, <1>4, <1>5 DEF OnePlace, OneEach, HasWait
  <2>2. cTick = (cQueue # <<>>)
    BY <1>1, Zenon
  <2>3. \A i : i \notin 1..Len(cQueue) /\ i \notin 1..Len(waiting_deals)
    BY <1>4
  <2>4. cWaits = {} /\ \A d \in Deals : cState[d] = "none"
    BY <1>1, Zenon
  <2>5. ClientIsCarried
    BY <2>2, <2>3, <2>4, Zenon DEF ClientIsCarried
  <2> QED
    BY <2>1, <2>5, Zenon DEF ClientInv
<1>10. ProviderTruth
  BY <1>2, <1>3, <1>5, Zenon DEF ProviderTruth, ProviderTruthOf, AfterPublish, WithData
<1>11. ClientTruth
  <2>1. NotAsked.state \notin AfterPublish
    BY Zenon DEF NotAsked, AfterPublish
  <2>2. \A d \in Deals : cState[d] = "none" /\ stream[d] = "none" /\ ask[d] = NotAsked
    BY <1>1, <1>3, Zenon
  <2> QED
    BY <1>5, <2>1, <2>2, Zenon DEF ClientTruth, ClientTruthOf
<1>12. ProviderInv
  <2>1. pTick = (pQueue # <<>>)
    BY <1>2, Zenon
  <2>2. EventsFit /\ PairsFit
    BY <1>4 DEF EventsFit, PairsFit
  <2>3. WaitsFit /\ TransfersFit /\ AcceptedFit
    BY <1>2, Zenon DEF WaitsFit, TransfersFit, AcceptedFit
  <2> QED
    BY <2>1, <2>2, <2>3, Zenon DEF ProviderInv, ProviderIsCarried
<1> QED
  BY <1>6, <1>7, <1>8, <1>9, <1>10, <1>11, <1>12, Zenon DEF MarketIInv

\* Every step keeps the invariant.
LEMMA NextIInv ==
  ASSUME MarketIInv, [Next]_vars
  PROVE  MarketIInv'
<1>1. /\ ClientTypes /\ ProviderTypes /\ OtherTypes
      /\ ClientInv /\ ProviderTruth /\ ClientTruth /\ ProviderInv
  BY Zenon DEF MarketIInv
<1>2. CASE clientStep /\ UNCHANGED pvars
  <2>1. ClientTypes' /\ ClientInv' /\ ClientTruth'
    BY <1>1, <1>2, ClientStepInv, Zenon
  <2>2. OtherTypes' /\ ProviderTruth'
    BY <1>1, <1>2, ClientStepOthers, Zenon
  <2>3. UNCHANGED <<pState, status, pQueue, pTick, pWaits, transfers, imported, extra>>
    BY <1>2, Zenon DEF pvars
  <2>4. ProviderTypes'
    BY <1>1, <2>3, Zenon DEF ProviderTypes
  <2>5. ProviderInv'
    BY <1>1, <2>3, Zenon DEF ProviderInv, ProviderIsCarried, EventsFit, PairsFit, WaitsFit, TransfersFit, AcceptedFit
  <2> QED
    BY <2>1, <2>2, <2>4, <2>5, Zenon DEF MarketIInv
<1>3. CASE providerStep /\ UNCHANGED cvars
  <2>1. ProviderTypes' /\ OtherTypes' /\ ProviderTruth' /\ ClientTruth' /\ ProviderInv'
    BY <1>1, <1>3, ProviderStepInv, Zenon
  <2>2. UNCHANGED <<cState, cQueue, cTick, cWaits, waiting_deals>>
    BY <1>3, Zenon DEF cvars
  <2>3. ClientTypes' /\ ClientInv'
    BY <1>1, <2>2, Zenon DEF ClientTypes, ClientInv, OnePlace, ClientIsCarried
  <2> QED
    BY <2>1, <2>3, Zenon DEF MarketIInv
<1>4. CASE networkStep
  BY <1>4, NetworkStepInv, Zenon
<1>5. CASE chainStep
  BY <1>5, ChainStepInv, Zenon
<1>6. CASE UNCHANGED vars
  <2>1. UNCHANGED <<pState, status, pQueue, pTick, connections, pWaits, transfers, imported, imports, restarts, extra>>
    BY <1>6, Zenon DEF vars, pvars
  <2>2. UNCHANGED <<cState, cQueue, cTick, cWaits, waiting_deals, publish_message, stuck>>
    BY <1>6, Zenon DEF vars, cvars
  <2>3. UNCHANGED <<setting, stream, ask, pushes, publish_msg, handed, committed>>
    BY <1>6, Zenon DEF vars, worldVars
  <2>4. ClientTypes' /\ ClientInv'
    BY <1>1, <2>2, Zenon DEF ClientTypes, ClientInv, OnePlace, ClientIsCarried
  <2>5. ProviderTypes'
    BY <1>1, <2>1, Zenon DEF ProviderTypes
  <2>6. ProviderInv'
    BY <1>1, <2>1, Zenon DEF ProviderInv, ProviderIsCarried, EventsFit, PairsFit, WaitsFit, TransfersFit, AcceptedFit
  <2>7. OtherTypes'
    BY <1>1, <2>1, <2>2, <2>3, Zenon DEF OtherTypes
  <2>8. ProviderTruth'
    BY <1>1, <2>1, <2>3, Zenon DEF ProviderTruth, ProviderTruthOf
  <2>9. ClientTruth'
    BY <1>1, <2>2, <2>3, Zenon DEF ClientTruth, ClientTruthOf, Published, CidOf
  <2> QED
    BY <2>4, <2>5, <2>6, <2>7, <2>8, <2>9, Zenon DEF MarketIInv
<1> QED
  BY <1>2, <1>3, <1>4, <1>5, <1>6, Zenon DEF Next

\* What the invariant says of the types,
LEMMA IInvTypes ==
  ASSUME MarketIInv
  PROVE  TypeOK
<1>1. ClientTypes /\ ProviderTypes /\ OtherTypes
  BY Zenon DEF MarketIInv
<1>2. \A event \in ProviderEvents : \E r \in ProviderRules : r.event = event
  <2>1. /\ \A event \in ProviderEvents \ {"Failed", "DealCompleted", "Open"} : \E s \in Statuses : ProviderExpects(s, event)
        /\ ProviderExpects("UNKNOWN", "Open") /\ ProviderExpects("VALIDATING", "Failed")
    BY Zenon DEF ProviderEvents, ProviderExpects, Statuses
  <2>2. "UNKNOWN" \in Statuses /\ "VALIDATING" \in Statuses
    BY Zenon DEF Statuses
  <2>3. [event |-> "DealCompleted", from |-> "ACTIVE", to |-> "EXPIRED"] \in ProviderRules
    BY Zenon DEF ProviderRules, Rule
  <2>4. \A event \in ProviderEvents \ {"DealCompleted"} : \E s \in Statuses : ProviderExpects(s, event)
    BY <2>1, <2>2, Zenon
  <2>5. \A event \in ProviderEvents \ {"DealCompleted"} : \E r \in ProviderRules : r.event = event
    BY <2>4, ProviderRuleFor, Zenon
  <2> QED
    BY <2>3, <2>5, Zenon
<1>3. \A event \in ClientEvents : \E r \in ClientRules : r.event = event
  <2>1. \A event \in ClientEvents : \E s \in Statuses : ClientExpects(s, event)
    BY Zenon DEF ClientEvents, ClientExpects, Statuses
  <2> QED
    BY <2>1, ClientRuleFor, Zenon
<1>4. ProviderTypeOK
  <2>1. \A i \in 1..Len(pQueue) : pState[pQueue[i][1]] # "none" /\ \E r \in ProviderRules : r.event = pQueue[i][2]
    BY <1>1, <1>2 DEF ProviderTypes
  <2> QED
    BY <1>1, <2>1, Zenon DEF ProviderTypeOK, ProviderTypes, OtherTypes
<1>5. ClientTypeOK
  <2>1. \A i \in 1..Len(cQueue) : cQueue[i][1] \in Deals /\ \E r \in ClientRules : r.event = cQueue[i][2]
    BY <1>1, <1>3 DEF ClientTypes
  <2>2. \A i \in 1..Len(waiting_deals) : waiting_deals[i] \in Deals
    BY <1>1 DEF ClientTypes
  <2> QED
    BY <1>1, <2>1, <2>2, Zenon DEF ClientTypeOK, ClientTypes, OtherTypes
<1> QED
  BY <1>1, <1>4, <1>5, Zenon DEF TypeOK, OtherTypes

\* and of the two sides.
LEMMA IInvAgree ==
  ASSUME MarketIInv
  PROVE  DealsAgree
<1>1. /\ ClientTypes /\ ProviderTypes /\ OtherTypes
      /\ ClientInv /\ ProviderTruth /\ ClientTruth /\ ProviderInv
  BY Zenon DEF MarketIInv
<1>2. HandedIsPublished
  <2>1. \A d \in handed : d \in Deals /\ ProviderTruthOf(d)
    BY <1>1, Zenon DEF OtherTypes, ProviderTruth
  <2> QED
    BY <2>1, Zenon DEF HandedIsPublished, ProviderTruthOf, WithData, AfterPublish
<1>3. ClientBelievesChain
  BY <1>1, Zenon DEF ClientBelievesChain, ClientTruth, ClientTruthOf
<1>4. ProviderStopsOnlyByExtraData
  BY <1>1, Zenon DEF ProviderStopsOnlyByExtraData, ProviderInv, ProviderIsCarried
<1>5. ASSUME NEW d \in Deals
      PROVE  IF cState[d] \in {"none", "ACTIVE", "ERROR"} THEN Continuations(d) = {}
             ELSE \E c \in Continuations(d) : Continuations(d) = {c}
  <2> DEFINE E == {<<"event", i>> : i \in {j \in 1..Len(cQueue) : cQueue[j][1] = d}}
             W == {<<"callback", w>> : w \in {x \in cWaits : x[1] = d}}
             L == {<<"listed", i>> : i \in {j \in 1..Len(waiting_deals) : waiting_deals[j] = d}}
  <2>1. OnePlace /\ ClientIsCarried
    BY <1>1, Zenon DEF ClientInv
  <2>2. (\A x, y \in E : x = y) /\ (E # {} <=> HasEvent(cQueue, d))
    <3>1. \A i, j \in 1..Len(cQueue) : cQueue[i][1] = d /\ cQueue[j][1] = d => i = j
      BY <2>1, Zenon DEF OnePlace, OneEach
    <3>2. \A x \in E : \E i \in 1..Len(cQueue) : cQueue[i][1] = d /\ x = <<"event", i>>
      BY Zenon
    <3>3. \A i \in 1..Len(cQueue) : cQueue[i][1] = d => <<"event", i>> \in E
      BY Zenon
    <3> HIDE DEF E
    <3>4. \A x, y \in E : x = y
      BY <3>1, <3>2, Zenon
    <3>5. E # {} <=> HasEvent(cQueue, d)
      BY <3>2, <3>3, Zenon DEF HasEvent
    <3> QED
      BY <3>4, <3>5, Zenon
  <2>3. (\A x, y \in W : x = y) /\ (W # {} <=> HasWait(cWaits, d))
    <3>1. \A v, w \in cWaits : v[1] = d /\ w[1] = d => v = w
      BY <2>1, Zenon DEF OnePlace
    <3>2. \A x \in W : \E w \in cWaits : w[1] = d /\ x = <<"callback", w>>
      BY Zenon
    <3>3. \A w \in cWaits : w[1] = d => <<"callback", w>> \in W
      BY Zenon
    <3> HIDE DEF W
    <3>4. \A x, y \in W : x = y
      BY <3>1, <3>2, Zenon
    <3>5. W # {} <=> HasWait(cWaits, d)
      BY <3>2, <3>3, Zenon DEF HasWait
    <3> QED
      BY <3>4, <3>5, Zenon
  <2>4. (\A x, y \in L : x = y) /\ (L # {} <=> Listed(waiting_deals, d))
    <3>1. \A i, j \in 1..Len(waiting_deals) : waiting_deals[i] = d /\ waiting_deals[j] = d => i = j
      BY <2>1, Zenon DEF OnePlace
    <3>2. \A x \in L : \E i \in 1..Len(waiting_deals) : waiting_deals[i] = d /\ x = <<"listed", i>>
      BY Zenon
    <3>3. \A i \in 1..Len(waiting_deals) : waiting_deals[i] = d => <<"listed", i>> \in L
      BY Zenon
    <3> HIDE DEF L
    <3>4. \A x, y \in L : x = y
      BY <3>1, <3>2, Zenon
    <3>5. L # {} <=> Listed(waiting_deals, d)
      BY <3>2, <3>3, Zenon DEF Listed
    <3> QED
      BY <3>4, <3>5, Zenon
  <2>5. /\ HasEvent(cQueue, d) => ~HasWait(cWaits, d) /\ ~Listed(waiting_deals, d)
        /\ HasWait(cWaits, d) => ~Listed(waiting_deals, d)
    BY <2>1, Zenon DEF OnePlace
  <2>6. cState[d] \notin {"none", "ACTIVE", "ERROR"} <=> HasEvent(cQueue, d) \/ HasWait(cWaits, d) \/ Listed(waiting_deals, d)
    <3>1. HasEvent(cQueue, d) => cState[d] \notin {"none", "ACTIVE", "ERROR"}
      BY <2>1, Zenon DEF ClientIsCarried, HasEvent, ClientExpects
    <3>2. HasWait(cWaits, d) => cState[d] \notin {"none", "ACTIVE", "ERROR"}
      BY <2>1, Zenon DEF ClientIsCarried, HasWait, ClientAwaits
    <3>3. Listed(waiting_deals, d) => cState[d] \notin {"none", "ACTIVE", "ERROR"}
      BY <2>1, Zenon DEF ClientIsCarried, Listed
    <3>4. cState[d] \notin {"none", "ACTIVE", "ERROR"} => HasEvent(cQueue, d) \/ HasWait(cWaits, d) \/ Listed(waiting_deals, d)
      BY <2>1, Zenon DEF ClientIsCarried
    <3> QED
      BY <3>1, <3>2, <3>3, <3>4, Zenon
  <2>7. Continuations(d) = E \cup W \cup L
    BY Zenon DEF Continuations
  <2> HIDE DEF E, W, L
  <2>8. \A x, y \in E \cup W \cup L : x = y
    BY <2>2, <2>3, <2>4, <2>5, Zenon
  <2>9. E \cup W \cup L # {} <=> cState[d] \notin {"none", "ACTIVE", "ERROR"}
    BY <2>2, <2>3, <2>4, <2>6, Zenon
  <2> DEFINE C == E \cup W \cup L
  <2> HIDE DEF C
  <2>10. C # {} => \E c \in C : C = {c}
    BY <2>8, Zenon DEF C
  <2> QED
    BY <2>7, <2>9, <2>10, Zenon DEF C
<1>6. cTick = (cQueue # <<>>)
  BY <1>1, Zenon DEF ClientInv, ClientIsCarried
<1>7. cTick => \E r \in ClientRules : r.event = Head(cQueue)[2] /\ r.from = cState[Head(cQueue)[1]]
  <2>1. SUFFICES ASSUME cQueue # <<>>
                 PROVE  \E r \in ClientRules : r.event = Head(cQueue)[2] /\ r.from = cState[Head(cQueue)[1]]
    BY <1>6, Zenon
  <2>2. Len(cQueue) \in Nat /\ Len(cQueue) >= 1 /\ Head(cQueue) = cQueue[1]
    BY <1>1, <2>1, Taken, Zenon DEF ClientTypes
  <2>3. ClientExpects(cState[cQueue[1][1]], cQueue[1][2])
    BY <1>1, <2>2 DEF ClientInv, ClientIsCarried
  <2> QED
    BY <2>2, <2>3, ClientRuleFor
<1>8. OneContinuation
  BY <1>5, <1>6, <1>7, Zenon DEF OneContinuation
<1> QED
  BY <1>2, <1>3, <1>4, <1>8, Zenon DEF DealsAgree

-----------------------------------------------------------------------------
(***************************************************************************)
(* Every variable of the market has its type: events of                    *)
(* StorageProviderImpl and StorageMarketClientImpl have rules in their     *)
(* machines and are about deals that the machines track.                   *)
(***************************************************************************)
THEOREM MarketTypeCorrect == Spec => []TypeOK
<1>1. Init => MarketIInv
  BY InitIInv, Zenon
<1>2. MarketIInv /\ [Next]_vars => MarketIInv'
  BY NextIInv, Zenon
<1>3. MarketIInv => TypeOK
  BY IInvTypes, Zenon
<1> QED
  BY <1>1, <1>2, <1>3, PTL DEF Spec

(***************************************************************************)
(* Client, provider and chain agree on deals: a piece is handed to a       *)
(* sector only when its own deal is published and its data verified; what  *)
(* the client learns from the provider's status is true of the chain; each *)
(* of its unfinished deals has exactly one event, callback or place in     *)
(* waiting_deals; and the provider's machine has events without a tick     *)
(* only after data came for a deal that was not waiting for it.            *)
(***************************************************************************)
THEOREM DealsAreAgreed == Spec => []DealsAgree
<1>1. Init => MarketIInv
  BY InitIInv, Zenon
<1>2. MarketIInv /\ [Next]_vars => MarketIInv'
  BY NextIInv, Zenon
<1>3. MarketIInv => DealsAgree
  BY IInvAgree, Zenon
<1> QED
  BY <1>1, <1>2, <1>3, PTL DEF Spec
=============================================================================
