------------------------ MODULE StorageClientProofs -------------------------
(***************************************************************************)
(* The inductive invariant of StorageMarket, and the proof that the        *)
(* client's steps keep it, for any deals, any proposals they share and any *)
(* of the settings.                                                        *)
(*                                                                         *)
(* The invariant has four parts.  The client's deals have one place each:  *)
(* an event, a callback or the list of the timer, and it fits the deal's   *)
(* state.  As long as no extra data came, so have the provider's, with one *)
(* exception: a transfer may end while the deal's event that begins to     *)
(* wait for it is in the queue still.  What the provider's states say of   *)
(* data and chain is true; and so is what the client's states, events and  *)
(* answers say.                                                            *)
(***************************************************************************)
EXTENDS StorageMarket, TLAPS

-----------------------------------------------------------------------------
(***************************************************************************)
(* Types.  The events of the provider, its callbacks and its transfers are *)
(* about deals it tracks.                                                  *)
(***************************************************************************)
InQueue(q, x) == \E i \in 1..Len(q) : q[i] = x

ClientEvents ==
  {"Open", "FundingInitiated", "FundsEnsured", "DealRejected", "DealAccepted", "DealPublished",
   "DealActivated", "Failed"}

ProviderEvents ==
  {"Open", "DealAccepted", "WaitingForManualData", "DataTransferInitiated", "DataTransferCompleted",
   "VerifiedData", "FundingInitiated", "Funded", "DealPublishInitiated", "DealPublished",
   "DealHandedOff", "DealActivated", "DealCompleted", "Failed"}

AskStates == Statuses \cup {"not asked", "asked", "failed"}

ClientTypes ==
  /\ cState \in [Deals -> Statuses \cup {"none"}]
  /\ cQueue \in Seq(Deals \X ClientEvents)
  /\ cTick \in BOOLEAN
  /\ cWaits \in SUBSET (Deals \X {"funding", "response", "status", "publish", "commit", "forgotten"})
  /\ waiting_deals \in Seq(Deals)

ProviderTypes ==
  /\ pState \in [Deals -> Statuses \cup {"none"}]
  /\ status \in [Deals -> Statuses]
  /\ pQueue \in Seq(Deals \X ProviderEvents)
  /\ \A i \in 1..Len(pQueue) : pState[pQueue[i][1]] # "none"
  /\ pTick \in BOOLEAN
  /\ pTick => pQueue # <<>>
  /\ pWaits \in SUBSET (Deals \X {"funding", "publish", "commit", "forgotten"})
  /\ \A w \in pWaits : pState[w[1]] # "none"
  /\ transfers \in SUBSET Deals
  /\ \A d \in transfers : pState[d] # "none"
  /\ imported \in SUBSET Deals
  /\ extra \in BOOLEAN

OtherTypes ==
  /\ setting \in Settings
  /\ connections \in [Cids -> Deals \cup {NoDeal}]
  /\ imports \in 0..setting.imports
  /\ restarts \in 0..setting.restarts
  /\ stream \in [Deals -> {"none", "sent", "open", "accepted", "rejected", "closed"}]
  /\ ask \in [Deals -> [state : AskStates, from : Deals \cup {NoDeal}]]
  /\ pushes \in SUBSET Deals
  /\ publish_msg \in [Deals -> {"none", "sent", "ok", "failed"}]
  /\ handed \in SUBSET Deals
  /\ committed \in SUBSET Cids
  /\ publish_message \in [Deals -> Deals \cup {NoDeal}]
  /\ stuck \in BOOLEAN

(***************************************************************************)
(* The client.  The events that a state expects, the callbacks it awaits,  *)
(* and one place for each deal that is not finished.                       *)
(***************************************************************************)
ClientExpects(s, event) ==
  \/ s = "UNKNOWN" /\ event = "Open"
  \/ s = "ENSURE_CLIENT_FUNDS" /\ event \in {"Failed", "FundingInitiated", "FundsEnsured"}
  \/ s = "CLIENT_FUNDING" /\ event \in {"Failed", "FundsEnsured"}
  \/ s = "VALIDATING" /\ event \in {"DealRejected", "DealAccepted", "Failed"}
  \/ s = "FAILING" /\ event = "Failed"
  \/ s = "PROPOSAL_ACCEPTED" /\ event \in {"DealPublished", "Failed"}
  \/ s = "SEALING" /\ event \in {"DealActivated", "Failed"}

ClientAwaits(s, what) ==
  \/ s = "CLIENT_FUNDING" /\ what = "funding"
  \/ s = "VALIDATING" /\ what \in {"response", "status"}
  \/ s = "PROPOSAL_ACCEPTED" /\ what = "publish"
  \/ s = "SEALING" /\ what \in {"commit", "forgotten"}

HasEvent(q, d) == \E i \in 1..Len(q) : q[i][1] = d
HasWait(ws, d) == \E w \in ws : w[1] = d
Listed(q, d) == \E i \in 1..Len(q) : q[i] = d

OneEach(q) == \A i, j \in 1..Len(q) : q[i][1] = q[j][1] => i = j

OnePlace ==
  /\ OneEach(cQueue)
  /\ \A i, j \in 1..Len(waiting_deals) : waiting_deals[i] = waiting_deals[j] => i = j
  /\ \A v, w \in cWaits : v[1] = w[1] => v = w
  /\ \A d \in Deals : /\ HasEvent(cQueue, d) => ~HasWait(cWaits, d) /\ ~Listed(waiting_deals, d)
                      /\ HasWait(cWaits, d) => ~Listed(waiting_deals, d)

ClientIsCarried ==
  /\ \A i \in 1..Len(cQueue) : ClientExpects(cState[cQueue[i][1]], cQueue[i][2])
  /\ \A w \in cWaits : ClientAwaits(cState[w[1]], w[2])
  /\ \A i \in 1..Len(waiting_deals) : cState[waiting_deals[i]] = "VALIDATING"
  /\ \A d \in Deals : cState[d] \notin {"none", "ACTIVE", "ERROR"} =>
       HasEvent(cQueue, d) \/ HasWait(cWaits, d) \/ Listed(waiting_deals, d)
  /\ cTick = (cQueue # <<>>)

ClientInv == OnePlace /\ ClientIsCarried

(***************************************************************************)
(* The chain and the data.  After a publish message is confirmed, and only *)
(* then, the provider goes on to sectors, and tells so; it funds and       *)
(* publishes deals whose data it has verified.                             *)
(***************************************************************************)
AfterPublish == {"STAGED", "SEALING", "ACTIVE", "EXPIRED"}
WithData == {"ENSURE_PROVIDER_FUNDS", "PROVIDER_FUNDING", "PUBLISH", "PUBLISHING"} \cup AfterPublish

ProviderTruthOf(d) ==
  /\ stream[d] \in {"none", "sent"} => pState[d] = "none" /\ publish_msg[d] = "none"
  /\ publish_msg[d] # "none" => pState[d] \in {"none", "PUBLISH", "PUBLISHING", "ERROR"} \cup AfterPublish
  /\ InQueue(pQueue, <<d, "DealPublished">>) => publish_msg[d] = "ok"
  /\ pState[d] \in AfterPublish => publish_msg[d] = "ok"
  /\ status[d] \in AfterPublish => publish_msg[d] = "ok"
  /\ d \in handed => publish_msg[d] = "ok"
  /\ pState[d] \in WithData => d \in imported
  /\ InQueue(pQueue, <<d, "VerifiedData">>) /\ pState[d] # "ERROR" => d \in imported

ProviderTruth == \A d \in Deals : ProviderTruthOf(d)

\* The client goes on from what it was told, and is right to do so.
ClientTruthOf(d) ==
  /\ cState[d] \in {"none", "UNKNOWN", "ENSURE_CLIENT_FUNDS", "CLIENT_FUNDING"} => stream[d] = "none"
  /\ ask[d].state \in AfterPublish => Published(CidOf[d])
  /\ InQueue(cQueue, <<d, "DealAccepted">>) => Published(CidOf[d])
  /\ cState[d] \in {"PROPOSAL_ACCEPTED", "SEALING", "ACTIVE"} => Published(CidOf[d])
  /\ InQueue(cQueue, <<d, "DealActivated">>) => CidOf[d] \in committed
  /\ cState[d] = "ACTIVE" => CidOf[d] \in committed

ClientTruth == \A d \in Deals : ClientTruthOf(d)

(***************************************************************************)
(* The provider, as long as no extra data came.  An event is expected by   *)
(* the state of its deal, or another event of the deal comes before it; a  *)
(* deal has two events only when its transfer ended early; a deal with a   *)
(* callback or a transfer waits for nothing else; and a deal that was just *)
(* accepted has an event.                                                  *)
(***************************************************************************)
ProviderExpects(s, event) ==
  \/ s = "UNKNOWN" /\ event = "Open"
  \/ s = "VALIDATING" /\ event = "DealAccepted"
  \/ s = "PROPOSAL_ACCEPTED" /\ event \in {"WaitingForManualData", "DataTransferInitiated"}
  \/ s = "WAITING_FOR_DATA" /\ event \in {"DataTransferCompleted", "VerifiedData"}
  \/ s = "TRANSFERRING" /\ event = "DataTransferCompleted"
  \/ s = "VERIFY_DATA" /\ event = "VerifiedData"
  \/ s = "ENSURE_PROVIDER_FUNDS" /\ event \in {"FundingInitiated", "Funded"}
  \/ s = "PROVIDER_FUNDING" /\ event = "Funded"
  \/ s = "PUBLISH" /\ event = "DealPublishInitiated"
  \/ s = "PUBLISHING" /\ event = "DealPublished"
  \/ s = "STAGED" /\ event = "DealHandedOff"
  \/ s = "SEALING" /\ event = "DealActivated"
  \/ s \notin {"UNKNOWN", "none", "ERROR"} /\ event = "Failed"

ProviderAwaits(s, what) ==
  \/ s = "PROVIDER_FUNDING" /\ what = "funding"
  \/ s = "PUBLISHING" /\ what = "publish"
  \/ s = "SEALING" /\ what \in {"commit", "forgotten"}

Starts == {"WaitingForManualData", "DataTransferInitiated"}
Ends == {"DataTransferCompleted", "Failed"}

EventsFit ==
  \A i \in 1..Len(pQueue) :
    \/ ProviderExpects(pState[pQueue[i][1]], pQueue[i][2])
    \/ \E k \in 1..Len(pQueue) : k < i /\ pQueue[k][1] = pQueue[i][1]

PairsFit ==
  \A i, j \in 1..Len(pQueue) :
    i < j /\ pQueue[i][1] = pQueue[j][1] =>
      pState[pQueue[i][1]] = "PROPOSAL_ACCEPTED" /\ pQueue[i][2] \in Starts /\ pQueue[j][2] \in Ends

WaitsFit ==
  /\ \A w \in pWaits : ProviderAwaits(pState[w[1]], w[2]) /\ ~HasEvent(pQueue, w[1])
  /\ \A v, w \in pWaits : v[1] = w[1] => v = w

TransfersFit ==
  \A d \in transfers :
    \/ /\ pState[d] = "PROPOSAL_ACCEPTED"
       /\ \A i \in 1..Len(pQueue) : pQueue[i][1] = d => pQueue[i][2] \in Starts
    \/ pState[d] \in {"WAITING_FOR_DATA", "TRANSFERRING"} /\ ~HasEvent(pQueue, d)

AcceptedFit == \A d \in Deals : pState[d] = "PROPOSAL_ACCEPTED" => HasEvent(pQueue, d)

ProviderIsCarried ==
  /\ pTick = (pQueue # <<>>)
  /\ EventsFit /\ PairsFit /\ WaitsFit /\ TransfersFit /\ AcceptedFit

ProviderInv == extra \/ ProviderIsCarried

MarketIInv ==
  /\ ClientTypes /\ ProviderTypes /\ OtherTypes
  /\ ClientInv /\ ProviderTruth /\ ClientTruth /\ ProviderInv

-----------------------------------------------------------------------------
\* A sequence to which one element is appended,
LEMMA Sent ==
  ASSUME NEW S, NEW q \in Seq(S), NEW x \in S
  PROVE  /\ Append(q, x) \in Seq(S)
         /\ Len(Append(q, x)) = Len(q) + 1
         /\ \A i \in 1..Len(q) : Append(q, x)[i] = q[i]
         /\ Append(q, x)[Len(q) + 1] = x
         /\ Append(q, x) # <<>>
<1>1. Len(q) \in Nat
  OBVIOUS
<1>2. Append(q, x) \in Seq(S) /\ Len(Append(q, x)) = Len(q) + 1
  OBVIOUS
<1> QED
  BY <1>1, <1>2

\* one whose first element is taken,
LEMMA Taken ==
  ASSUME NEW S, NEW q \in Seq(S), q # <<>>
  PROVE  /\ Len(q) \in Nat /\ Len(q) >= 1 /\ Head(q) = q[1] /\ q[1] \in S
         /\ Tail(q) \o <<>> \in Seq(S)
         /\ Len(Tail(q) \o <<>>) = Len(q) - 1
         /\ \A i \in 1..Len(q) - 1 : (Tail(q) \o <<>>)[i] = q[i + 1]
         /\ (Tail(q) \o <<>> # <<>>) <=> Len(q) # 1
<1>1. Len(q) \in Nat /\ Len(q) >= 1 /\ Head(q) = q[1] /\ q[1] \in S
  OBVIOUS
<1>2. Tail(q) \in Seq(S) /\ Len(Tail(q)) = Len(q) - 1 /\ \A i \in 1..Len(q) - 1 : Tail(q)[i] = q[i + 1]
  BY <1>1
<1>3. Tail(q) \o <<>> = Tail(q)
  BY <1>2
<1>4. Tail(q) # <<>> <=> Len(Tail(q)) # 0
  BY <1>2, SMTT(40)
<1> QED
  BY <1>1, <1>2, <1>3, <1>4

\* and one of which both are done.
LEMMA TakenSent ==
  ASSUME NEW S, NEW q \in Seq(S), q # <<>>, NEW x \in S
  PROVE  /\ Len(q) \in Nat /\ Len(q) >= 1 /\ Head(q) = q[1] /\ q[1] \in S
         /\ Tail(q) \o <<x>> \in Seq(S)
         /\ Len(Tail(q) \o <<x>>) = Len(q)
         /\ \A i \in 1..Len(q) - 1 : (Tail(q) \o <<x>>)[i] = q[i + 1]
         /\ (Tail(q) \o <<x>>)[Len(q)] = x
         /\ Tail(q) \o <<x>> # <<>>
<1>1. Len(q) \in Nat /\ Len(q) >= 1 /\ Head(q) = q[1] /\ q[1] \in S
  OBVIOUS
<1>2. Tail(q) \in Seq(S) /\ Len(Tail(q)) = Len(q) - 1 /\ \A i \in 1..Len(q) - 1 : Tail(q)[i] = q[i + 1]
  BY <1>1
<1>3. <<x>> \in Seq(S) /\ Len(<<x>>) = 1 /\ <<x>>[1] = x
  OBVIOUS
<1>4. Tail(q) \o <<x>> \in Seq(S) /\ Len(Tail(q) \o <<x>>) = Len(q)
  BY <1>1, <1>2, <1>3
<1>5. \A i \in 1..Len(q) - 1 : (Tail(q) \o <<x>>)[i] = q[i + 1]
  BY <1>1, <1>2, <1>3
<1>6. (Tail(q) \o <<x>>)[Len(q)] = x
  BY <1>1, <1>2, <1>3
<1>7. Tail(q) \o <<x>> # <<>>
  BY <1>1, <1>4
<1> QED
  BY <1>1, <1>4, <1>5, <1>6, <1>7, Zenon

(***************************************************************************)
(* The rules of the two machines, as what an event does to a state.        *)
(***************************************************************************)
ClientMoves(s, event, t) ==
  \/ event = "Open" /\ s = "UNKNOWN" /\ t = "ENSURE_CLIENT_FUNDS"
  \/ event = "FundingInitiated" /\ s = "ENSURE_CLIENT_FUNDS" /\ t = "CLIENT_FUNDING"
  \/ event = "FundsEnsured" /\ s \in {"ENSURE_CLIENT_FUNDS", "CLIENT_FUNDING"} /\ t = "VALIDATING"
  \/ event = "DealRejected" /\ s = "VALIDATING" /\ t = "FAILING"
  \/ event = "DealAccepted" /\ s = "VALIDATING" /\ t = "PROPOSAL_ACCEPTED"
  \/ event = "DealPublished" /\ s = "PROPOSAL_ACCEPTED" /\ t = "SEALING"
  \/ event = "DealActivated" /\ s = "SEALING" /\ t = "ACTIVE"
  \/ event = "Failed" /\ s \in Statuses /\ t = "ERROR"

\* The client's rules make these moves,
LEMMA ClientRuleIs ==
  ASSUME NEW r \in ClientRules
  PROVE  ClientMoves(r.from, r.event, r.to)
BY DEF ClientRules, ClientRule, ClientMoves

\* and there is one for each event that a state expects.
LEMMA ClientRuleFor ==
  ASSUME NEW s, NEW event, ClientExpects(s, event)
  PROVE  \E r \in ClientRules : r.event = event /\ r.from = s
<1>1. [event |-> "Open", from |-> "UNKNOWN", to |-> "ENSURE_CLIENT_FUNDS"] \in ClientRules
  BY Zenon DEF ClientRules, ClientRule
<1>2. [event |-> "FundingInitiated", from |-> "ENSURE_CLIENT_FUNDS", to |-> "CLIENT_FUNDING"] \in ClientRules
  BY Zenon DEF ClientRules, ClientRule
<1>3. [event |-> "FundsEnsured", from |-> "ENSURE_CLIENT_FUNDS", to |-> "VALIDATING"] \in ClientRules
  BY Zenon DEF ClientRules, ClientRule
<1>4. [event |-> "FundsEnsured", from |-> "CLIENT_FUNDING", to |-> "VALIDATING"] \in ClientRules
  BY Zenon DEF ClientRules, ClientRule
<1>5. [event |-> "DealRejected", from |-> "VALIDATING", to |-> "FAILING"] \in ClientRules
  BY Zenon DEF ClientRules, ClientRule
<1>6. [event |-> "DealAccepted", from |-> "VALIDATING", to |-> "PROPOSAL_ACCEPTED"] \in ClientRules
  BY Zenon DEF ClientRules, ClientRule
<1>7. [event |-> "DealPublished", from |-> "PROPOSAL_ACCEPTED", to |-> "SEALING"] \in ClientRules
  BY Zenon DEF ClientRules, ClientRule
<1>8. [event |-> "DealActivated", from |-> "SEALING", to |-> "ACTIVE"] \in ClientRules
  BY Zenon DEF ClientRules, ClientRule
<1>9. \A f \in Statuses : [event |-> "Failed", from |-> f, to |-> "ERROR"] \in ClientRules
  BY Zenon DEF ClientRules, ClientRule
<1> QED
  BY <1>1, <1>2, <1>3, <1>4, <1>5, <1>6, <1>7, <1>8, <1>9, Zenon DEF ClientExpects, Statuses

ProviderMoves(s, event, t) ==
  \/ event = "Open" /\ s = "UNKNOWN" /\ t = "VALIDATING"
  \/ event = "DealAccepted" /\ s = "VALIDATING" /\ t = "PROPOSAL_ACCEPTED"
  \/ event = "WaitingForManualData" /\ s = "PROPOSAL_ACCEPTED" /\ t = "WAITING_FOR_DATA"
  \/ event = "DataTransferInitiated" /\ s = "PROPOSAL_ACCEPTED" /\ t = "TRANSFERRING"
  \/ event = "DataTransferCompleted" /\ s \in {"WAITING_FOR_DATA", "TRANSFERRING"} /\ t = "VERIFY_DATA"
  \/ event = "VerifiedData" /\ s \in {"VERIFY_DATA", "WAITING_FOR_DATA"} /\ t = "ENSURE_PROVIDER_FUNDS"
  \/ event = "FundingInitiated" /\ s = "ENSURE_PROVIDER_FUNDS" /\ t = "PROVIDER_FUNDING"
  \/ event = "Funded" /\ s \in {"PROVIDER_FUNDING", "ENSURE_PROVIDER_FUNDS"} /\ t = "PUBLISH"
  \/ event = "DealPublishInitiated" /\ s = "PUBLISH" /\ t = "PUBLISHING"
  \/ event = "DealPublished" /\ s = "PUBLISHING" /\ t = "STAGED"
  \/ event = "DealHandedOff" /\ s = "STAGED" /\ t = "SEALING"
  \/ event = "DealActivated" /\ s = "SEALING" /\ t = "ACTIVE"
  \/ event = "DealCompleted" /\ s = "ACTIVE" /\ t = "EXPIRED"
  \/ event = "Failed" /\ s \in Statuses /\ t = "ERROR"

\* The provider's rules make these moves,
LEMMA ProviderRuleIs ==
  ASSUME NEW r \in ProviderRules
  PROVE  ProviderMoves(r.from, r.event, r.to)
BY DEF ProviderRules, Rule, ProviderMoves

\* and there is one for each event that a state expects.
LEMMA ProviderRuleFor ==
  ASSUME NEW s \in Statuses \cup {"none"}, NEW event, ProviderExpects(s, event)
  PROVE  \E r \in ProviderRules : r.event = event /\ r.from = s
<1>1. [event |-> "Open", from |-> "UNKNOWN", to |-> "VALIDATING"] \in ProviderRules
  BY Zenon DEF ProviderRules, Rule
<1>2. [event |-> "DealAccepted", from |-> "VALIDATING", to |-> "PROPOSAL_ACCEPTED"] \in ProviderRules
  BY Zenon DEF ProviderRules, Rule
<1>3. [event |-> "WaitingForManualData", from |-> "PROPOSAL_ACCEPTED", to |-> "WAITING_FOR_DATA"] \in ProviderRules
  BY Zenon DEF ProviderRules, Rule
<1>4. [event |-> "DataTransferInitiated", from |-> "PROPOSAL_ACCEPTED", to |-> "TRANSFERRING"] \in ProviderRules
  BY Zenon DEF ProviderRules, Rule
<1>5. [event |-> "DataTransferCompleted", from |-> "WAITING_FOR_DATA", to |-> "VERIFY_DATA"] \in ProviderRules
  BY Zenon DEF ProviderRules, Rule
<1>6. [event |-> "DataTransferCompleted", from |-> "TRANSFERRING", to |-> "VERIFY_DATA"] \in ProviderRules
  BY Zenon DEF ProviderRules, Rule
<1>7. [event |-> "VerifiedData", from |-> "VERIFY_DATA", to |-> "ENSURE_PROVIDER_FUNDS"] \in ProviderRules
  BY Zenon DEF ProviderRules, Rule
<1>8. [event |-> "VerifiedData", from |-> "WAITING_FOR_DATA", to |-> "ENSURE_PROVIDER_FUNDS"] \in ProviderRules
  BY Zenon DEF ProviderRules, Rule
<1>9. [event |-> "FundingInitiated", from |-> "ENSURE_PROVIDER_FUNDS", to |-> "PROVIDER_FUNDING"] \in ProviderRules
  BY Zenon DEF ProviderRules, Rule
<1>10. [event |-> "Funded", from |-> "PROVIDER_FUNDING", to |-> "PUBLISH"] \in ProviderRules
  BY Zenon DEF ProviderRules, Rule
<1>11. [event |-> "Funded", from |-> "ENSURE_PROVIDER_FUNDS", to |-> "PUBLISH"] \in ProviderRules
  BY Zenon DEF ProviderRules, Rule
<1>12. [event |-> "DealPublishInitiated", from |-> "PUBLISH", to |-> "PUBLISHING"] \in ProviderRules
  BY Zenon DEF ProviderRules, Rule
<1>13. [event |-> "DealPublished", from |-> "PUBLISHING", to |-> "STAGED"] \in ProviderRules
  BY Zenon DEF ProviderRules, Rule
<1>14. [event |-> "DealHandedOff", from |-> "STAGED", to |-> "SEALING"] \in ProviderRules
  BY Zenon DEF ProviderRules, Rule
<1>15. [event |-> "DealActivated", from |-> "SEALING", to |-> "ACTIVE"] \in ProviderRules
  BY Zenon DEF ProviderRules, Rule
<1>16. \A f \in Statuses : [event |-> "Failed", from |-> f, to |-> "ERROR"] \in ProviderRules
  BY Zenon DEF ProviderRules, Rule
<1> QED
  BY <1>1, <1>2, <1>3, <1>4, <1>5, <1>6, <1>7, <1>8, <1>9, <1>10, <1>11, <1>12, <1>13, <1>14, <1>15, <1>16, Zenon DEF ProviderExpects, Statuses
-----------------------------------------------------------------------------
\* A tick of the client handles the first event, the only thing its deal has.
LEMMA ClientTakes ==
  ASSUME ClientTypes, ClientInv, NEW d \in Deals, NEW event, NEW sends, cHandle(d, event, sends)
  PROVE  /\ cQueue # <<>> /\ cQueue[1] = <<d, event>>
         /\ cState' \in [Deals -> Statuses \cup {"none"}]
         /\ \A e \in Deals \ {d} : cState'[e] = cState[e]
         /\ ClientMoves(cState[d], event, cState'[d])
         /\ \A i \in 1..Len(cQueue) : cQueue[i][1] = d => i = 1
         /\ ~HasWait(cWaits, d) /\ ~Listed(waiting_deals, d)
         /\ cQueue' = Tail(cQueue) \o sends /\ cTick' = (cQueue' # <<>>)
<1>1. cTick /\ Head(cQueue) = <<d, event>> /\ cQueue' = Tail(cQueue) \o sends /\ cTick' = (cQueue' # <<>>)
  BY Zenon DEF cHandle
<1>2. cTick = (cQueue # <<>>)
  BY Zenon DEF ClientInv, ClientIsCarried
<1>3. cQueue # <<>>
  BY <1>1, <1>2, Zenon
<1>4. Len(cQueue) \in Nat /\ Len(cQueue) >= 1 /\ Head(cQueue) = cQueue[1]
  BY <1>3, Taken, Zenon DEF ClientTypes
<1>5. PICK r \in ClientRules : r.event = event /\ r.from = cState[d] /\ cState' = [cState EXCEPT ![d] = r.to]
  BY Zenon DEF cHandle
<1>6. ClientMoves(cState[d], event, r.to)
  BY <1>5, ClientRuleIs, Zenon
<1>7. r.to \in Statuses
  BY <1>6, Zenon DEF ClientMoves, Statuses
<1>8. cState'[d] = r.to /\ cState' \in [Deals -> Statuses \cup {"none"}] /\ \A e \in Deals \ {d} : cState'[e] = cState[e]
  BY <1>5, <1>7, Zenon DEF ClientTypes
<1>9. \A i \in 1..Len(cQueue) : cQueue[i][1] = d => i = 1
  BY <1>1, <1>4 DEF ClientInv, OnePlace, OneEach
<1>10. HasEvent(cQueue, d)
  BY <1>1, <1>4 DEF HasEvent
<1>11. ~HasWait(cWaits, d) /\ ~Listed(waiting_deals, d)
  BY <1>10, Zenon DEF ClientInv, OnePlace, OneEach
<1> QED
  BY <1>1, <1>3, <1>4, <1>6, <1>8, <1>9, <1>11, Zenon

\* The events of the other deals stay.
LEMMA ClientOthers ==
  ASSUME ClientTypes, ClientInv, NEW d \in Deals, NEW event, cHandle(d, event, <<>>)
  PROVE  /\ cQueue' \in Seq(Deals \X ClientEvents)
         /\ Len(cQueue') = Len(cQueue) - 1 /\ Len(cQueue) \in Nat
         /\ \A i \in 1..Len(cQueue') : i + 1 \in 1..Len(cQueue) /\ cQueue'[i] = cQueue[i + 1] /\ cQueue'[i][1] # d
         /\ \A e \in Deals \ {d} : HasEvent(cQueue, e) <=> HasEvent(cQueue', e)
         /\ ~HasEvent(cQueue', d)
<1>1. cQueue # <<>> /\ cQueue[1] = <<d, event>> /\ cQueue' = Tail(cQueue) \o <<>>
  BY ClientTakes, Zenon
<1>2. \A i \in 1..Len(cQueue) : cQueue[i][1] = d => i = 1
  BY ClientTakes, Zenon
<1>3. /\ cQueue' \in Seq(Deals \X ClientEvents) /\ Len(cQueue') = Len(cQueue) - 1
      /\ Len(cQueue) \in Nat /\ Len(cQueue) >= 1
      /\ \A i \in 1..Len(cQueue) - 1 : cQueue'[i] = cQueue[i + 1]
  BY <1>1, Taken, Zenon DEF ClientTypes
<1>4. \A i \in 1..Len(cQueue') : i + 1 \in 1..Len(cQueue) /\ cQueue'[i] = cQueue[i + 1]
  BY <1>3
<1>5. \A i \in 1..Len(cQueue') : cQueue'[i][1] # d
  BY <1>2, <1>4
<1>6. ASSUME NEW e \in Deals \ {d} PROVE HasEvent(cQueue, e) <=> HasEvent(cQueue', e)
  <2>1. HasEvent(cQueue', e) => HasEvent(cQueue, e)
    BY <1>4, Zenon DEF HasEvent
  <2>2. ASSUME NEW i \in 1..Len(cQueue), cQueue[i][1] = e PROVE HasEvent(cQueue', e)
    <3>1. i # 1
      BY <1>1, <1>6, <2>2
    <3>2. i - 1 \in 1..Len(cQueue') /\ cQueue'[i - 1] = cQueue[i]
      BY <1>3, <3>1
    <3> QED
      BY <2>2, <3>2, Zenon DEF HasEvent
  <2> QED
    BY <2>1, <2>2, Zenon DEF HasEvent
<1> QED
  BY <1>3, <1>4, <1>5, <1>6, Zenon DEF HasEvent

\* A tick that sends an event for its deal.
LEMMA ClientOthersSent ==
  ASSUME ClientTypes, ClientInv, NEW d \in Deals, NEW event, NEW next \in ClientEvents,
         cHandle(d, event, One(d, next))
  PROVE  /\ cQueue' \in Seq(Deals \X ClientEvents)
         /\ Len(cQueue') = Len(cQueue) /\ Len(cQueue) \in Nat /\ Len(cQueue) >= 1
         /\ \A i \in 1..Len(cQueue') : i # Len(cQueue) =>
              i + 1 \in 1..Len(cQueue) /\ cQueue'[i] = cQueue[i + 1] /\ cQueue'[i][1] # d
         /\ cQueue'[Len(cQueue)] = <<d, next>>
         /\ \A e \in Deals \ {d} : HasEvent(cQueue, e) <=> HasEvent(cQueue', e)
         /\ cQueue' # <<>>
<1>1. cQueue # <<>> /\ cQueue[1] = <<d, event>> /\ cQueue' = Tail(cQueue) \o << <<d, next>> >>
  BY ClientTakes, Zenon DEF One
<1>2. \A i \in 1..Len(cQueue) : cQueue[i][1] = d => i = 1
  BY ClientTakes, Zenon
<1>3. /\ cQueue' \in Seq(Deals \X ClientEvents) /\ Len(cQueue') = Len(cQueue)
      /\ Len(cQueue) \in Nat /\ Len(cQueue) >= 1
      /\ \A i \in 1..Len(cQueue) - 1 : cQueue'[i] = cQueue[i + 1]
      /\ cQueue'[Len(cQueue)] = <<d, next>> /\ cQueue' # <<>>
  <2>1. <<d, next>> \in Deals \X ClientEvents
    BY Zenon
  <2> QED
    BY <1>1, <2>1, TakenSent DEF ClientTypes
<1>4. \A i \in 1..Len(cQueue') : i # Len(cQueue) => i + 1 \in 1..Len(cQueue) /\ cQueue'[i] = cQueue[i + 1]
  BY <1>3
<1>5. \A i \in 1..Len(cQueue') : i # Len(cQueue) => cQueue'[i][1] # d
  BY <1>2, <1>4
<1>6. ASSUME NEW e \in Deals \ {d} PROVE HasEvent(cQueue, e) <=> HasEvent(cQueue', e)
  <2>1. HasEvent(cQueue', e) => HasEvent(cQueue, e)
    BY <1>3, <1>4 DEF HasEvent
  <2>2. ASSUME NEW i \in 1..Len(cQueue), cQueue[i][1] = e PROVE HasEvent(cQueue', e)
    <3>1. i # 1
      BY <1>1, <1>6, <2>2
    <3>2. i - 1 \in 1..Len(cQueue') /\ cQueue'[i - 1] = cQueue[i]
      BY <1>3, <3>1
    <3> QED
      BY <2>2, <3>2, Zenon DEF HasEvent
  <2> QED
    BY <2>1, <2>2, Zenon DEF HasEvent
<1> QED
  BY <1>3, <1>4, <1>5, <1>6, Zenon

\* A tick after which the deal is final.
LEMMA TickEnds ==
  ASSUME ClientTypes, ClientInv, NEW d \in Deals, NEW event, cHandle(d, event, <<>>),
         cState'[d] \in {"ACTIVE", "ERROR"}, UNCHANGED <<cWaits, waiting_deals>>
  PROVE  ClientTypes' /\ ClientInv'
<1> USE DEF ClientTypes
<1>1. /\ cState' \in [Deals -> Statuses \cup {"none"}]
      /\ \A e \in Deals \ {d} : cState'[e] = cState[e]
      /\ ~HasWait(cWaits, d) /\ ~Listed(waiting_deals, d)
      /\ cTick' = (cQueue' # <<>>)
  BY ClientTakes, Zenon
<1>2. /\ cQueue' \in Seq(Deals \X ClientEvents)
      /\ Len(cQueue') = Len(cQueue) - 1 /\ Len(cQueue) \in Nat
      /\ \A i \in 1..Len(cQueue') : i + 1 \in 1..Len(cQueue) /\ cQueue'[i] = cQueue[i + 1] /\ cQueue'[i][1] # d
      /\ \A e \in Deals \ {d} : HasEvent(cQueue, e) <=> HasEvent(cQueue', e)
      /\ ~HasEvent(cQueue', d)
  BY ClientOthers, Zenon
<1>3. ClientTypes'
  BY <1>1, <1>2, Zenon
<1>4. OnePlace'
  <2>1. ASSUME NEW i \in 1..Len(cQueue'), NEW j \in 1..Len(cQueue'), cQueue'[i][1] = cQueue'[j][1]
        PROVE  i = j
    <3>1. i + 1 \in 1..Len(cQueue) /\ j + 1 \in 1..Len(cQueue) /\ cQueue[i + 1][1] = cQueue[j + 1][1]
      BY <1>2, <2>1, Zenon
    <3>2. i + 1 = j + 1
      BY <3>1, Zenon DEF ClientInv, OnePlace, OneEach
    <3> QED
      BY <3>2
  <2>2. \A e \in Deals : HasEvent(cQueue', e) => HasEvent(cQueue, e)
    BY <1>2, Zenon
  <2> QED
    BY <2>1, <2>2, Zenon DEF ClientInv, OnePlace, OneEach
<1>5. ClientIsCarried'
  <2>1. \A i \in 1..Len(cQueue') : cQueue'[i][1] \in Deals \ {d}
    BY <1>2
  <2>2. \A i \in 1..Len(cQueue') : ClientExpects(cState'[cQueue'[i][1]], cQueue'[i][2])
    BY <1>1, <1>2, <2>1 DEF ClientInv, ClientIsCarried
  <2>3. \A w \in cWaits : w[1] \in Deals \ {d}
    BY <1>1, Zenon DEF HasWait
  <2>4. \A w \in cWaits : ClientAwaits(cState'[w[1]], w[2])
    BY <1>1, <2>3, Zenon DEF ClientInv, ClientIsCarried
  <2>5. \A i \in 1..Len(waiting_deals) : waiting_deals[i] \in Deals \ {d}
    BY <1>1 DEF Listed
  <2>6. \A i \in 1..Len(waiting_deals) : cState'[waiting_deals[i]] = "VALIDATING"
    BY <1>1, <2>5, Zenon DEF ClientInv, ClientIsCarried
  <2>7. \A e \in Deals : cState'[e] \notin {"none", "ACTIVE", "ERROR"} =>
          HasEvent(cQueue', e) \/ HasWait(cWaits, e) \/ Listed(waiting_deals, e)
    BY <1>1, <1>2, Zenon DEF ClientInv, ClientIsCarried
  <2> QED
    BY <1>1, <2>2, <2>4, <2>6, <2>7, Zenon DEF ClientIsCarried
<1> QED
  BY <1>3, <1>4, <1>5, Zenon DEF ClientInv

\* A tick after which the deal waits for a callback.
LEMMA TickWaits ==
  ASSUME ClientTypes, ClientInv, NEW d \in Deals, NEW event, cHandle(d, event, <<>>),
         NEW what \in {"funding", "response", "status", "publish", "commit", "forgotten"},
         ClientAwaits(cState'[d], what), cWaits' = cWaits \cup {<<d, what>>}, UNCHANGED waiting_deals
  PROVE  ClientTypes' /\ ClientInv'
<1> USE DEF ClientTypes
<1>1. /\ cState' \in [Deals -> Statuses \cup {"none"}]
      /\ \A e \in Deals \ {d} : cState'[e] = cState[e]
      /\ ~HasWait(cWaits, d) /\ ~Listed(waiting_deals, d)
      /\ cTick' = (cQueue' # <<>>)
  BY ClientTakes, Zenon
<1>2. /\ cQueue' \in Seq(Deals \X ClientEvents)
      /\ Len(cQueue') = Len(cQueue) - 1 /\ Len(cQueue) \in Nat
      /\ \A i \in 1..Len(cQueue') : i + 1 \in 1..Len(cQueue) /\ cQueue'[i] = cQueue[i + 1] /\ cQueue'[i][1] # d
      /\ \A e \in Deals \ {d} : HasEvent(cQueue, e) <=> HasEvent(cQueue', e)
      /\ ~HasEvent(cQueue', d)
  BY ClientOthers, Zenon
<1>3. ClientTypes'
  BY <1>1, <1>2
<1>4. \A e \in Deals \ {d} : HasWait(cWaits', e) <=> HasWait(cWaits, e)
  BY DEF HasWait
<1>5. OnePlace'
  <2>1. ASSUME NEW i \in 1..Len(cQueue'), NEW j \in 1..Len(cQueue'), cQueue'[i][1] = cQueue'[j][1]
        PROVE  i = j
    <3>1. i + 1 \in 1..Len(cQueue) /\ j + 1 \in 1..Len(cQueue) /\ cQueue[i + 1][1] = cQueue[j + 1][1]
      BY <1>2, <2>1, Zenon
    <3>2. i + 1 = j + 1
      BY <3>1, Zenon DEF ClientInv, OnePlace, OneEach
    <3> QED
      BY <3>2
  <2>2. \A v, w \in cWaits' : v[1] = w[1] => v = w
    BY <1>1 DEF ClientInv, OnePlace, OneEach, HasWait
  <2>3. \A e \in Deals : /\ HasEvent(cQueue', e) => ~HasWait(cWaits', e) /\ ~Listed(waiting_deals, e)
                         /\ HasWait(cWaits', e) => ~Listed(waiting_deals, e)
    BY <1>1, <1>2, <1>4, Zenon DEF ClientInv, OnePlace, OneEach
  <2> QED
    BY <2>1, <2>2, <2>3, Zenon DEF ClientInv, OnePlace, OneEach
<1>6. ClientIsCarried'
  <2>1. \A i \in 1..Len(cQueue') : cQueue'[i][1] \in Deals \ {d}
    BY <1>2
  <2>2. \A i \in 1..Len(cQueue') : ClientExpects(cState'[cQueue'[i][1]], cQueue'[i][2])
    BY <1>1, <1>2, <2>1 DEF ClientInv, ClientIsCarried
  <2>3. \A w \in cWaits : w[1] \in Deals \ {d}
    BY <1>1, Zenon DEF HasWait
  <2>4. \A w \in cWaits' : ClientAwaits(cState'[w[1]], w[2])
    <3>1. \A w \in cWaits : ClientAwaits(cState'[w[1]], w[2])
      BY <1>1, <2>3, Zenon DEF ClientInv, ClientIsCarried
    <3> QED
      BY <3>1
  <2>5. \A i \in 1..Len(waiting_deals) : waiting_deals[i] \in Deals \ {d}
    BY <1>1 DEF Listed
  <2>6. \A i \in 1..Len(waiting_deals) : cState'[waiting_deals[i]] = "VALIDATING"
    BY <1>1, <2>5, Zenon DEF ClientInv, ClientIsCarried
  <2>7. HasWait(cWaits', d)
    <3>1. <<d, what>> \in cWaits' /\ <<d, what>>[1] = d
      BY Zenon
    <3> QED
      BY <3>1, Zenon DEF HasWait
  <2>8. \A e \in Deals : cState'[e] \notin {"none", "ACTIVE", "ERROR"} =>
          HasEvent(cQueue', e) \/ HasWait(cWaits', e) \/ Listed(waiting_deals, e)
    BY <1>1, <1>2, <1>4, <2>7, Zenon DEF ClientInv, ClientIsCarried
  <2> QED
    BY <1>1, <2>2, <2>4, <2>6, <2>8, Zenon DEF ClientIsCarried
<1> QED
  BY <1>3, <1>5, <1>6, Zenon DEF ClientInv

\* A tick that sends the next event of the deal.
LEMMA TickSends ==
  ASSUME ClientTypes, ClientInv, NEW d \in Deals, NEW event, NEW next \in ClientEvents,
         cHandle(d, event, One(d, next)), ClientExpects(cState'[d], next),
         UNCHANGED <<cWaits, waiting_deals>>
  PROVE  ClientTypes' /\ ClientInv'
<1> USE DEF ClientTypes
<1>1. /\ cState' \in [Deals -> Statuses \cup {"none"}]
      /\ \A e \in Deals \ {d} : cState'[e] = cState[e]
      /\ ~HasWait(cWaits, d) /\ ~Listed(waiting_deals, d)
      /\ cTick' = (cQueue' # <<>>)
  BY ClientTakes, Zenon
<1>2. /\ cQueue' \in Seq(Deals \X ClientEvents)
      /\ Len(cQueue') = Len(cQueue) /\ Len(cQueue) \in Nat /\ Len(cQueue) >= 1
      /\ \A i \in 1..Len(cQueue') : i # Len(cQueue) =>
           i + 1 \in 1..Len(cQueue) /\ cQueue'[i] = cQueue[i + 1] /\ cQueue'[i][1] # d
      /\ cQueue'[Len(cQueue)] = <<d, next>>
      /\ \A e \in Deals \ {d} : HasEvent(cQueue, e) <=> HasEvent(cQueue', e)
  BY ClientOthersSent, Zenon
<1>3. ClientTypes'
  BY <1>1, <1>2, Zenon
<1>4. HasEvent(cQueue', d)
  BY <1>2 DEF HasEvent
<1>5. OnePlace'
  <2>1. \A i, j \in 1..Len(cQueue') : cQueue'[i][1] = cQueue'[j][1] => i = j
    BY <1>2 DEF ClientInv, OnePlace, OneEach
  <2>2. \A e \in Deals : /\ HasEvent(cQueue', e) => ~HasWait(cWaits, e) /\ ~Listed(waiting_deals, e)
                         /\ HasWait(cWaits, e) => ~Listed(waiting_deals, e)
    BY <1>1, <1>2, Zenon DEF ClientInv, OnePlace, OneEach
  <2> QED
    BY <2>1, <2>2, Zenon DEF ClientInv, OnePlace, OneEach
<1>6. ClientIsCarried'
  <2>1. \A i \in 1..Len(cQueue') : i # Len(cQueue) => cQueue'[i][1] \in Deals \ {d}
    BY <1>2
  <2>2. \A i \in 1..Len(cQueue') : ClientExpects(cState'[cQueue'[i][1]], cQueue'[i][2])
    BY <1>1, <1>2, <2>1 DEF ClientInv, ClientIsCarried
  <2>3. \A w \in cWaits : w[1] \in Deals \ {d}
    BY <1>1, Zenon DEF HasWait
  <2>4. \A w \in cWaits : ClientAwaits(cState'[w[1]], w[2])
    BY <1>1, <2>3, Zenon DEF ClientInv, ClientIsCarried
  <2>5. \A i \in 1..Len(waiting_deals) : waiting_deals[i] \in Deals \ {d}
    BY <1>1 DEF Listed
  <2>6. \A i \in 1..Len(waiting_deals) : cState'[waiting_deals[i]] = "VALIDATING"
    BY <1>1, <2>5, Zenon DEF ClientInv, ClientIsCarried
  <2>7. \A e \in Deals : cState'[e] \notin {"none", "ACTIVE", "ERROR"} =>
          HasEvent(cQueue', e) \/ HasWait(cWaits, e) \/ Listed(waiting_deals, e)
    BY <1>1, <1>2, <1>4, Zenon DEF ClientInv, ClientIsCarried
  <2> QED
    BY <1>1, <2>2, <2>4, <2>6, <2>7, Zenon DEF ClientIsCarried
<1> QED
  BY <1>3, <1>5, <1>6, Zenon DEF ClientInv

\* An event that is sent changes nothing for the other deals.
LEMMA SentEvents ==
  ASSUME NEW E, NEW q \in Seq(Deals \X E), NEW d \in Deals, NEW event \in E
  PROVE  /\ HasEvent(Append(q, <<d, event>>), d)
         /\ \A e \in Deals \ {d} : HasEvent(Append(q, <<d, event>>), e) <=> HasEvent(q, e)
         /\ \A i \in 1..Len(q) : i \in 1..Len(Append(q, <<d, event>>))
         /\ \A i \in 1..Len(Append(q, <<d, event>>)) : i \in 1..Len(q) \/ i = Len(q) + 1
<1> DEFINE r == Append(q, <<d, event>>)
<1>1. <<d, event>> \in Deals \X E
  BY Zenon
<1>2. /\ Len(r) = Len(q) + 1 /\ Len(q) \in Nat
      /\ \A i \in 1..Len(q) : r[i] = q[i]
      /\ r[Len(q) + 1] = <<d, event>>
  BY <1>1, Sent
<1> HIDE DEF r
<1>3. \A i \in 1..Len(r) : i \in 1..Len(q) \/ i = Len(q) + 1
  BY <1>2
<1>4. \A i \in 1..Len(q) : i \in 1..Len(r)
  BY <1>2
<1>5. Len(q) + 1 \in 1..Len(r)
  BY <1>2
<1>6. HasEvent(r, d)
  BY <1>2, <1>5 DEF HasEvent
<1>7. ASSUME NEW e \in Deals \ {d} PROVE HasEvent(r, e) <=> HasEvent(q, e)
  <2>1. ASSUME NEW i \in 1..Len(r), r[i][1] = e PROVE HasEvent(q, e)
    BY <1>2, <1>3, <2>1 DEF HasEvent
  <2>2. ASSUME NEW i \in 1..Len(q), q[i][1] = e PROVE HasEvent(r, e)
    BY <1>2, <1>4, <2>2, Zenon DEF HasEvent
  <2> QED
    BY <2>1, <2>2, Zenon DEF HasEvent
<1> QED
  BY <1>3, <1>4, <1>6, <1>7, Zenon DEF r

\* The first event of a deal is its only one.
LEMMA SentAlone ==
  ASSUME NEW E, NEW q \in Seq(Deals \X E), NEW d \in Deals, NEW event \in E, ~HasEvent(q, d), OneEach(q)
  PROVE  OneEach(Append(q, <<d, event>>))
<1> DEFINE r == Append(q, <<d, event>>)
<1>1. <<d, event>> \in Deals \X E
  BY Zenon
<1>2. /\ Len(q) \in Nat
      /\ \A k \in 1..Len(q) : r[k] = q[k]
      /\ r[Len(q) + 1] = <<d, event>>
  BY <1>1, Sent
<1>3. \A k \in 1..Len(r) : k \in 1..Len(q) \/ k = Len(q) + 1
  BY SentEvents, Zenon
<1> HIDE DEF r
<1>4. \A k \in 1..Len(q) : r[k][1] # d
  BY <1>2, Zenon DEF HasEvent
<1>5. OneEach(r)
  BY <1>2, <1>3, <1>4 DEF OneEach
<1> QED
  BY <1>5, Zenon DEF r

\* A callback that is called sends the next event of its deal.
LEMMA AnswerKeeps ==
  ASSUME ClientTypes, ClientInv, NEW d \in Deals, NEW what, NEW event \in ClientEvents,
         Answer(d, what, event), ClientExpects(cState[d], event), UNCHANGED <<cState, waiting_deals>>
  PROVE  ClientTypes' /\ ClientInv'
<1> USE DEF ClientTypes
<1>1. <<d, what>> \in cWaits /\ cWaits' = cWaits \ {<<d, what>>}
  BY Zenon DEF Answer
<1>2. cQueue' = Append(cQueue, <<d, event>>)
  BY Zenon DEF Answer, cSend
<1>3. /\ cQueue' \in Seq(Deals \X ClientEvents)
      /\ Len(cQueue') = Len(cQueue) + 1 /\ Len(cQueue) \in Nat
      /\ \A i \in 1..Len(cQueue) : cQueue'[i] = cQueue[i]
      /\ cQueue'[Len(cQueue) + 1] = <<d, event>>
      /\ cQueue' # <<>>
  <2>1. <<d, event>> \in Deals \X ClientEvents
    BY Zenon
  <2> QED
    BY <1>2, <2>1, Sent
<1>4. cTick' = TRUE
  <2>1. cTick = (cQueue # <<>>) /\ cTick' = (cTick \/ cQueue = <<>>)
    BY Zenon DEF Answer, cSend, ClientInv, ClientIsCarried
  <2> QED
    BY <2>1, Zenon
<1>5. <<d, what>>[1] = d /\ HasWait(cWaits, d)
  BY <1>1, Zenon DEF HasWait
<1>6. ~HasEvent(cQueue, d) /\ ~Listed(waiting_deals, d)
  BY <1>5, Zenon DEF ClientInv, OnePlace, OneEach
<1>7. ~HasWait(cWaits', d)
  BY <1>1, <1>5, Zenon DEF HasWait, ClientInv, OnePlace, OneEach
<1>8. \A e \in Deals \ {d} : HasWait(cWaits', e) <=> HasWait(cWaits, e)
  BY <1>1, <1>5, Zenon DEF HasWait
<1>9. \A e \in Deals \ {d} : HasEvent(cQueue', e) <=> HasEvent(cQueue, e)
  BY <1>2, SentEvents, Zenon
<1>10. HasEvent(cQueue', d)
  BY <1>3 DEF HasEvent
<1>11. ClientTypes'
  BY <1>1, <1>3, <1>4, Zenon
<1>12. OnePlace'
  <2>1. OneEach(cQueue)
    BY Zenon DEF ClientInv, OnePlace
  <2>2. OneEach(cQueue')
    BY <1>2, <1>6, <2>1, SentAlone, Zenon
  <2>3. \A v, w \in cWaits' : v[1] = w[1] => v = w
    BY <1>1, Zenon DEF ClientInv, OnePlace, OneEach
  <2>4. \A e \in Deals : /\ HasEvent(cQueue', e) => ~HasWait(cWaits', e) /\ ~Listed(waiting_deals, e)
                         /\ HasWait(cWaits', e) => ~Listed(waiting_deals, e)
    BY <1>6, <1>7, <1>8, <1>9, Zenon DEF ClientInv, OnePlace, OneEach
  <2> QED
    BY <2>2, <2>3, <2>4, Zenon DEF ClientInv, OnePlace, OneEach
<1>13. ClientIsCarried'
  <2>1. \A i \in 1..Len(cQueue') : ClientExpects(cState[cQueue'[i][1]], cQueue'[i][2])
    <3>1. \A i \in 1..Len(cQueue) : ClientExpects(cState[cQueue[i][1]], cQueue[i][2])
      BY Zenon DEF ClientInv, ClientIsCarried
    <3>2. \A i \in 1..Len(cQueue') : i \in 1..Len(cQueue) \/ i = Len(cQueue) + 1
      BY <1>3
    <3> QED
      BY <1>3, <3>1, <3>2
  <2>2. \A e \in Deals : cState[e] \notin {"none", "ACTIVE", "ERROR"} =>
          HasEvent(cQueue', e) \/ HasWait(cWaits', e) \/ Listed(waiting_deals, e)
    BY <1>8, <1>9, <1>10, Zenon DEF ClientInv, ClientIsCarried
  <2>3. cTick' = (cQueue' # <<>>)
    BY <1>3, <1>4, Zenon
  <2> QED
    BY <1>1, <2>1, <2>2, <2>3, Zenon DEF ClientInv, ClientIsCarried
<1> QED
  BY <1>11, <1>12, <1>13, Zenon DEF ClientInv

\* A deal goes from a callback to the list of the timer.
LEMMA ListKeeps ==
  ASSUME ClientTypes, ClientInv, NEW d \in Deals, NEW what \in {"response", "status"},
         <<d, what>> \in cWaits, cWaits' = cWaits \ {<<d, what>>},
         waiting_deals' = Append(waiting_deals, d), UNCHANGED <<cState, cQueue, cTick>>
  PROVE  ClientTypes' /\ ClientInv'
<1> USE DEF ClientTypes
<1>1. /\ waiting_deals' \in Seq(Deals)
      /\ Len(waiting_deals') = Len(waiting_deals) + 1 /\ Len(waiting_deals) \in Nat
      /\ \A i \in 1..Len(waiting_deals) : waiting_deals'[i] = waiting_deals[i]
      /\ waiting_deals'[Len(waiting_deals) + 1] = d
  BY Sent
<1>2. <<d, what>>[1] = d /\ <<d, what>>[2] = what /\ HasWait(cWaits, d)
  BY Zenon DEF HasWait
<1>3. ~HasEvent(cQueue, d) /\ ~Listed(waiting_deals, d)
  BY <1>2, Zenon DEF ClientInv, OnePlace, OneEach
<1>4. ~HasWait(cWaits', d)
  BY <1>2, Zenon DEF HasWait, ClientInv, OnePlace, OneEach
<1>5. \A e \in Deals \ {d} : HasWait(cWaits', e) <=> HasWait(cWaits, e)
  BY <1>2, Zenon DEF HasWait
<1>6. \A i \in 1..Len(waiting_deals') : i \in 1..Len(waiting_deals) \/ i = Len(waiting_deals) + 1
  BY <1>1
<1>7. \A e \in Deals \ {d} : Listed(waiting_deals', e) <=> Listed(waiting_deals, e)
  BY <1>1, <1>6 DEF Listed
<1>8. Listed(waiting_deals', d)
  BY <1>1 DEF Listed
<1>9. ClientTypes'
  BY <1>1, Zenon
<1>10. cState[d] = "VALIDATING"
  BY <1>2, Zenon DEF ClientInv, ClientIsCarried, ClientAwaits
<1>11. OnePlace'
  <2>1. ASSUME NEW i \in 1..Len(waiting_deals'), NEW j \in 1..Len(waiting_deals'),
               waiting_deals'[i] = waiting_deals'[j]
        PROVE  i = j
    BY <1>1, <1>3, <1>6, <2>1 DEF Listed, ClientInv, OnePlace, OneEach
  <2>2. \A v, w \in cWaits' : v[1] = w[1] => v = w
    BY Zenon DEF ClientInv, OnePlace, OneEach
  <2>3. \A e \in Deals : /\ HasEvent(cQueue, e) => ~HasWait(cWaits', e) /\ ~Listed(waiting_deals', e)
                         /\ HasWait(cWaits', e) => ~Listed(waiting_deals', e)
    BY <1>3, <1>4, <1>5, <1>7, Zenon DEF ClientInv, OnePlace, OneEach
  <2> QED
    BY <2>1, <2>2, <2>3, Zenon DEF ClientInv, OnePlace, OneEach
<1>12. ClientIsCarried'
  <2>1. \A i \in 1..Len(waiting_deals') : cState[waiting_deals'[i]] = "VALIDATING"
    BY <1>1, <1>6, <1>10, Zenon DEF ClientInv, ClientIsCarried
  <2>2. \A e \in Deals : cState[e] \notin {"none", "ACTIVE", "ERROR"} =>
          HasEvent(cQueue, e) \/ HasWait(cWaits', e) \/ Listed(waiting_deals', e)
    BY <1>5, <1>7, <1>8, Zenon DEF ClientInv, ClientIsCarried
  <2> QED
    BY <2>1, <2>2, Zenon DEF ClientInv, ClientIsCarried
<1> QED
  BY <1>9, <1>11, <1>12, Zenon DEF ClientInv

\* A deal goes from one callback to another.
LEMMA AskKeeps ==
  ASSUME ClientTypes, ClientInv, NEW d \in Deals,
         <<d, "response">> \in cWaits, cWaits' = (cWaits \ {<<d, "response">>}) \cup {<<d, "status">>},
         UNCHANGED <<cState, cQueue, cTick, waiting_deals>>
  PROVE  ClientTypes' /\ ClientInv'
<1> USE DEF ClientTypes
<1>1. <<d, "response">>[1] = d /\ <<d, "response">>[2] = "response" /\ <<d, "status">>[1] = d /\ <<d, "status">>[2] = "status"
  BY Zenon
<1>2. HasWait(cWaits, d) /\ HasWait(cWaits', d)
  BY <1>1, Zenon DEF HasWait
<1>3. \A e \in Deals : HasWait(cWaits', e) <=> HasWait(cWaits, e)
  BY <1>1, <1>2, Zenon DEF HasWait
<1>4. cState[d] = "VALIDATING"
  BY <1>1, Zenon DEF ClientInv, ClientIsCarried, ClientAwaits
<1>5. \A v, w \in cWaits' : v[1] = w[1] => v = w
  BY <1>1, SMTT(40) DEF ClientInv, OnePlace, OneEach
<1>6. \A w \in cWaits' : ClientAwaits(cState[w[1]], w[2])
  BY <1>1, <1>4, Zenon DEF ClientInv, ClientIsCarried, ClientAwaits
<1>7. ClientTypes'
  OBVIOUS
<1>8. OnePlace'
  BY <1>3, <1>5, Zenon DEF ClientInv, OnePlace, OneEach
<1>9. ClientIsCarried'
  BY <1>3, <1>6, Zenon DEF ClientInv, ClientIsCarried
<1> QED
  BY <1>7, <1>8, <1>9, Zenon DEF ClientInv

\* The timer asks about all deals of the list.
LEMMA PollKeeps ==
  ASSUME ClientTypes, ClientInv,
         cWaits' = cWaits \cup {<<d, "status">> : d \in {waiting_deals[i] : i \in 1..Len(waiting_deals)}},
         waiting_deals' = <<>>, UNCHANGED <<cState, cQueue, cTick>>
  PROVE  ClientTypes' /\ ClientInv'
<1> USE DEF ClientTypes
<1>1. \A d \in Deals : Listed(waiting_deals, d) => cState[d] = "VALIDATING" /\ ~HasEvent(cQueue, d) /\ ~HasWait(cWaits, d)
  BY Zenon DEF Listed, ClientInv, ClientIsCarried, OnePlace, OneEach
<1>2. \A w \in cWaits' : w \in cWaits \/ \E d \in Deals : Listed(waiting_deals, d) /\ w = <<d, "status">>
  BY DEF Listed
<1>3. \A d \in Deals : HasWait(cWaits', d) <=> HasWait(cWaits, d) \/ Listed(waiting_deals, d)
  <2>1. SUFFICES ASSUME NEW d \in Deals PROVE HasWait(cWaits', d) <=> HasWait(cWaits, d) \/ Listed(waiting_deals, d)
    BY Zenon
  <2>2. HasWait(cWaits', d) => HasWait(cWaits, d) \/ Listed(waiting_deals, d)
    BY <1>2 DEF HasWait
  <2>3. HasWait(cWaits, d) => HasWait(cWaits', d)
    BY Zenon DEF HasWait
  <2>4. ASSUME Listed(waiting_deals, d) PROVE HasWait(cWaits', d)
    <3>1. <<d, "status">> \in cWaits' /\ <<d, "status">>[1] = d
      BY <2>4, Zenon DEF Listed
    <3> QED
      BY <3>1, Zenon DEF HasWait
  <2> QED
    BY <2>2, <2>3, <2>4, Zenon
<1>4. Len(waiting_deals') = 0 /\ waiting_deals' \in Seq(Deals)
  OBVIOUS
<1>5. \A d : ~Listed(waiting_deals', d)
  BY <1>4 DEF Listed
<1>6. ClientTypes'
  BY <1>2, <1>4
<1>7. OnePlace'
  <2>1. ASSUME NEW v \in cWaits', NEW w \in cWaits', v[1] = w[1] PROVE v = w
    <3>1. CASE v \in cWaits /\ w \in cWaits
      BY <2>1, <3>1, Zenon DEF ClientInv, OnePlace, OneEach
    <3>2. \A u \in cWaits : u[1] \in Deals /\ HasWait(cWaits, u[1])
      BY Zenon DEF HasWait
    <3> QED
      BY <1>1, <1>2, <2>1, <3>1, <3>2
  <2>2. \A i, j \in 1..Len(waiting_deals') : waiting_deals'[i] = waiting_deals'[j] => i = j
    BY <1>4
  <2> QED
    BY <1>1, <1>3, <1>5, <2>1, <2>2, Zenon DEF ClientInv, OnePlace, OneEach
<1>8. ClientIsCarried'
  <2>1. \A w \in cWaits' : ClientAwaits(cState[w[1]], w[2])
    BY <1>1, <1>2 DEF ClientInv, ClientIsCarried, ClientAwaits
  <2>2. \A i \in 1..Len(waiting_deals') : cState[waiting_deals'[i]] = "VALIDATING"
    BY <1>4
  <2> QED
    BY <1>3, <2>1, <2>2, Zenon DEF ClientInv, ClientIsCarried
<1> QED
  BY <1>6, <1>7, <1>8, Zenon DEF ClientInv

\* A deal is proposed: its first event is sent.
LEMMA ProposeKeeps ==
  ASSUME ClientTypes, ClientInv, NEW d \in Deals, cState[d] = "none",
         cState' = [cState EXCEPT ![d] = "UNKNOWN"], cSend(d, "Open"), UNCHANGED <<cWaits, waiting_deals>>
  PROVE  ClientTypes' /\ ClientInv'
<1> USE DEF ClientTypes
<1>1. cQueue' = Append(cQueue, <<d, "Open">>)
  BY Zenon DEF cSend
<1>2. /\ cQueue' \in Seq(Deals \X ClientEvents)
      /\ Len(cQueue') = Len(cQueue) + 1 /\ Len(cQueue) \in Nat
      /\ \A i \in 1..Len(cQueue) : cQueue'[i] = cQueue[i]
      /\ cQueue'[Len(cQueue) + 1] = <<d, "Open">>
      /\ cQueue' # <<>>
  <2>1. <<d, "Open">> \in Deals \X ClientEvents
    BY Zenon DEF ClientEvents
  <2> QED
    BY <1>1, <2>1, Sent
<1>3. cTick' = TRUE
  <2>1. cTick = (cQueue # <<>>) /\ cTick' = (cTick \/ cQueue = <<>>)
    BY Zenon DEF cSend, ClientInv, ClientIsCarried
  <2> QED
    BY <2>1, Zenon
<1>4. cState'[d] = "UNKNOWN" /\ cState' \in [Deals -> Statuses \cup {"none"}] /\ \A e \in Deals \ {d} : cState'[e] = cState[e]
  BY Zenon DEF Statuses
<1>5. ~HasEvent(cQueue, d) /\ ~HasWait(cWaits, d) /\ ~Listed(waiting_deals, d)
  BY Zenon DEF ClientInv, ClientIsCarried, HasEvent, HasWait, Listed, ClientExpects, ClientAwaits
<1>6. "Open" \in ClientEvents
  BY Zenon DEF ClientEvents
<1>7. \A i \in 1..Len(cQueue') : i \in 1..Len(cQueue) \/ i = Len(cQueue) + 1
  BY <1>2
<1>8. \A e \in Deals \ {d} : HasEvent(cQueue', e) <=> HasEvent(cQueue, e)
  BY <1>1, <1>6, SentEvents, Zenon
<1>9. HasEvent(cQueue', d)
  BY <1>2 DEF HasEvent
<1>10. ClientTypes'
  BY <1>2, <1>3, <1>4, Zenon
<1>11. OnePlace'
  <2>1. OneEach(cQueue)
    BY Zenon DEF ClientInv, OnePlace
  <2>2. OneEach(cQueue')
    BY <1>1, <1>5, <1>6, <2>1, SentAlone, Zenon
  <2>3. \A e \in Deals : /\ HasEvent(cQueue', e) => ~HasWait(cWaits, e) /\ ~Listed(waiting_deals, e)
                         /\ HasWait(cWaits, e) => ~Listed(waiting_deals, e)
    BY <1>5, <1>8, Zenon DEF ClientInv, OnePlace, OneEach
  <2> QED
    BY <2>2, <2>3, Zenon DEF ClientInv, OnePlace, OneEach
<1>12. ClientIsCarried'
  <2>1. \A i \in 1..Len(cQueue) : cQueue[i][1] \in Deals \ {d}
    BY <1>5 DEF HasEvent
  <2>2. \A i \in 1..Len(cQueue) : ClientExpects(cState'[cQueue[i][1]], cQueue[i][2])
    BY <1>4, <2>1, Zenon DEF ClientInv, ClientIsCarried
  <2>3. ClientExpects(cState'[d], "Open")
    BY <1>4, Zenon DEF ClientExpects
  <2>4. \A i \in 1..Len(cQueue') : ClientExpects(cState'[cQueue'[i][1]], cQueue'[i][2])
    BY <1>2, <1>7, <2>2, <2>3
  <2>5. \A w \in cWaits : w[1] \in Deals \ {d}
    BY <1>5, Zenon DEF HasWait
  <2>6. \A w \in cWaits : ClientAwaits(cState'[w[1]], w[2])
    BY <1>4, <2>5, Zenon DEF ClientInv, ClientIsCarried
  <2>7. \A i \in 1..Len(waiting_deals) : waiting_deals[i] \in Deals \ {d}
    BY <1>5 DEF Listed
  <2>8. \A i \in 1..Len(waiting_deals) : cState'[waiting_deals[i]] = "VALIDATING"
    BY <1>4, <2>7, Zenon DEF ClientInv, ClientIsCarried
  <2>9. \A e \in Deals : cState'[e] \notin {"none", "ACTIVE", "ERROR"} =>
          HasEvent(cQueue', e) \/ HasWait(cWaits, e) \/ Listed(waiting_deals, e)
    BY <1>4, <1>8, <1>9, Zenon DEF ClientInv, ClientIsCarried
  <2>10. cTick' = (cQueue' # <<>>)
    BY <1>2, <1>3, Zenon
  <2> QED
    BY <2>4, <2>6, <2>8, <2>9, <2>10, Zenon DEF ClientIsCarried
<1> QED
  BY <1>10, <1>11, <1>12, Zenon DEF ClientInv

-----------------------------------------------------------------------------
\* What is in the client's queue after a tick that sends nothing,
LEMMA EventsAfterTick ==
  ASSUME ClientTypes, ClientInv, NEW d \in Deals, NEW event, cHandle(d, event, <<>>),
         NEW e \in Deals, NEW ev, InQueue(cQueue', <<e, ev>>)
  PROVE  e # d /\ InQueue(cQueue, <<e, ev>>)
<1>1. PICK i \in 1..Len(cQueue') : cQueue'[i] = <<e, ev>>
  BY Zenon DEF InQueue
<1>2. i + 1 \in 1..Len(cQueue) /\ cQueue'[i] = cQueue[i + 1] /\ cQueue'[i][1] # d
  BY <1>1, ClientOthers, Zenon
<1> QED
  BY <1>1, <1>2 DEF InQueue

\* after a tick that sends an event,
LEMMA EventsAfterSend ==
  ASSUME ClientTypes, ClientInv, NEW d \in Deals, NEW event, NEW next \in ClientEvents,
         cHandle(d, event, One(d, next)), NEW e \in Deals, NEW ev, InQueue(cQueue', <<e, ev>>)
  PROVE  (e # d /\ InQueue(cQueue, <<e, ev>>)) \/ (e = d /\ ev = next)
<1>1. PICK i \in 1..Len(cQueue') : cQueue'[i] = <<e, ev>>
  BY Zenon DEF InQueue
<1>2. CASE i = Len(cQueue)
  <2>1. cQueue'[i] = <<d, next>>
    BY <1>2, ClientOthersSent, Zenon
  <2> QED
    BY <1>1, <2>1
<1>3. CASE i # Len(cQueue)
  <2>1. i + 1 \in 1..Len(cQueue) /\ cQueue'[i] = cQueue[i + 1] /\ cQueue'[i][1] # d
    BY <1>1, <1>3, ClientOthersSent, Zenon
  <2> QED
    BY <1>1, <2>1 DEF InQueue
<1> QED
  BY <1>2, <1>3, Zenon

\* and after an event from outside.
LEMMA EventsAfterAnswer ==
  ASSUME ClientTypes, NEW d \in Deals, NEW event \in ClientEvents, cSend(d, event), ~HasEvent(cQueue, d),
         NEW e \in Deals, NEW ev, InQueue(cQueue', <<e, ev>>)
  PROVE  (e # d /\ InQueue(cQueue, <<e, ev>>)) \/ (e = d /\ ev = event)
<1>1. PICK i \in 1..Len(cQueue') : cQueue'[i] = <<e, ev>>
  BY Zenon DEF InQueue
<1>2. cQueue' = Append(cQueue, <<d, event>>) /\ cQueue \in Seq(Deals \X ClientEvents)
  BY Zenon DEF cSend, ClientTypes
<1>3. <<d, event>> \in Deals \X ClientEvents
  BY Zenon
<1>4. \A k \in 1..Len(cQueue) : cQueue'[k] = cQueue[k]
  BY <1>2, <1>3, Sent
<1>5. cQueue'[Len(cQueue) + 1] = <<d, event>>
  BY <1>2, <1>3, Sent
<1>6. i \in 1..Len(cQueue) \/ i = Len(cQueue) + 1
  BY <1>2, SentEvents, Zenon
<1>7. CASE i \in 1..Len(cQueue)
  <2>1. cQueue[i] = <<e, ev>>
    BY <1>1, <1>4, <1>7, Zenon
  <2> QED
    BY <1>7, <2>1 DEF InQueue, HasEvent
<1>8. CASE i = Len(cQueue) + 1
  BY <1>1, <1>5, <1>8
<1> QED
  BY <1>6, <1>7, <1>8, Zenon

\* A step of a deal of the client says nothing new of the others.
LEMMA TruthOthers ==
  ASSUME ClientTruth, NEW d \in Deals, UNCHANGED <<setting, publish_msg, committed>>,
         \A e \in Deals \ {d} : cState'[e] = cState[e] /\ stream'[e] = stream[e] /\ ask'[e] = ask[e],
         \A e \in Deals \ {d} : \A ev : InQueue(cQueue', <<e, ev>>) => InQueue(cQueue, <<e, ev>>),
         ClientTruthOf(d)'
  PROVE  ClientTruth'
<1>1. ASSUME NEW e \in Deals \ {d} PROVE ClientTruthOf(e)'
  <2>1. ClientTruthOf(e)
    BY <1>1, Zenon DEF ClientTruth
  <2>2. Published(CidOf[e])' <=> Published(CidOf[e])
    BY Zenon DEF Published, CidOf
  <2>3. cState'[e] = cState[e] /\ stream'[e] = stream[e] /\ ask'[e] = ask[e] /\ CidOf' = CidOf /\ committed' = committed
    BY <1>1, Zenon DEF CidOf
  <2>4. /\ InQueue(cQueue', <<e, "DealAccepted">>) => InQueue(cQueue, <<e, "DealAccepted">>)
        /\ InQueue(cQueue', <<e, "DealActivated">>) => InQueue(cQueue, <<e, "DealActivated">>)
    BY <1>1, Zenon
  <2> QED
    BY <2>1, <2>2, <2>3, <2>4, Zenon DEF ClientTruthOf
<1> QED
  BY <1>1, Zenon DEF ClientTruth

\* What the client knows of a deal after handling an event.
LEMMA MovedTruth ==
  ASSUME ClientTypes, ClientInv, ClientTruth, NEW d \in Deals, NEW event, NEW sends, cHandle(d, event, sends),
         UNCHANGED <<setting, publish_msg, committed, ask>>,
         stream'[d] = stream[d] \/ cState'[d] = "VALIDATING"
  PROVE  /\ cState'[d] \in {"none", "UNKNOWN", "ENSURE_CLIENT_FUNDS", "CLIENT_FUNDING"} => stream'[d] = "none"
         /\ (ask[d].state \in AfterPublish)' => Published(CidOf[d])'
         /\ cState'[d] \in {"PROPOSAL_ACCEPTED", "SEALING", "ACTIVE"} => Published(CidOf[d])'
         /\ cState'[d] = "ACTIVE" => (CidOf[d] \in committed)'
<1>1. cQueue # <<>> /\ cQueue[1] = <<d, event>> /\ ClientMoves(cState[d], event, cState'[d])
  BY ClientTakes, Zenon
<1>2. Len(cQueue) \in Nat /\ Len(cQueue) >= 1
  BY <1>1, Taken, Zenon DEF ClientTypes
<1>3. InQueue(cQueue, <<d, event>>)
  BY <1>1, <1>2 DEF InQueue
<1>4. ClientTruthOf(d)
  BY Zenon DEF ClientTruth
<1>5. (Published(CidOf[d])' <=> Published(CidOf[d])) /\ CidOf' = CidOf
  BY Zenon DEF Published, CidOf
<1> QED
  BY <1>1, <1>3, <1>4, <1>5, Zenon DEF ClientTruthOf, ClientMoves

\* It is true after a tick that sends nothing,
LEMMA TickTruth ==
  ASSUME ClientTypes, ClientInv, ClientTruth, NEW d \in Deals, NEW event, cHandle(d, event, <<>>),
         UNCHANGED <<setting, publish_msg, committed, ask>>,
         stream'[d] = stream[d] \/ cState'[d] = "VALIDATING",
         \A e \in Deals \ {d} : stream'[e] = stream[e]
  PROVE  ClientTruth'
<1>1. \A e \in Deals \ {d} : cState'[e] = cState[e] /\ stream'[e] = stream[e] /\ ask'[e] = ask[e]
  BY ClientTakes, Zenon
<1>2. \A e \in Deals \ {d} : \A ev : InQueue(cQueue', <<e, ev>>) => InQueue(cQueue, <<e, ev>>)
  BY EventsAfterTick, Zenon
<1>3. \A ev : ~InQueue(cQueue', <<d, ev>>)
  BY EventsAfterTick, Zenon
<1>4. ClientTruthOf(d)'
  BY <1>3, MovedTruth, Zenon DEF ClientTruthOf
<1> QED
  BY <1>1, <1>2, <1>4, TruthOthers, Zenon

\* after one that sends an event,
LEMMA SendTruth ==
  ASSUME ClientTypes, ClientInv, ClientTruth, NEW d \in Deals, NEW event, NEW next \in ClientEvents,
         cHandle(d, event, One(d, next)),
         UNCHANGED <<setting, publish_msg, committed, ask, stream>>,
         next # "DealAccepted", next = "DealActivated" => CidOf[d] \in committed
  PROVE  ClientTruth'
<1>1. \A e \in Deals \ {d} : cState'[e] = cState[e] /\ stream'[e] = stream[e] /\ ask'[e] = ask[e]
  BY ClientTakes, Zenon
<1>2. \A e \in Deals \ {d} : \A ev : InQueue(cQueue', <<e, ev>>) => InQueue(cQueue, <<e, ev>>)
  BY EventsAfterSend, Zenon
<1>3. \A ev : InQueue(cQueue', <<d, ev>>) => ev = next
  BY EventsAfterSend, Zenon
<1>4. ~InQueue(cQueue', <<d, "DealAccepted">>)
  BY <1>3, Zenon
<1>5. InQueue(cQueue', <<d, "DealActivated">>) => (CidOf[d] \in committed)'
  BY <1>3, Zenon DEF CidOf
<1>6. ClientTruthOf(d)'
  BY <1>4, <1>5, MovedTruth, Zenon DEF ClientTruthOf
<1> QED
  BY <1>1, <1>2, <1>6, TruthOthers, Zenon

\* and after a callback.
LEMMA AnswerTruth ==
  ASSUME ClientTypes, ClientInv, ClientTruth, NEW d \in Deals, NEW what, NEW event \in ClientEvents,
         Answer(d, what, event), UNCHANGED <<setting, publish_msg, committed, stream, cState>>,
         \A e \in Deals \ {d} : ask'[e] = ask[e],
         ask'[d].state \notin AfterPublish \/ ask'[d] = ask[d],
         event = "DealAccepted" => Published(CidOf[d]),
         event = "DealActivated" => CidOf[d] \in committed
  PROVE  ClientTruth'
<1>1. <<d, what>> \in cWaits /\ <<d, what>>[1] = d /\ cSend(d, event)
  BY Zenon DEF Answer
<1>2. ~HasEvent(cQueue, d)
  BY <1>1, Zenon DEF ClientInv, OnePlace, HasWait
<1>3. \A e \in Deals \ {d} : \A ev : InQueue(cQueue', <<e, ev>>) => InQueue(cQueue, <<e, ev>>)
  BY <1>1, <1>2, EventsAfterAnswer, Zenon
<1>4. \A ev : InQueue(cQueue', <<d, ev>>) => ev = event
  BY <1>1, <1>2, EventsAfterAnswer, Zenon
<1>5. (Published(CidOf[d])' <=> Published(CidOf[d])) /\ CidOf' = CidOf
  BY Zenon DEF Published, CidOf
<1>6. ClientTruthOf(d)
  BY Zenon DEF ClientTruth
<1>7. InQueue(cQueue', <<d, "DealAccepted">>) => Published(CidOf[d])
  BY <1>4, Zenon
<1>8. InQueue(cQueue', <<d, "DealActivated">>) => CidOf[d] \in committed
  BY <1>4, Zenon
<1>9. ClientTruthOf(d)'
  BY <1>5, <1>6, <1>7, <1>8, Zenon DEF ClientTruthOf
<1> QED
  BY <1>3, <1>9, TruthOthers, Zenon

\* Asking says nothing of the answer.
LEMMA AskTruth ==
  ASSUME ClientTruth, UNCHANGED <<setting, publish_msg, committed, stream, cState, cQueue>>,
         \A e \in Deals : ask'[e].state \notin AfterPublish \/ ask'[e] = ask[e]
  PROVE  ClientTruth'
<1>1. ASSUME NEW e \in Deals PROVE ClientTruthOf(e)'
  <2>1. ClientTruthOf(e)
    BY Zenon DEF ClientTruth
  <2>2. (Published(CidOf[e])' <=> Published(CidOf[e])) /\ CidOf' = CidOf
    BY Zenon DEF Published, CidOf
  <2> QED
    BY <2>1, <2>2, Zenon DEF ClientTruthOf
<1> QED
  BY <1>1, Zenon DEF ClientTruth

\* The client's ticks.
LEMMA ClientTickInv ==
  ASSUME ClientTypes, ClientInv, ClientTruth, OtherTypes, clientTick
  PROVE  ClientTypes' /\ ClientInv' /\ ClientTruth'
<1>1. PICK d \in Deals :
        \/ onClientEventOpen(d) \/ onClientEventFundingInitiated(d) \/ onClientEventFundsEnsured(d)
        \/ onClientEventDealRejected(d) \/ onClientEventDealAccepted(d) \/ onClientEventDealPublished(d)
        \/ onClientEventFinal(d)
  BY Zenon DEF clientTick
<1>2. CASE onClientEventOpen(d)
  <2>1. PICK next \in ensureFunds : cHandle(d, "Open", One(d, next))
    BY <1>2, Zenon DEF onClientEventOpen
  <2>2. UNCHANGED <<cWaits, waiting_deals, setting, publish_msg, committed, ask, stream>>
    BY <1>2, Zenon DEF onClientEventOpen, worldVars
  <2>3. next \in ClientEvents /\ next # "DealAccepted" /\ next # "DealActivated"
    BY Zenon DEF ensureFunds, ClientEvents
  <2>4. ClientMoves(cState[d], "Open", cState'[d])
    BY <2>1, ClientTakes, Zenon
  <2>5. ClientExpects(cState'[d], next)
    BY <2>4, Zenon DEF ClientMoves, ClientExpects, ensureFunds
  <2>6. ClientTypes' /\ ClientInv'
    BY <2>1, <2>2, <2>3, <2>5, TickSends, Zenon
  <2>7. ClientTruth'
    BY <2>1, <2>2, <2>3, SendTruth, Zenon
  <2> QED
    BY <2>6, <2>7, Zenon
<1>3. CASE onClientEventFundingInitiated(d)
  <2>1. cHandle(d, "FundingInitiated", <<>>) /\ cWaits' = cWaits \cup {<<d, "funding">>}
    BY <1>3, Zenon DEF onClientEventFundingInitiated
  <2>2. UNCHANGED <<waiting_deals, setting, publish_msg, committed, ask, stream>>
    BY <1>3, Zenon DEF onClientEventFundingInitiated, worldVars
  <2>3. ClientMoves(cState[d], "FundingInitiated", cState'[d])
    BY <2>1, ClientTakes, Zenon
  <2>4. ClientAwaits(cState'[d], "funding")
    BY <2>3, Zenon DEF ClientMoves, ClientAwaits
  <2>5. ClientTypes' /\ ClientInv'
    BY <2>1, <2>2, <2>4, TickWaits, Zenon
  <2>6. ClientTruth'
    BY <2>1, <2>2, TickTruth, Zenon
  <2> QED
    BY <2>5, <2>6, Zenon
<1>4. CASE onClientEventFundsEnsured(d)
  <2>1. cHandle(d, "FundsEnsured", <<>>) /\ cWaits' = cWaits \cup {<<d, "response">>}
    BY <1>4, Zenon DEF onClientEventFundsEnsured
  <2>2. UNCHANGED <<waiting_deals, setting, publish_msg, committed, ask>>
    BY <1>4, Zenon DEF onClientEventFundsEnsured
  <2>3. \A e \in Deals \ {d} : stream'[e] = stream[e]
    BY <1>4, Zenon DEF onClientEventFundsEnsured, OtherTypes
  <2>4. ClientMoves(cState[d], "FundsEnsured", cState'[d])
    BY <2>1, ClientTakes, Zenon
  <2>5. cState'[d] = "VALIDATING" /\ ClientAwaits(cState'[d], "response")
    BY <2>4, Zenon DEF ClientMoves, ClientAwaits
  <2>6. ClientTypes' /\ ClientInv'
    BY <2>1, <2>2, <2>5, TickWaits, Zenon
  <2>7. ClientTruth'
    BY <2>1, <2>2, <2>3, <2>5, TickTruth, Zenon
  <2> QED
    BY <2>6, <2>7, Zenon
<1>5. CASE onClientEventDealRejected(d)
  <2>1. cHandle(d, "DealRejected", One(d, "Failed"))
    BY <1>5, Zenon DEF onClientEventDealRejected
  <2>2. UNCHANGED <<cWaits, waiting_deals, setting, publish_msg, committed, ask, stream>>
    BY <1>5, Zenon DEF onClientEventDealRejected, worldVars
  <2>3. "Failed" \in ClientEvents
    BY Zenon DEF ClientEvents
  <2>4. ClientMoves(cState[d], "DealRejected", cState'[d])
    BY <2>1, ClientTakes, Zenon
  <2>5. ClientExpects(cState'[d], "Failed")
    BY <2>4, Zenon DEF ClientMoves, ClientExpects
  <2>6. ClientTypes' /\ ClientInv'
    BY <2>1, <2>2, <2>3, <2>5, TickSends, Zenon
  <2>7. ClientTruth'
    BY <2>1, <2>2, <2>3, SendTruth, Zenon
  <2> QED
    BY <2>6, <2>7, Zenon
<1>6. CASE onClientEventDealAccepted(d)
  <2>1. cHandle(d, "DealAccepted", <<>>) /\ cWaits' = cWaits \cup {<<d, "publish">>}
    BY <1>6, Zenon DEF onClientEventDealAccepted
  <2>2. UNCHANGED <<waiting_deals, setting, publish_msg, committed, ask, stream>>
    BY <1>6, Zenon DEF onClientEventDealAccepted, worldVars
  <2>3. ClientMoves(cState[d], "DealAccepted", cState'[d])
    BY <2>1, ClientTakes, Zenon
  <2>4. ClientAwaits(cState'[d], "publish")
    BY <2>3, Zenon DEF ClientMoves, ClientAwaits
  <2>5. ClientTypes' /\ ClientInv'
    BY <2>1, <2>2, <2>4, TickWaits, Zenon
  <2>6. ClientTruth'
    BY <2>1, <2>2, TickTruth, Zenon
  <2> QED
    BY <2>5, <2>6, Zenon
<1>7. CASE onClientEventDealPublished(d)
  <2>1. UNCHANGED <<waiting_deals, setting, publish_msg, committed, ask, stream>>
    BY <1>7, Zenon DEF onClientEventDealPublished, worldVars
  <2>2. CASE CidOf[d] \in committed /\ UNCHANGED cWaits /\ cHandle(d, "DealPublished", One(d, "DealActivated"))
    <3>1. "DealActivated" \in ClientEvents
      BY Zenon DEF ClientEvents
    <3>2. ClientMoves(cState[d], "DealPublished", cState'[d])
      BY <2>2, ClientTakes, Zenon
    <3>3. ClientExpects(cState'[d], "DealActivated")
      BY <3>2, Zenon DEF ClientMoves, ClientExpects
    <3>4. ClientTypes' /\ ClientInv'
      BY <2>1, <2>2, <3>1, <3>3, TickSends, Zenon
    <3>5. ClientTruth'
      BY <2>1, <2>2, <3>1, SendTruth, Zenon
    <3> QED
      BY <3>4, <3>5, Zenon
  <2>3. ASSUME NEW what \in {"commit", "forgotten"}, cWaits' = cWaits \cup {<<d, what>>},
               cHandle(d, "DealPublished", <<>>)
        PROVE  ClientTypes' /\ ClientInv' /\ ClientTruth'
    <3>1. ClientMoves(cState[d], "DealPublished", cState'[d])
      BY <2>3, ClientTakes, Zenon
    <3>2. ClientAwaits(cState'[d], what)
      BY <3>1, Zenon DEF ClientMoves, ClientAwaits
    <3>3. ClientTypes' /\ ClientInv'
      BY <2>1, <2>3, <3>2, TickWaits, Zenon
    <3>4. ClientTruth'
      BY <2>1, <2>3, TickTruth, Zenon
    <3> QED
      BY <3>3, <3>4, Zenon
  <2> QED
    BY <1>7, <2>2, <2>3, Zenon DEF onClientEventDealPublished
<1>8. CASE onClientEventFinal(d)
  <2>1. PICK event \in {"DealActivated", "Failed"} : cHandle(d, event, <<>>)
    BY <1>8, Zenon DEF onClientEventFinal
  <2>2. UNCHANGED <<cWaits, waiting_deals, setting, publish_msg, committed, ask, stream>>
    BY <1>8, Zenon DEF onClientEventFinal, worldVars
  <2>3. ClientMoves(cState[d], event, cState'[d])
    BY <2>1, ClientTakes, Zenon
  <2>4. cState'[d] \in {"ACTIVE", "ERROR"}
    BY <2>3, Zenon DEF ClientMoves
  <2>5. ClientTypes' /\ ClientInv'
    BY <2>1, <2>2, <2>4, TickEnds, Zenon
  <2>6. ClientTruth'
    BY <2>1, <2>2, TickTruth, Zenon
  <2> QED
    BY <2>5, <2>6, Zenon
<1> QED
  BY <1>1, <1>2, <1>3, <1>4, <1>5, <1>6, <1>7, <1>8, Zenon

\* An answer, an error or a rejection for the callback a deal waits for.
LEMMA AnswerInv ==
  ASSUME ClientTypes, ClientInv, ClientTruth, NEW d \in Deals,
         NEW what \in {"funding", "response", "status", "publish", "commit"}, NEW event \in ClientEvents,
         Answer(d, what, event), ClientAwaits(cState[d], what) => ClientExpects(cState[d], event),
         UNCHANGED <<setting, publish_msg, committed, stream, cState, waiting_deals>>,
         \A e \in Deals \ {d} : ask'[e] = ask[e],
         ask'[d].state \notin AfterPublish \/ ask'[d] = ask[d],
         event = "DealAccepted" => Published(CidOf[d]),
         event = "DealActivated" => CidOf[d] \in committed
  PROVE  ClientTypes' /\ ClientInv' /\ ClientTruth'
<1>1. <<d, what>> \in cWaits /\ <<d, what>>[1] = d /\ <<d, what>>[2] = what
  BY Zenon DEF Answer
<1>2. ClientAwaits(cState[d], what)
  BY <1>1, Zenon DEF ClientInv, ClientIsCarried
<1>3. ClientTypes' /\ ClientInv'
  BY <1>2, AnswerKeeps, Zenon
<1>4. ClientTruth'
  BY AnswerTruth, Zenon
<1> QED
  BY <1>3, <1>4, Zenon

\* The callbacks of the client.
LEMMA ClientCallbackInv ==
  ASSUME ClientTypes, ClientInv, ClientTruth, OtherTypes, clientCallback
  PROVE  ClientTypes' /\ ClientInv' /\ ClientTruth'
<1> USE DEF ClientEvents
<1>1. PICK d \in Deals :
        \/ ClientFundingAnswer(d) \/ ResponseError(d) \/ ResponseRejected(d) \/ ResponseGraphsync(d)
        \/ ResponseManual(d) \/ StatusAccepted(d) \/ StatusRejected(d) \/ StatusWaits(d)
        \/ ClientPublishAnswer(d) \/ ClientCommitAnswer(d)
  BY Zenon DEF clientCallback
<1>2. CASE ClientFundingAnswer(d)
  <2>1. PICK event \in {"Failed", "FundsEnsured"} : Answer(d, "funding", event)
    BY <1>2, Zenon DEF ClientFundingAnswer
  <2>2. UNCHANGED <<setting, publish_msg, committed, stream, cState, waiting_deals, ask>>
    BY <1>2, Zenon DEF ClientFundingAnswer, worldVars
  <2>3. ClientAwaits(cState[d], "funding") => ClientExpects(cState[d], event)
    BY Zenon DEF ClientAwaits, ClientExpects
  <2> QED
    BY <2>1, <2>2, <2>3, AnswerInv, Zenon
<1>3. CASE ResponseError(d)
  <2>1. Answer(d, "response", "Failed")
    BY <1>3, Zenon DEF ResponseError
  <2>2. UNCHANGED <<setting, publish_msg, committed, stream, cState, waiting_deals, ask>>
    BY <1>3, Zenon DEF ResponseError, worldVars
  <2>3. ClientAwaits(cState[d], "response") => ClientExpects(cState[d], "Failed")
    BY Zenon DEF ClientAwaits, ClientExpects
  <2> QED
    BY <2>1, <2>2, <2>3, AnswerInv, Zenon
<1>4. CASE ResponseRejected(d)
  <2>1. PICK event \in {"DealRejected", "Failed"} : Answer(d, "response", event)
    BY <1>4, Zenon DEF ResponseRejected
  <2>2. UNCHANGED <<setting, publish_msg, committed, stream, cState, waiting_deals, ask>>
    BY <1>4, Zenon DEF ResponseRejected, worldVars
  <2>3. ClientAwaits(cState[d], "response") => ClientExpects(cState[d], event)
    BY Zenon DEF ClientAwaits, ClientExpects
  <2> QED
    BY <2>1, <2>2, <2>3, AnswerInv, Zenon
<1>5. CASE ResponseGraphsync(d)
  <2>1. <<d, "response">> \in cWaits /\ UNCHANGED <<cState, cQueue, cTick, setting, stream, publish_msg, committed>>
    BY <1>5, Zenon DEF ResponseGraphsync
  <2>2. CASE /\ ask' = [ask EXCEPT ![d] = Asked]
             /\ cWaits' = (cWaits \ {<<d, "response">>}) \cup {<<d, "status">>}
             /\ UNCHANGED waiting_deals
    <3>1. ClientTypes' /\ ClientInv'
      BY <2>1, <2>2, AskKeeps, Zenon
    <3>2. \A e \in Deals : ask'[e].state \notin AfterPublish \/ ask'[e] = ask[e]
      BY <2>2, Zenon DEF OtherTypes, Asked, AfterPublish
    <3> QED
      BY <2>1, <3>1, <3>2, AskTruth, Zenon
  <2>3. CASE /\ cWaits' = cWaits \ {<<d, "response">>}
             /\ waiting_deals' = Append(waiting_deals, d)
             /\ UNCHANGED ask
    <3>1. ClientTypes' /\ ClientInv'
      BY <2>1, <2>3, ListKeeps, Zenon
    <3> QED
      BY <2>1, <2>3, <3>1, AskTruth, Zenon
  <2> QED
    BY <1>5, <2>2, <2>3, Zenon DEF ResponseGraphsync
<1>6. CASE ResponseManual(d)
  <2>1. /\ <<d, "response">> \in cWaits /\ cWaits' = cWaits \ {<<d, "response">>}
        /\ waiting_deals' = Append(waiting_deals, d)
        /\ UNCHANGED <<cState, cQueue, cTick, setting, stream, publish_msg, committed, ask>>
    BY <1>6, Zenon DEF ResponseManual, worldVars
  <2>2. ClientTypes' /\ ClientInv'
    BY <2>1, ListKeeps, Zenon
  <2> QED
    BY <2>1, <2>2, AskTruth, Zenon
<1>7. CASE StatusAccepted(d)
  <2>1. Answer(d, "status", "DealAccepted") /\ ask' = [ask EXCEPT ![d] = NotAsked]
    BY <1>7, Zenon DEF StatusAccepted
  <2>2. UNCHANGED <<setting, publish_msg, committed, stream, cState, waiting_deals>>
    BY <1>7, Zenon DEF StatusAccepted
  <2>3. ClientAwaits(cState[d], "status") => ClientExpects(cState[d], "DealAccepted")
    BY Zenon DEF ClientAwaits, ClientExpects
  <2>4. (\A e \in Deals \ {d} : ask'[e] = ask[e]) /\ ask'[d].state \notin AfterPublish
    BY <2>1, Zenon DEF OtherTypes, NotAsked, AfterPublish
  <2>5. ask[d].state \in AfterPublish
    BY <1>7, Zenon DEF StatusAccepted, PublishedStatuses, AfterPublish, OtherTypes, AskStates, Statuses
  <2>6. Published(CidOf[d])
    BY <2>5, Zenon DEF ClientTruth, ClientTruthOf
  <2> QED
    BY <2>1, <2>2, <2>3, <2>4, <2>6, AnswerInv, Zenon
<1>8. CASE StatusRejected(d)
  <2>1. Answer(d, "status", "DealRejected") /\ ask' = [ask EXCEPT ![d] = NotAsked]
    BY <1>8, Zenon DEF StatusRejected
  <2>2. UNCHANGED <<setting, publish_msg, committed, stream, cState, waiting_deals>>
    BY <1>8, Zenon DEF StatusRejected
  <2>3. ClientAwaits(cState[d], "status") => ClientExpects(cState[d], "DealRejected")
    BY Zenon DEF ClientAwaits, ClientExpects
  <2>4. (\A e \in Deals \ {d} : ask'[e] = ask[e]) /\ ask'[d].state \notin AfterPublish
    BY <2>1, Zenon DEF OtherTypes, NotAsked, AfterPublish
  <2> QED
    BY <2>1, <2>2, <2>3, <2>4, AnswerInv, Zenon
<1>9. CASE StatusWaits(d)
  <2>1. /\ <<d, "status">> \in cWaits /\ cWaits' = cWaits \ {<<d, "status">>}
        /\ waiting_deals' = Append(waiting_deals, d) /\ ask' = [ask EXCEPT ![d] = NotAsked]
        /\ UNCHANGED <<cState, cQueue, cTick, setting, stream, publish_msg, committed>>
    BY <1>9, Zenon DEF StatusWaits
  <2>2. ClientTypes' /\ ClientInv'
    BY <2>1, ListKeeps, Zenon
  <2>3. \A e \in Deals : ask'[e].state \notin AfterPublish \/ ask'[e] = ask[e]
    BY <2>1, Zenon DEF OtherTypes, NotAsked, AfterPublish
  <2> QED
    BY <2>1, <2>2, <2>3, AskTruth, Zenon
<1>10. CASE ClientPublishAnswer(d)
  <2>1. PICK event \in {"DealPublished", "Failed"} : Answer(d, "publish", event)
    BY <1>10, Zenon DEF ClientPublishAnswer
  <2>2. UNCHANGED <<setting, publish_msg, committed, stream, cState, waiting_deals, ask>>
    BY <1>10, Zenon DEF ClientPublishAnswer, worldVars
  <2>3. ClientAwaits(cState[d], "publish") => ClientExpects(cState[d], event)
    BY Zenon DEF ClientAwaits, ClientExpects
  <2> QED
    BY <2>1, <2>2, <2>3, AnswerInv, Zenon
<1>11. CASE ClientCommitAnswer(d)
  <2>1. PICK event \in {"DealActivated", "Failed"} :
          Answer(d, "commit", event) /\ (event = "DealActivated" => CidOf[d] \in committed)
    BY <1>11, Zenon DEF ClientCommitAnswer
  <2>2. UNCHANGED <<setting, publish_msg, committed, stream, cState, waiting_deals, ask>>
    BY <1>11, Zenon DEF ClientCommitAnswer, worldVars
  <2>3. ClientAwaits(cState[d], "commit") => ClientExpects(cState[d], event)
    BY Zenon DEF ClientAwaits, ClientExpects
  <2> QED
    BY <2>1, <2>2, <2>3, AnswerInv, Zenon
<1> QED
  BY <1>1, <1>2, <1>3, <1>4, <1>5, <1>6, <1>7, <1>8, <1>9, <1>10, <1>11, Zenon

\* Every step of the client.
LEMMA ClientStepInv ==
  ASSUME ClientTypes, ClientInv, ClientTruth, OtherTypes, clientStep
  PROVE  ClientTypes' /\ ClientInv' /\ ClientTruth'
<1>1. CASE pollWaiting
  <2>1. UNCHANGED <<cState, cQueue, cTick, setting, stream, publish_msg, committed>>
    BY <1>1, Zenon DEF pollWaiting
  <2>2. CASE UNCHANGED <<ask, cWaits, waiting_deals>>
    <3>1. ClientTypes' /\ ClientInv'
      BY <2>1, <2>2, Zenon DEF ClientTypes, ClientInv, OnePlace, ClientIsCarried
    <3> QED
      BY <2>1, <2>2, <3>1, AskTruth, Zenon
  <2>3. CASE ~UNCHANGED <<ask, cWaits, waiting_deals>>
    <3> DEFINE asked == {waiting_deals[i] : i \in 1..Len(waiting_deals)}
    <3>1. /\ ask' = [d \in Deals |-> IF d \in asked THEN Asked ELSE ask[d]]
          /\ cWaits' = cWaits \cup {<<d, "status">> : d \in asked}
          /\ waiting_deals' = <<>>
      BY <1>1, <2>3, Zenon DEF pollWaiting
    <3>2. ClientTypes' /\ ClientInv'
      BY <2>1, <3>1, PollKeeps, Zenon
    <3> HIDE DEF asked
    <3>3. \A e \in Deals : ask'[e].state \notin AfterPublish \/ ask'[e] = ask[e]
      BY <3>1, Zenon DEF Asked, AfterPublish
    <3> QED
      BY <2>1, <3>2, <3>3, AskTruth, Zenon
  <2> QED
    BY <2>2, <2>3, Zenon
<1>2. ASSUME NEW d \in Deals, proposeStorageDeal(d) PROVE ClientTypes' /\ ClientInv' /\ ClientTruth'
  <2>1. /\ cState[d] = "none" /\ cState' = [cState EXCEPT ![d] = "UNKNOWN"] /\ cSend(d, "Open")
        /\ UNCHANGED <<cWaits, waiting_deals, setting, stream, publish_msg, committed, ask>>
    BY <1>2, Zenon DEF proposeStorageDeal, worldVars
  <2>2. ClientTypes' /\ ClientInv'
    BY <2>1, ProposeKeeps, Zenon
  <2>3. ~HasEvent(cQueue, d)
    BY <2>1, Zenon DEF ClientInv, ClientIsCarried, HasEvent, ClientExpects
  <2>4. "Open" \in ClientEvents
    BY Zenon DEF ClientEvents
  <2>5. \A e \in Deals \ {d} : \A ev : InQueue(cQueue', <<e, ev>>) => InQueue(cQueue, <<e, ev>>)
    BY <2>1, <2>3, <2>4, EventsAfterAnswer, Zenon
  <2>6. \A ev : InQueue(cQueue', <<d, ev>>) => ev = "Open"
    BY <2>1, <2>3, <2>4, EventsAfterAnswer, Zenon
  <2>7. ~InQueue(cQueue', <<d, "DealAccepted">>) /\ ~InQueue(cQueue', <<d, "DealActivated">>)
    BY <2>6, Zenon
  <2>8. (Published(CidOf[d])' <=> Published(CidOf[d])) /\ ClientTruthOf(d) /\ cState'[d] = "UNKNOWN"
    BY <2>1, Zenon DEF Published, CidOf, ClientTruth, ClientTypes
  <2>9. ClientTruthOf(d)'
    BY <2>1, <2>7, <2>8, Zenon DEF ClientTruthOf
  <2>10. \A e \in Deals \ {d} : cState'[e] = cState[e] /\ stream'[e] = stream[e] /\ ask'[e] = ask[e]
    BY <2>1, Zenon DEF ClientTypes
  <2>11. ClientTruth'
    BY <2>1, <2>5, <2>9, <2>10, TruthOthers, Zenon
  <2> QED
    BY <2>2, <2>11, Zenon
<1> QED
  BY <1>1, <1>2, ClientTickInv, ClientCallbackInv, Zenon DEF clientStep

\* The client changes nothing of the provider; a stream it opens is a new one.
LEMMA ClientStepOthers ==
  ASSUME ClientTypes, ClientInv, ClientTruth, OtherTypes, ProviderTruth, clientStep, UNCHANGED pvars
  PROVE  OtherTypes' /\ ProviderTruth'
<1> USE DEF pvars
<1>1. ASSUME UNCHANGED worldVars, UNCHANGED <<publish_message, stuck>> PROVE OtherTypes' /\ ProviderTruth'
  <2>1. OtherTypes'
    BY <1>1, Zenon DEF OtherTypes, worldVars
  <2>2. ProviderTruth'
    BY <1>1, Zenon DEF ProviderTruth, ProviderTruthOf, worldVars
  <2> QED
    BY <2>1, <2>2, Zenon
<1>2. ASSUME UNCHANGED <<setting, stream, publish_msg, handed, committed>>,
             ask' \in [Deals -> [state : AskStates, from : Deals \cup {NoDeal}]],
             pushes' \in SUBSET Deals, publish_message' \in [Deals -> Deals \cup {NoDeal}], stuck' \in BOOLEAN
      PROVE  OtherTypes' /\ ProviderTruth'
  <2>1. OtherTypes'
    BY <1>2, Zenon DEF OtherTypes
  <2>2. ProviderTruth'
    BY <1>2, Zenon DEF ProviderTruth, ProviderTruthOf
  <2> QED
    BY <2>1, <2>2, Zenon
<1>3. /\ ask \in [Deals -> [state : AskStates, from : Deals \cup {NoDeal}]] /\ pushes \in SUBSET Deals
      /\ publish_message \in [Deals -> Deals \cup {NoDeal}] /\ stuck \in BOOLEAN
  BY Zenon DEF OtherTypes
<1>4. /\ NotAsked \in [state : AskStates, from : Deals \cup {NoDeal}]
      /\ Asked \in [state : AskStates, from : Deals \cup {NoDeal}]
  BY Zenon DEF NotAsked, Asked, AskStates
<1>5. ASSUME clientTick PROVE OtherTypes' /\ ProviderTruth'
  <2>1. PICK d \in Deals :
          \/ onClientEventOpen(d) \/ onClientEventFundingInitiated(d) \/ onClientEventFundsEnsured(d)
          \/ onClientEventDealRejected(d) \/ onClientEventDealAccepted(d) \/ onClientEventDealPublished(d)
          \/ onClientEventFinal(d)
    BY <1>5, Zenon DEF clientTick
  <2>2. CASE onClientEventFundsEnsured(d)
    <3>1. cHandle(d, "FundsEnsured", <<>>) /\ UNCHANGED <<publish_message, stuck, setting, ask, pushes, publish_msg, handed, committed>>
      BY <2>2, Zenon DEF onClientEventFundsEnsured
    <3>2. PICK s \in {"sent", "closed"} : stream' = [stream EXCEPT ![d] = s]
      BY <2>2, Zenon DEF onClientEventFundsEnsured
    <3>3. ClientMoves(cState[d], "FundsEnsured", cState'[d])
      BY <3>1, ClientTakes, Zenon
    <3>4. stream[d] = "none"
      BY <3>3, Zenon DEF ClientMoves, ClientTruth, ClientTruthOf
    <3>5. OtherTypes'
      BY <3>1, <3>2, Zenon DEF OtherTypes
    <3>6. \A e \in Deals : stream'[e] \in {"none", "sent"} => stream[e] \in {"none", "sent"}
      BY <3>2, <3>4, Zenon DEF OtherTypes
    <3>7. ProviderTruth'
      BY <3>1, <3>6, Zenon DEF ProviderTruth, ProviderTruthOf
    <3> QED
      BY <3>5, <3>7, Zenon
  <2>3. CASE ~onClientEventFundsEnsured(d)
    <3>1. UNCHANGED worldVars /\ UNCHANGED <<publish_message, stuck>>
      BY <2>1, <2>3, Zenon DEF onClientEventOpen, onClientEventFundingInitiated, onClientEventDealRejected,
           onClientEventDealAccepted, onClientEventDealPublished, onClientEventFinal
    <3> QED
      BY <1>1, <3>1, Zenon
  <2> QED
    BY <2>2, <2>3, Zenon
<1>6. ASSUME clientCallback PROVE OtherTypes' /\ ProviderTruth'
  <2>1. PICK d \in Deals :
          \/ ClientFundingAnswer(d) \/ ResponseError(d) \/ ResponseRejected(d) \/ ResponseGraphsync(d)
          \/ ResponseManual(d) \/ StatusAccepted(d) \/ StatusRejected(d) \/ StatusWaits(d)
          \/ ClientPublishAnswer(d) \/ ClientCommitAnswer(d)
    BY <1>6, Zenon DEF clientCallback
  <2>2. CASE ResponseGraphsync(d)
    <3>1. UNCHANGED <<setting, stream, publish_msg, handed, committed, publish_message, stuck>> /\ pushes' = pushes \cup {d}
      BY <2>2, Zenon DEF ResponseGraphsync
    <3>2. ask' \in [Deals -> [state : AskStates, from : Deals \cup {NoDeal}]]
      BY <1>3, <1>4, <2>2, Zenon DEF ResponseGraphsync
    <3> QED
      BY <1>2, <1>3, <3>1, <3>2, Zenon
  <2>3. CASE StatusAccepted(d)
    <3>1. /\ UNCHANGED <<setting, stream, publish_msg, handed, committed, pushes, stuck>>
          /\ ask' = [ask EXCEPT ![d] = NotAsked]
          /\ publish_message' = [publish_message EXCEPT ![d] = ask[d].from]
      BY <2>3, Zenon DEF StatusAccepted
    <3>2. ask[d].from \in Deals \cup {NoDeal}
      BY <1>3, Zenon
    <3> QED
      BY <1>2, <1>3, <1>4, <3>1, <3>2, Zenon
  <2>4. CASE StatusRejected(d) \/ StatusWaits(d)
    <3>1. /\ UNCHANGED <<setting, stream, publish_msg, handed, committed, pushes, stuck, publish_message>>
          /\ ask' = [ask EXCEPT ![d] = NotAsked]
      BY <2>4, Zenon DEF StatusRejected, StatusWaits
    <3> QED
      BY <1>2, <1>3, <1>4, <3>1, Zenon
  <2>5. CASE \/ ClientFundingAnswer(d) \/ ResponseError(d) \/ ResponseRejected(d)
             \/ ResponseManual(d) \/ ClientPublishAnswer(d) \/ ClientCommitAnswer(d)
    <3>1. UNCHANGED worldVars /\ UNCHANGED <<publish_message, stuck>>
      BY <2>5, Zenon DEF ClientFundingAnswer, ResponseError, ResponseRejected, ResponseManual,
           ClientPublishAnswer, ClientCommitAnswer
    <3> QED
      BY <1>1, <3>1, Zenon
  <2> QED
    BY <2>1, <2>2, <2>3, <2>4, <2>5, Zenon
<1>7. ASSUME pollWaiting PROVE OtherTypes' /\ ProviderTruth'
  <2>1. UNCHANGED <<setting, stream, publish_msg, handed, committed, pushes, publish_message>>
    BY <1>7, Zenon DEF pollWaiting
  <2>2. stuck' \in BOOLEAN /\ ask' \in [Deals -> [state : AskStates, from : Deals \cup {NoDeal}]]
    BY <1>3, <1>4, <1>7, Zenon DEF pollWaiting
  <2> QED
    BY <1>2, <1>3, <2>1, <2>2, Zenon
<1>8. ASSUME NEW d \in Deals, proposeStorageDeal(d) PROVE OtherTypes' /\ ProviderTruth'
  BY <1>1, <1>8, Zenon DEF proposeStorageDeal
<1> QED
  BY <1>5, <1>6, <1>7, <1>8, Zenon DEF clientStep
=============================================================================
