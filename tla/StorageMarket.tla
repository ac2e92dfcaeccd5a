--------------------------- MODULE StorageMarket ----------------------------
(***************************************************************************)
(* The storage market: the world of a deal, the provider, the client, and  *)
(* the two together.                                                       *)
(***************************************************************************)
EXTENDS Naturals, Sequences

(***************************************************************************)
(* What the two sides of the storage market share: the proposals, the      *)
(* streams and data transfers between them, and the chain.                 *)
(***************************************************************************)

CONSTANTS
  Deals,     \* deals of a client; two may be the same proposal
  Cids,      \* cids of proposals
  Settings   \* the deals that are proposed, whether the network loses anything, and bounds

NoDeal == "no deal"

Statuses ==
  {"UNKNOWN", "ENSURE_CLIENT_FUNDS", "CLIENT_FUNDING", "VALIDATING", "FAILING", "PROPOSAL_ACCEPTED",
   "WAITING_FOR_DATA", "TRANSFERRING", "VERIFY_DATA", "ENSURE_PROVIDER_FUNDS", "PROVIDER_FUNDING",
   "PUBLISH", "PUBLISHING", "STAGED", "SEALING", "ACTIVE", "EXPIRED", "ERROR"}

ASSUME WorldAssumption ==
  /\ \A s \in Settings :
       /\ s.cid \in [Deals -> Cids]
       /\ DOMAIN s.transfer \subseteq Deals
       /\ \A d \in DOMAIN s.transfer : s.transfer[d] \in {"manual", "graphsync", "other"}
       /\ s.imports \in Nat /\ s.restarts \in Nat /\ s.losses \in BOOLEAN
  /\ NoDeal \notin Deals

VARIABLES
  setting,      \* a member of Settings, which stays the same
  stream,       \* the stream a deal was proposed on, with the answer it carries
  ask,          \* the status request of a deal, with its answer
  pushes,       \* data transfer requests on their way to the provider
  publish_msg,  \* PublishStorageDeals messages, by the deal that sent them
  handed,       \* deals whose piece was added to a sector
  committed     \* proposals whose sector is committed

\* The cid of each deal's proposal.
CidOf == setting.cid

worldVars == <<setting, stream, ask, pushes, publish_msg, handed, committed>>

NotAsked == [state |-> "not asked", from |-> NoDeal]
Asked == [state |-> "asked", from |-> NoDeal]
AskFailed == [state |-> "failed", from |-> NoDeal]

WorldInit ==
  /\ setting \in Settings
  /\ stream = [d \in Deals |-> "none"]
  /\ ask = [d \in Deals |-> NotAsked]
  /\ pushes = {}
  /\ publish_msg = [d \in Deals |-> "none"]
  /\ handed = {}
  /\ committed = {}

Published(c) == \E d \in Deals : CidOf[d] = c /\ publish_msg[d] = "ok"

\* The network: an unanswered stream breaks, a request or a push is lost.
StreamBreaks(d) ==
  /\ stream[d] \in {"sent", "open"}
  /\ stream' = [stream EXCEPT ![d] = "closed"]
  /\ UNCHANGED <<setting, ask, pushes, publish_msg, handed, committed>>

AskIsLost(d) ==
  /\ ask[d] = Asked
  /\ ask' = [ask EXCEPT ![d] = AskFailed]
  /\ UNCHANGED <<setting, stream, pushes, publish_msg, handed, committed>>

PushIsLost(d) ==
  /\ d \in pushes
  /\ pushes' = pushes \ {d}
  /\ UNCHANGED <<setting, stream, ask, publish_msg, handed, committed>>

(***************************************************************************)
(* The chain: PublishStorageDeals accepts a proposal once; a sector with   *)
(* the piece of a published deal is committed.                             *)
(***************************************************************************)
PublishIsExecuted(d) ==
  /\ publish_msg[d] = "sent"
  /\ \/ ~Published(CidOf[d]) /\ publish_msg' = [publish_msg EXCEPT ![d] = "ok"]
     \/ publish_msg' = [publish_msg EXCEPT ![d] = "failed"]
  /\ UNCHANGED <<setting, stream, ask, pushes, handed, committed>>

SectorIsCommitted(d) ==
  /\ d \in handed
  /\ Published(CidOf[d])
  /\ committed' = committed \cup {CidOf[d]}
  /\ UNCHANGED <<setting, stream, ask, pushes, publish_msg, handed>>

-----------------------------------------------------------------------------
(***************************************************************************)
(* The provider of the storage market (StorageProviderImpl): a state       *)
(* machine per deal, all of them on one event queue (see Fsm), with        *)
(* discard_event = false.  A tick with the action it runs is one step.     *)
(* Events and states are named without their prefixes.                     *)
(*                                                                         *)
(* A deal of the model is a DealContext.  Callers name deals by proposal   *)
(* cid, so when a proposal arrives twice a caller may get either of them.  *)
(***************************************************************************)

VARIABLES
  pState,       \* the machine's states_; "none" for a deal it does not track
  status,       \* deal->state, which clients are told
  pQueue,       \* event_queue_
  pTick,        \* a tick is posted
  connections,  \* connections_: the stream for each proposal
  pWaits,       \* callbacks waiting for the chain
  transfers,    \* data transfers being received
  imported,     \* deals with a verified piece_path
  imports,      \* bound: calls of importDataForDeal
  restarts,     \* bound: restarts of the process
  extra         \* history: data came for a deal that was not waiting for it

pvars == <<pState, status, pQueue, pTick, connections, pWaits, transfers, imported, imports, restarts, extra>>

Rule(event, from, to) == {[event |-> event, from |-> f, to |-> to] : f \in from}

\* Mutant: imported data is not expected while the deal waits for it.
ProviderRulesNoImport ==
  UNION {Rule("Open", {"UNKNOWN"}, "VALIDATING"),
         Rule("DealAccepted", {"VALIDATING"}, "PROPOSAL_ACCEPTED"),
         Rule("WaitingForManualData", {"PROPOSAL_ACCEPTED"}, "WAITING_FOR_DATA"),
         Rule("DataTransferInitiated", {"PROPOSAL_ACCEPTED"}, "TRANSFERRING"),
         Rule("DataTransferCompleted", {"WAITING_FOR_DATA", "TRANSFERRING"}, "VERIFY_DATA"),
         Rule("VerifiedData", {"VERIFY_DATA"}, "ENSURE_PROVIDER_FUNDS"),
         Rule("Failed", Statuses, "ERROR")}

ProviderRules ==
  UNION {Rule("Open", {"UNKNOWN"}, "VALIDATING"),
         Rule("DealAccepted", {"VALIDATING"}, "PROPOSAL_ACCEPTED"),
         Rule("WaitingForManualData", {"PROPOSAL_ACCEPTED"}, "WAITING_FOR_DATA"),
         Rule("DataTransferInitiated", {"PROPOSAL_ACCEPTED"}, "TRANSFERRING"),
         Rule("DataTransferCompleted", {"WAITING_FOR_DATA", "TRANSFERRING"}, "VERIFY_DATA"),
         Rule("VerifiedData", {"VERIFY_DATA", "WAITING_FOR_DATA"}, "ENSURE_PROVIDER_FUNDS"),
         Rule("FundingInitiated", {"ENSURE_PROVIDER_FUNDS"}, "PROVIDER_FUNDING"),
         Rule("Funded", {"PROVIDER_FUNDING", "ENSURE_PROVIDER_FUNDS"}, "PUBLISH"),
         Rule("DealPublishInitiated", {"PUBLISH"}, "PUBLISHING"),
         Rule("DealPublished", {"PUBLISHING"}, "STAGED"),
         Rule("DealHandedOff", {"STAGED"}, "SEALING"),
         Rule("DealActivated", {"SEALING"}, "ACTIVE"),
         Rule("DealCompleted", {"ACTIVE"}, "EXPIRED"),
         Rule("Failed", Statuses, "ERROR")}

PInit ==
  /\ pState = [d \in Deals |-> "none"]
  /\ status = [d \in Deals |-> "UNKNOWN"]
  /\ pQueue = <<>>
  /\ pTick = FALSE
  /\ connections = [c \in Cids |-> NoDeal]
  /\ pWaits = {}
  /\ transfers = {}
  /\ imported = {}
  /\ imports = 0
  /\ restarts = 0
  /\ extra = FALSE

Tracked(c) == {d \in Deals : CidOf[d] = c /\ pState[d] # "none"}

\* send() from outside a tick.
pSend(d, event) ==
  /\ pQueue' = Append(pQueue, <<d, event>>)
  /\ pTick' = (pTick \/ pQueue = <<>>)

\* tick() with a matching rule: the action sends what is in sends, and deal->state is set.
pHandle(d, event, sends) ==
  /\ pTick
  /\ Head(pQueue) = <<d, event>>
  /\ \E r \in ProviderRules :
       /\ r.event = event
       /\ r.from = pState[d]
       /\ pState' = [pState EXCEPT ![d] = r.to]
       /\ status' = [status EXCEPT ![d] = r.to]
  /\ pQueue' = Tail(pQueue) \o sends
  /\ pTick' = (pQueue' # <<>>)

\* tick() without a matching rule: the event goes back to the queue.
pUnmatched ==
  /\ pTick
  /\ LET d == Head(pQueue)[1]
         event == Head(pQueue)[2]
     IN ~\E r \in ProviderRules : r.event = event /\ r.from = pState[d]
  /\ pQueue' = Append(Tail(pQueue), Head(pQueue))
  /\ pTick' = (Tail(pQueue) # <<>>)
  /\ UNCHANGED <<pState, status, connections, pWaits, transfers, imported, imports, restarts, extra, worldVars>>

Failed(d) == << <<d, "Failed">> >>

getStream(d) == connections[CidOf[d]]

Respond(d, answer) ==
  LET s == getStream(d) IN
  stream' = IF s # NoDeal /\ stream[s] = "open" THEN [stream EXCEPT ![s] = answer] ELSE stream

\* Mutant: the event is sent, and the machine does not track the deal.
handleMKDealStreamUntracked(d) ==
  /\ stream[d] = "sent"
  /\ stream' = [stream EXCEPT ![d] = "open"]
  /\ connections' = IF connections[CidOf[d]] = NoDeal THEN [connections EXCEPT ![CidOf[d]] = d] ELSE connections
  /\ pSend(d, "Open")
  /\ UNCHANGED <<pState, status, pWaits, transfers, imported, imports, restarts, extra,
                 setting, ask, pushes, publish_msg, handed, committed>>

\* A proposal is read; a stream that the same proposal came on before is kept.
handleMKDealStream(d) ==
  /\ stream[d] = "sent"
  /\ stream' = [stream EXCEPT ![d] = "open"]
  /\ pState' = [pState EXCEPT ![d] = "UNKNOWN"]
  /\ connections' = IF connections[CidOf[d]] = NoDeal THEN [connections EXCEPT ![CidOf[d]] = d] ELSE connections
  /\ pSend(d, "Open")
  /\ UNCHANGED <<status, pWaits, transfers, imported, imports, restarts, extra,
                 setting, ask, pushes, publish_msg, handed, committed>>

onProviderEventOpen(d) ==
  /\ \E verified \in BOOLEAN : pHandle(d, "Open", IF verified THEN << <<d, "DealAccepted">> >> ELSE Failed(d))
  /\ UNCHANGED <<connections, pWaits, transfers, imported, imports, restarts, extra, worldVars>>

\* The response is signed and sent, or the deal fails.
onProviderEventDealAccepted(d) ==
  /\ \/ /\ getStream(d) # NoDeal
        /\ Respond(d, "accepted")
        /\ pHandle(d, "DealAccepted",
                   CASE setting.transfer[d] = "manual" -> << <<d, "WaitingForManualData">> >>
                     [] setting.transfer[d] = "graphsync" -> << <<d, "DataTransferInitiated">> >>
                     [] OTHER -> Failed(d))
     \/ UNCHANGED stream /\ pHandle(d, "DealAccepted", Failed(d))
  /\ UNCHANGED <<connections, pWaits, transfers, imported, imports, restarts, extra,
                 setting, ask, pushes, publish_msg, handed, committed>>

onProviderEventWaitingForManualData(d) ==
  /\ pHandle(d, "WaitingForManualData", <<>>)
  /\ UNCHANGED <<connections, pWaits, transfers, imported, imports, restarts, extra, worldVars>>

onProviderEventDataTransferInitiated(d) ==
  /\ pHandle(d, "DataTransferInitiated", <<>>)
  /\ UNCHANGED <<connections, pWaits, transfers, imported, imports, restarts, extra, worldVars>>

\* A deal that waits for data has no other data on its way.
WaitsForImport(d) ==
  /\ pState[d] = "WAITING_FOR_DATA"
  /\ d \notin transfers
  /\ \A i \in 1..Len(pQueue) : pQueue[i][1] # d

WaitsForTransfer(d) ==
  /\ pState[d] \in {"PROPOSAL_ACCEPTED", "TRANSFERRING"}
  /\ d \notin transfers
  /\ \A i \in 1..Len(pQueue) : pQueue[i] \notin {<<d, "Failed">>, <<d, "DataTransferCompleted">>}

\* importDataForDeal, called by the operator.  A piece that does not match changes nothing.
importDataForDeal(c) ==
  \E d \in Tracked(c) :
    /\ imports < setting.imports
    /\ imports' = imports + 1
    /\ imported' = imported \cup {d}
    /\ extra' = (extra \/ ~WaitsForImport(d))
    /\ pSend(d, "VerifiedData")
    /\ UNCHANGED <<pState, status, connections, pWaits, transfers, restarts, worldVars>>

(***************************************************************************)
(* on_push: the transfer of a deal that is known is accepted, whatever     *)
(* state the deal is in.                                                   *)
(***************************************************************************)
onPush(d) ==
  /\ d \in pushes
  /\ pushes' = pushes \ {d}
  /\ \/ Tracked(CidOf[d]) = {} /\ UNCHANGED <<transfers, extra>>
     \/ \E e \in Tracked(CidOf[d]) :
          /\ transfers' = transfers \cup {e}
          /\ extra' = (extra \/ ~WaitsForTransfer(e))
  /\ UNCHANGED <<pState, status, pQueue, pTick, connections, pWaits, imported, imports, restarts,
                 setting, stream, ask, publish_msg, handed, committed>>

TransferEnds(d) ==
  /\ d \in transfers
  /\ transfers' = transfers \ {d}
  /\ \E event \in {"DataTransferCompleted", "Failed"} : pSend(d, event)
  /\ UNCHANGED <<pState, status, connections, pWaits, imported, imports, restarts, extra, worldVars>>

\* The car is made and imported for the deal that has the proposal's cid.
onProviderEventDataTransferCompleted(d) ==
  /\ \/ pHandle(d, "DataTransferCompleted", Failed(d)) /\ UNCHANGED <<imported, extra>>
     \/ \E e \in Tracked(CidOf[d]) :
          /\ pHandle(d, "DataTransferCompleted", << <<e, "VerifiedData">> >>)
          /\ imported' = imported \cup {e}
          /\ extra' = (extra \/ (e # d /\ ~WaitsForImport(e)))
  /\ UNCHANGED <<connections, pWaits, transfers, imports, restarts, worldVars>>

\* Reserving funds fails, sends a message, or finds nothing to do.
ensureProviderFunds == {"Failed", "FundingInitiated", "Funded"}

onProviderEventVerifiedData(d) ==
  /\ \E event \in ensureProviderFunds : pHandle(d, "VerifiedData", << <<d, event>> >>)
  /\ UNCHANGED <<connections, pWaits, transfers, imported, imports, restarts, extra, worldVars>>

onProviderEventFundingInitiated(d) ==
  /\ pHandle(d, "FundingInitiated", <<>>)
  /\ pWaits' = pWaits \cup {<<d, "funding">>}
  /\ UNCHANGED <<connections, transfers, imported, imports, restarts, extra, worldVars>>

FundingAnswer(d) ==
  /\ <<d, "funding">> \in pWaits
  /\ pWaits' = pWaits \ {<<d, "funding">>}
  /\ \E event \in {"Failed", "Funded"} : pSend(d, event)
  /\ UNCHANGED <<pState, status, connections, transfers, imported, imports, restarts, extra, worldVars>>

onProviderEventFunded(d) ==
  /\ \/ pHandle(d, "Funded", Failed(d)) /\ UNCHANGED publish_msg
     \/ pHandle(d, "Funded", << <<d, "DealPublishInitiated">> >>) /\ publish_msg' = [publish_msg EXCEPT ![d] = "sent"]
  /\ UNCHANGED <<connections, pWaits, transfers, imported, imports, restarts, extra,
                 setting, stream, ask, pushes, handed, committed>>

\* Mutant: the deal goes on without waiting for its message.
onProviderEventDealPublishInitiatedAtOnce(d) ==
  /\ pHandle(d, "DealPublishInitiated", << <<d, "DealPublished">> >>)
  /\ UNCHANGED <<connections, pWaits, transfers, imported, imports, restarts, extra, worldVars>>

onProviderEventDealPublishInitiated(d) ==
  /\ pHandle(d, "DealPublishInitiated", <<>>)
  /\ pWaits' = pWaits \cup {<<d, "publish">>}
  /\ UNCHANGED <<connections, transfers, imported, imports, restarts, extra, worldVars>>

\* The callback writes deal->state; it does not look at the state the deal is in.
PublishAnswer(d) ==
  /\ <<d, "publish">> \in pWaits
  /\ publish_msg[d] \in {"ok", "failed"}
  /\ pWaits' = pWaits \ {<<d, "publish">>}
  /\ \/ /\ publish_msg[d] = "ok"
        /\ status' = [status EXCEPT ![d] = "PUBLISHING"]
        /\ pSend(d, "DealPublished")
     \/ UNCHANGED status /\ pSend(d, "Failed")
  /\ UNCHANGED <<pState, connections, transfers, imported, imports, restarts, extra, worldVars>>

onProviderEventDealPublished(d) ==
  /\ \/ pHandle(d, "DealPublished", Failed(d)) /\ UNCHANGED handed
     \/ pHandle(d, "DealPublished", << <<d, "DealHandedOff">> >>) /\ handed' = handed \cup {d}
  /\ UNCHANGED <<connections, pWaits, transfers, imported, imports, restarts, extra,
                 setting, stream, ask, pushes, publish_msg, committed>>

(***************************************************************************)
(* onDealSectorCommitted answers at once, keeps the callback, or, when a   *)
(* call to the node fails, logs the error and forgets the callback.        *)
(***************************************************************************)
onProviderEventDealHandedOff(d) ==
  /\ \/ CidOf[d] \in committed /\ UNCHANGED pWaits /\ pHandle(d, "DealHandedOff", << <<d, "DealActivated">> >>)
     \/ \E what \in {"commit", "forgotten"} : pWaits' = pWaits \cup {<<d, what>>} /\ pHandle(d, "DealHandedOff", <<>>)
  /\ UNCHANGED <<connections, transfers, imported, imports, restarts, extra, worldVars>>

CommitAnswer(d) ==
  /\ <<d, "commit">> \in pWaits
  /\ pWaits' = pWaits \ {<<d, "commit">>}
  /\ \/ CidOf[d] \in committed /\ pSend(d, "DealActivated")
     \/ pSend(d, "Failed")
  /\ UNCHANGED <<pState, status, connections, transfers, imported, imports, restarts, extra, worldVars>>

onProviderEventDealActivated(d) ==
  /\ \E sends \in {<<>>, Failed(d)} : pHandle(d, "DealActivated", sends)
  /\ UNCHANGED <<connections, pWaits, transfers, imported, imports, restarts, extra, worldVars>>

\* The proposal's stream is closed and forgotten, the piece removed.
finalizeDeal(d) ==
  /\ connections' = [connections EXCEPT ![CidOf[d]] = NoDeal]
  /\ imported' = imported \ {d}

\* The response is signed and sent, or only the stream closed.
onProviderEventFailed(d) ==
  /\ pHandle(d, "Failed", <<>>)
  /\ \/ Respond(d, "rejected")
     \/ Respond(d, "closed")
  /\ finalizeDeal(d)
  /\ UNCHANGED <<pWaits, transfers, imports, restarts, extra,
                 setting, ask, pushes, publish_msg, handed, committed>>

\* A proposal that is not known is reported as an error.
handleDealStatus(d) ==
  /\ ask[d] = Asked
  /\ \/ /\ Tracked(CidOf[d]) = {}
        /\ ask' = [ask EXCEPT ![d] = [state |-> "ERROR", from |-> NoDeal]]
     \/ \E e \in Tracked(CidOf[d]) : ask' = [ask EXCEPT ![d] = [state |-> status[e], from |-> e]]
  /\ UNCHANGED <<pvars, setting, stream, pushes, publish_msg, handed, committed>>

(***************************************************************************)
(* The process stops and starts again; deals are in memory only.  An error *)
(* of the wait for a publish message stops it too: the callback takes the  *)
(* value of a result that has none.                                        *)
(***************************************************************************)
ProviderRestart ==
  /\ restarts < setting.restarts
  /\ restarts' = restarts + 1
  /\ pState' = [d \in Deals |-> "none"]
  /\ status' = [d \in Deals |-> "UNKNOWN"]
  /\ pQueue' = <<>>
  /\ pTick' = FALSE
  /\ connections' = [c \in Cids |-> NoDeal]
  /\ pWaits' = {}
  /\ transfers' = {}
  /\ imported' = {}
  /\ extra' = FALSE
  /\ stream' = [d \in Deals |-> IF stream[d] = "open" THEN "closed" ELSE stream[d]]
  /\ UNCHANGED <<imports, setting, ask, pushes, publish_msg, handed, committed>>

providerTick ==
  \/ pUnmatched
  \/ \E d \in Deals :
       \/ onProviderEventOpen(d)
       \/ onProviderEventDealAccepted(d)
       \/ onProviderEventWaitingForManualData(d)
       \/ onProviderEventDataTransferInitiated(d)
       \/ onProviderEventDataTransferCompleted(d)
       \/ onProviderEventVerifiedData(d)
       \/ onProviderEventFundingInitiated(d)
       \/ onProviderEventFunded(d)
       \/ onProviderEventDealPublishInitiated(d)
       \/ onProviderEventDealPublished(d)
       \/ onProviderEventDealHandedOff(d)
       \/ onProviderEventDealActivated(d)
       \/ onProviderEventFailed(d)

providerStep ==
  \/ providerTick
  \/ \E d \in Deals :
       \/ handleMKDealStream(d)
       \/ onPush(d)
       \/ TransferEnds(d)
       \/ FundingAnswer(d)
       \/ PublishAnswer(d)
       \/ CommitAnswer(d)
       \/ handleDealStatus(d)
  \/ \E c \in Cids : importDataForDeal(c)
  \/ ProviderRestart
-----------------------------------------------------------------------------
\* Events are about deals that the machine tracks.
ProviderTypeOK ==
  /\ pState \in [Deals -> Statuses \cup {"none"}]
  /\ status \in [Deals -> Statuses]
  /\ \A i \in 1..Len(pQueue) : /\ pState[pQueue[i][1]] # "none"
                              /\ \E r \in ProviderRules : r.event = pQueue[i][2]
  /\ pTick \in BOOLEAN
  /\ connections \in [Cids -> Deals \cup {NoDeal}]
  /\ pWaits \subseteq Deals \X {"funding", "publish", "commit", "forgotten"}
  /\ transfers \subseteq Deals
  /\ imported \subseteq Deals
  /\ imports \in 0..setting.imports
  /\ restarts \in 0..setting.restarts
  /\ extra \in BOOLEAN

-----------------------------------------------------------------------------
(***************************************************************************)
(* The client of the storage market (StorageMarketClientImpl): a state     *)
(* machine per deal on one event queue, and the list of deals whose status *)
(* the timer polls.  A tick with the action it runs is one step.           *)
(***************************************************************************)

VARIABLES
  cState,           \* the machine's states_; "none" for a deal not proposed yet
  cQueue,           \* event_queue_
  cTick,            \* a tick is posted
  cWaits,           \* callbacks waiting for the provider or the chain
  waiting_deals,    \* waiting_deals
  publish_message,  \* deal->publish_message, as the deal that sent it
  stuck             \* the thread waits for a mutex that it holds

cvars == <<cState, cQueue, cTick, cWaits, waiting_deals, publish_message, stuck>>

ClientRule(event, from, to) == {[event |-> event, from |-> f, to |-> to] : f \in from}

ClientRules ==
  UNION {ClientRule("Open", {"UNKNOWN"}, "ENSURE_CLIENT_FUNDS"),
         ClientRule("FundingInitiated", {"ENSURE_CLIENT_FUNDS"}, "CLIENT_FUNDING"),
         ClientRule("FundsEnsured", {"ENSURE_CLIENT_FUNDS", "CLIENT_FUNDING"}, "VALIDATING"),
         ClientRule("DealRejected", {"VALIDATING"}, "FAILING"),
         ClientRule("DealAccepted", {"VALIDATING"}, "PROPOSAL_ACCEPTED"),
         ClientRule("DealPublished", {"PROPOSAL_ACCEPTED"}, "SEALING"),
         ClientRule("DealActivated", {"SEALING"}, "ACTIVE"),
         ClientRule("Failed", Statuses, "ERROR")}

CInit ==
  /\ cState = [d \in Deals |-> "none"]
  /\ cQueue = <<>>
  /\ cTick = FALSE
  /\ cWaits = {}
  /\ waiting_deals = <<>>
  /\ publish_message = [d \in Deals |-> NoDeal]
  /\ stuck = FALSE

cSend(d, event) ==
  /\ cQueue' = Append(cQueue, <<d, event>>)
  /\ cTick' = (cTick \/ cQueue = <<>>)

cHandle(d, event, sends) ==
  /\ cTick
  /\ ~stuck
  /\ Head(cQueue) = <<d, event>>
  /\ \E r \in ClientRules : r.event = event /\ r.from = cState[d] /\ cState' = [cState EXCEPT ![d] = r.to]
  /\ cQueue' = Tail(cQueue) \o sends
  /\ cTick' = (cQueue' # <<>>)

One(d, event) == << <<d, event>> >>

\* The callback that the deal waits for is called, and sends an event.
Answer(d, what, event) ==
  /\ ~stuck
  /\ <<d, what>> \in cWaits
  /\ cWaits' = cWaits \ {<<d, what>>}
  /\ cSend(d, event)

\* An error of addPeer is returned although the deal goes on.
proposeStorageDeal(d) ==
  /\ ~stuck
  /\ d \in DOMAIN setting.transfer
  /\ cState[d] = "none"
  /\ cState' = [cState EXCEPT ![d] = "UNKNOWN"]
  /\ cSend(d, "Open")
  /\ UNCHANGED <<cWaits, waiting_deals, publish_message, stuck, worldVars>>

\* Reserving funds fails, sends a message, or finds nothing to do.
ensureFunds == {"Failed", "FundingInitiated", "FundsEnsured"}

onClientEventOpen(d) ==
  /\ \E event \in ensureFunds : cHandle(d, "Open", One(d, event))
  /\ UNCHANGED <<cWaits, waiting_deals, publish_message, stuck, worldVars>>

onClientEventFundingInitiated(d) ==
  /\ cHandle(d, "FundingInitiated", <<>>)
  /\ cWaits' = cWaits \cup {<<d, "funding">>}
  /\ UNCHANGED <<waiting_deals, publish_message, stuck, worldVars>>

ClientFundingAnswer(d) ==
  /\ \E event \in {"Failed", "FundsEnsured"} : Answer(d, "funding", event)
  /\ UNCHANGED <<cState, waiting_deals, publish_message, stuck, worldVars>>

\* The stream is opened and the proposal written, or the answer is an error.
onClientEventFundsEnsured(d) ==
  /\ cHandle(d, "FundsEnsured", <<>>)
  /\ cWaits' = cWaits \cup {<<d, "response">>}
  /\ \E s \in {"sent", "closed"} : stream' = [stream EXCEPT ![d] = s]
  /\ UNCHANGED <<waiting_deals, publish_message, stuck, setting, ask, pushes, publish_msg, handed, committed>>

ResponseError(d) ==
  /\ stream[d] \in {"closed", "accepted"}
  /\ Answer(d, "response", "Failed")
  /\ UNCHANGED <<cState, waiting_deals, publish_message, stuck, worldVars>>

ResponseRejected(d) ==
  /\ stream[d] = "rejected"
  /\ \E event \in {"DealRejected", "Failed"} : Answer(d, "response", event)
  /\ UNCHANGED <<cState, waiting_deals, publish_message, stuck, worldVars>>

\* Mutant: the deal waits for the timer too.
ResponseGraphsyncTwice(d) ==
  /\ ~stuck
  /\ stream[d] = "accepted"
  /\ setting.transfer[d] = "graphsync"
  /\ <<d, "response">> \in cWaits
  /\ pushes' = pushes \cup {d}
  /\ ask' = [ask EXCEPT ![d] = Asked]
  /\ cWaits' = (cWaits \ {<<d, "response">>}) \cup {<<d, "status">>}
  /\ waiting_deals' = Append(waiting_deals, d)
  /\ UNCHANGED <<cState, cQueue, cTick, publish_message, stuck, setting, stream, publish_msg, handed, committed>>

\* The data transfer is started, and the status is asked for (its signature may fail).
ResponseGraphsync(d) ==
  /\ ~stuck
  /\ stream[d] = "accepted"
  /\ setting.transfer[d] = "graphsync"
  /\ <<d, "response">> \in cWaits
  /\ pushes' = pushes \cup {d}
  /\ \/ /\ ask' = [ask EXCEPT ![d] = Asked]
        /\ cWaits' = (cWaits \ {<<d, "response">>}) \cup {<<d, "status">>}
        /\ UNCHANGED waiting_deals
     \/ /\ cWaits' = cWaits \ {<<d, "response">>}
        /\ waiting_deals' = Append(waiting_deals, d)
        /\ UNCHANGED ask
  /\ UNCHANGED <<cState, cQueue, cTick, publish_message, stuck, setting, stream, publish_msg, handed, committed>>

ResponseManual(d) ==
  /\ ~stuck
  /\ stream[d] = "accepted"
  /\ setting.transfer[d] = "manual"
  /\ <<d, "response">> \in cWaits
  /\ cWaits' = cWaits \ {<<d, "response">>}
  /\ waiting_deals' = Append(waiting_deals, d)
  /\ UNCHANGED <<cState, cQueue, cTick, publish_message, stuck, worldVars>>

(***************************************************************************)
(* pollWaiting asks with waiting_mutex held.  When a signature fails the   *)
(* callback runs at once, and locks the mutex again.                       *)
(***************************************************************************)
pollWaiting ==
  /\ ~stuck
  /\ waiting_deals # <<>>
  /\ \/ LET asked == {waiting_deals[i] : i \in 1..Len(waiting_deals)} IN
        /\ ask' = [d \in Deals |-> IF d \in asked THEN Asked ELSE ask[d]]
        /\ cWaits' = cWaits \cup {<<d, "status">> : d \in asked}
        /\ waiting_deals' = <<>>
        /\ UNCHANGED stuck
     \/ stuck' = TRUE /\ UNCHANGED <<ask, cWaits, waiting_deals>>
  /\ UNCHANGED <<cState, cQueue, cTick, publish_message, setting, stream, pushes, publish_msg, handed, committed>>

\* Mutant: a deal whose message is still being published is accepted.
PublishedStatusesEarly == {"PUBLISHING", "STAGED", "SEALING", "ACTIVE", "EXPIRED", "SLASHED"}

\* The statuses of a provider that has published the deal.
PublishedStatuses == {"STAGED", "SEALING", "ACTIVE", "EXPIRED", "SLASHED"}

StatusAccepted(d) ==
  /\ ask[d].state \in PublishedStatuses
  /\ Answer(d, "status", "DealAccepted")
  /\ publish_message' = [publish_message EXCEPT ![d] = ask[d].from]
  /\ ask' = [ask EXCEPT ![d] = NotAsked]
  /\ UNCHANGED <<cState, waiting_deals, stuck, setting, stream, pushes, publish_msg, handed, committed>>

StatusRejected(d) ==
  /\ ask[d].state \in {"FAILING", "ERROR"}
  /\ Answer(d, "status", "DealRejected")
  /\ ask' = [ask EXCEPT ![d] = NotAsked]
  /\ UNCHANGED <<cState, waiting_deals, publish_message, stuck, setting, stream, pushes, publish_msg, handed, committed>>

\* Any other status, and a request that failed, wait for the timer.
StatusWaits(d) ==
  /\ ~stuck
  /\ <<d, "status">> \in cWaits
  /\ ask[d].state \in (Statuses \ (PublishedStatuses \cup {"FAILING", "ERROR"})) \cup {"failed"}
  /\ cWaits' = cWaits \ {<<d, "status">>}
  /\ waiting_deals' = Append(waiting_deals, d)
  /\ ask' = [ask EXCEPT ![d] = NotAsked]
  /\ UNCHANGED <<cState, cQueue, cTick, publish_message, stuck, setting, stream, pushes, publish_msg, handed, committed>>

onClientEventDealRejected(d) ==
  /\ cHandle(d, "DealRejected", One(d, "Failed"))
  /\ UNCHANGED <<cWaits, waiting_deals, publish_message, stuck, worldVars>>

onClientEventDealAccepted(d) ==
  /\ cHandle(d, "DealAccepted", <<>>)
  /\ cWaits' = cWaits \cup {<<d, "publish">>}
  /\ UNCHANGED <<waiting_deals, publish_message, stuck, worldVars>>

\* verifyDealPublished: the message succeeded and holds the proposal, or the deal fails.
ClientPublishAnswer(d) ==
  /\ \/ Answer(d, "publish", "DealPublished") /\ publish_msg[publish_message[d]] = "ok"
     \/ Answer(d, "publish", "Failed")
  /\ UNCHANGED <<cState, waiting_deals, publish_message, stuck, worldVars>>

onClientEventDealPublished(d) ==
  /\ \/ CidOf[d] \in committed /\ UNCHANGED cWaits /\ cHandle(d, "DealPublished", One(d, "DealActivated"))
     \/ \E what \in {"commit", "forgotten"} : cWaits' = cWaits \cup {<<d, what>>} /\ cHandle(d, "DealPublished", <<>>)
  /\ UNCHANGED <<waiting_deals, publish_message, stuck, worldVars>>

ClientCommitAnswer(d) ==
  /\ \/ CidOf[d] \in committed /\ Answer(d, "commit", "DealActivated")
     \/ Answer(d, "commit", "Failed")
  /\ UNCHANGED <<cState, waiting_deals, publish_message, stuck, worldVars>>

\* onClientEventDealActivated and onClientEventFailed: final states.
onClientEventFinal(d) ==
  /\ \E event \in {"DealActivated", "Failed"} : cHandle(d, event, <<>>)
  /\ UNCHANGED <<cWaits, waiting_deals, publish_message, stuck, worldVars>>

clientTick ==
  \E d \in Deals :
    \/ onClientEventOpen(d)
    \/ onClientEventFundingInitiated(d)
    \/ onClientEventFundsEnsured(d)
    \/ onClientEventDealRejected(d)
    \/ onClientEventDealAccepted(d)
    \/ onClientEventDealPublished(d)
    \/ onClientEventFinal(d)

clientCallback ==
  \E d \in Deals :
    \/ ClientFundingAnswer(d)
    \/ ResponseError(d)
    \/ ResponseRejected(d)
    \/ ResponseGraphsync(d)
    \/ ResponseManual(d)
    \/ StatusAccepted(d)
    \/ StatusRejected(d)
    \/ StatusWaits(d)
    \/ ClientPublishAnswer(d)
    \/ ClientCommitAnswer(d)

clientStep ==
  \/ clientTick
  \/ clientCallback
  \/ pollWaiting
  \/ \E d \in Deals : proposeStorageDeal(d)
-----------------------------------------------------------------------------
\* Events, callbacks and places in the list are about deals.
ClientTypeOK ==
  /\ cState \in [Deals -> Statuses \cup {"none"}]
  /\ \A i \in 1..Len(cQueue) : cQueue[i][1] \in Deals /\ \E r \in ClientRules : r.event = cQueue[i][2]
  /\ cTick \in BOOLEAN
  /\ cWaits \subseteq Deals \X {"funding", "response", "status", "publish", "commit", "forgotten"}
  /\ \A i \in 1..Len(waiting_deals) : waiting_deals[i] \in Deals
  /\ publish_message \in [Deals -> Deals \cup {NoDeal}]
  /\ stuck \in BOOLEAN

-----------------------------------------------------------------------------
(***************************************************************************)
(* A client and a provider of the storage market, the network between them *)
(* and the chain.                                                          *)
(***************************************************************************)

vars == <<worldVars, pvars, cvars>>

Init == WorldInit /\ PInit /\ CInit

networkStep ==
  /\ setting.losses
  /\ \E d \in Deals : StreamBreaks(d) \/ AskIsLost(d) \/ PushIsLost(d)
  /\ UNCHANGED <<pvars, cvars>>

chainStep ==
  /\ \E d \in Deals : PublishIsExecuted(d) \/ SectorIsCommitted(d)
  /\ UNCHANGED <<pvars, cvars>>

Next ==
  \/ clientStep /\ UNCHANGED pvars
  \/ providerStep /\ UNCHANGED cvars
  \/ networkStep
  \/ chainStep

Spec == Init /\ [][Next]_vars

(***************************************************************************)
(* Posted ticks run, answers that arrived are read, the timer polls, the   *)
(* provider reads what was sent, and a status request repeated for ever is *)
(* answered at last.  Nothing is assumed of users, chain or data transfer. *)
(***************************************************************************)
Fairness ==
  /\ WF_vars(clientTick /\ UNCHANGED pvars)
  /\ WF_vars(clientCallback /\ UNCHANGED pvars)
  /\ WF_vars(pollWaiting /\ UNCHANGED pvars)
  /\ WF_vars(providerTick /\ UNCHANGED cvars)
  /\ \A d \in Deals : WF_vars(handleMKDealStream(d) /\ UNCHANGED cvars)
  /\ \A d \in Deals : SF_vars(handleDealStatus(d) /\ UNCHANGED cvars)
-----------------------------------------------------------------------------
TypeOK ==
  /\ ProviderTypeOK
  /\ ClientTypeOK
  /\ stream \in [Deals -> {"none", "sent", "open", "accepted", "rejected", "closed"}]
  /\ pushes \subseteq Deals
  /\ publish_msg \in [Deals -> {"none", "sent", "ok", "failed"}]
  /\ handed \subseteq Deals
  /\ committed \subseteq Cids

(***************************************************************************)
(* A piece goes into a sector only when its own deal is published and its  *)
(* data was verified; both happened many events earlier.                   *)
(***************************************************************************)
HandedIsPublished ==
  \A d \in handed : publish_msg[d] = "ok" /\ (pState[d] \in {"STAGED", "SEALING", "ACTIVE"} => d \in imported)

(***************************************************************************)
(* What the client learns from the provider's status is true of the chain: *)
(* from PROPOSAL_ACCEPTED on, its proposal is published, and in ACTIVE the *)
(* sector is committed.                                                    *)
(***************************************************************************)
ClientBelievesChain ==
  \A d \in Deals :
    /\ cState[d] \in {"PROPOSAL_ACCEPTED", "SEALING", "ACTIVE"} => Published(CidOf[d])
    /\ cState[d] = "ACTIVE" => CidOf[d] \in committed

\* What carries a deal of the client on.
Continuations(d) ==
  {<<"event", i>> : i \in {j \in 1..Len(cQueue) : cQueue[j][1] = d}}
    \cup {<<"callback", w>> : w \in {x \in cWaits : x[1] = d}}
    \cup {<<"listed", i>> : i \in {j \in 1..Len(waiting_deals) : waiting_deals[j] = d}}

(***************************************************************************)
(* Each deal of the client that is not finished has exactly one thing that *)
(* carries it on: an event, a callback, or its place in waiting_deals.     *)
(* None is lost, and a deal is never asked about twice at once.  The next  *)
(* event is going to be handled: it has a tick, and a rule (an event       *)
(* without a rule would be put back, a step the client's model has not).   *)
(***************************************************************************)
OneContinuation ==
  /\ \A d \in Deals :
       IF cState[d] \in {"none", "ACTIVE", "ERROR"} THEN Continuations(d) = {}
       ELSE \E c \in Continuations(d) : Continuations(d) = {c}
  /\ cTick = (cQueue # <<>>)
  /\ cTick => \E r \in ClientRules : r.event = Head(cQueue)[2] /\ r.from = cState[Head(cQueue)[1]]

(***************************************************************************)
(* The provider's machine has events and no tick, which stops all of its   *)
(* deals, only after data came for a deal that was not waiting for it: a   *)
(* second import, say, or data of a proposal that was received twice.      *)
(***************************************************************************)
ProviderStopsOnlyByExtraData == pQueue # <<>> /\ ~pTick => extra

(***************************************************************************)
(* Client, provider and chain agree on deals: all of the above, for every  *)
(* order of the handlers, callbacks and answers of the two nodes.          *)
(***************************************************************************)
DealsAgree ==
  /\ HandedIsPublished /\ ClientBelievesChain
  /\ OneContinuation /\ ProviderStopsOnlyByExtraData

(***************************************************************************)
(* provider.hpp on importDataForDeal: "Imports data to proceed deal with   *)
(* 'manual' transfer type".  A deal that has its data leaves the state in  *)
(* which it waits for it.                                                  *)
(***************************************************************************)
ImportProceeds ==
  \A d \in Deals :
    pState[d] = "WAITING_FOR_DATA" /\ d \in imported ~> pState[d] # "WAITING_FOR_DATA"
=============================================================================
