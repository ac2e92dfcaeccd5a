------------------------------ MODULE Sealing -------------------------------
(***************************************************************************)
(* The sealing state machine of a sector: its transition rules, the world  *)
(* it runs in, its steps, snap deals, and the machine itself.              *)
(***************************************************************************)
EXTENDS Integers, Sequences, Bags

(***************************************************************************)
(* The transition rules of the sealing state machine                       *)
(* (SealingImpl::makeFSMTransitions).  A rule has an event, its source     *)
(* states, a destination and an action: "apply" is CALLBACK_ACTION, which  *)
(* applies the event's context to the sector, the others are the lambdas   *)
(* written beside the rule.                                                *)
(***************************************************************************)

AnyState == {"any"}

Rule(event, from, to, action) == [event |-> event, from |-> from, to |-> to, action |-> action]

\* The main pipeline, from kStateUnknown to kProving.
PipelineRules == {
  Rule("kSectorStart", {"kStateUnknown"}, "kWaitDeals", "apply"),
  Rule("kSectorStartWithPieces", {"kStateUnknown"}, "kPacking", "apply"),
  Rule("kSectorAddPieces", {"kWaitDeals"}, "kWaitDeals", "apply"),
  Rule("kSectorStartPacking", {"kWaitDeals"}, "kPacking", "none"),
  Rule("kSectorPacked", {"kPacking"}, "kPreCommit1", "apply"),
  Rule("kSectorPreCommit1", {"kPreCommit1"}, "kPreCommit2", "apply"),
  Rule("kSectorSealPreCommit1Failed",
       {"kPreCommit1", "kPreCommitting", "kPreCommitFail", "kCommitFail", "kComputeProofFail",
        "kSubmitPreCommitBatch"}, "kSealPreCommit1Fail", "reset fails"),
  Rule("kSectorPreCommit2", {"kPreCommit2"}, "kPreCommitting", "apply"),
  Rule("kSectorSealPreCommit2Failed", {"kPreCommit2"}, "kSealPreCommit2Fail", "count precommit2"),
  Rule("kSectorBatchSend", {"kPreCommitting"}, "kSubmitPreCommitBatch", "none"),
  Rule("kSectorPreCommitted", {"kPreCommitting"}, "kPreCommittingWait", "apply"),
  Rule("kSectorPreCommittedBatch", {"kSubmitPreCommitBatch"}, "kPreCommittingWait", "apply"),
  Rule("kSectorChainPreCommitFailed",
       {"kPreCommitting", "kSubmitPreCommitBatch", "kPreCommittingWait", "kWaitSeed", "kCommitFail"},
       "kPreCommitFail", "none"),
  Rule("kSectorPreCommitLanded",
       {"kPreCommitting", "kSubmitPreCommitBatch", "kPreCommittingWait", "kPreCommitFail"},
       "kWaitSeed", "apply"),
  Rule("kSectorSeedReady", {"kWaitSeed", "kComputeProof"}, "kComputeProof", "apply"),
  Rule("kSectorComputeProof", {"kComputeProof"}, "kCommitting", "apply"),
  Rule("kSectorCommitted", {"kCommitting"}, "kCommitWait", "apply"),
  Rule("kSectorComputeProofFailed", {"kComputeProof"}, "kComputeProofFail", "none"),
  Rule("kSectorCommitFailed", {"kCommitting", "kCommitWait", "kComputeProof"}, "kCommitFail", "none"),
  Rule("kSectorRetryCommitWait", {"kCommitting", "kCommitFail"}, "kCommitWait", "none"),
  Rule("kSectorProving", {"kCommitWait"}, "kFinalizeSector", "none"),
  Rule("kSectorFinalized", {"kFinalizeSector"}, "kProving", "none"),
  Rule("kSectorFinalizeFailed", {"kFinalizeSector"}, "kFinalizeFail", "none"),
  Rule("kSectorDealsExpired",
       {"kPreCommit1", "kPreCommitting", "kSubmitPreCommitBatch", "kPreCommitFail", "kCommitFail"},
       "kDealsExpired", "none")}

\* Retries, and the ends other than kProving.
RecoveryRules == {
  Rule("kSectorRetrySealPreCommit1",
       {"kSealPreCommit1Fail", "kSealPreCommit2Fail", "kPreCommitFail", "kComputeProofFail", "kCommitFail"},
       "kPreCommit1", "none"),
  Rule("kSectorRetrySealPreCommit2", {"kSealPreCommit2Fail"}, "kPreCommit2", "none"),
  Rule("kSectorRetryPreCommit", {"kPreCommitFail", "kCommitFail"}, "kPreCommitting", "none"),
  Rule("kSectorRetryWaitSeed", {"kPreCommitFail", "kCommitFail"}, "kWaitSeed", "none"),
  Rule("kSectorRetryComputeProof", {"kComputeProofFail", "kCommitFail"}, "kComputeProof", "count proofs"),
  Rule("kSectorRetryInvalidProof", {"kCommitFail"}, "kComputeProof", "count proofs"),
  Rule("kSectorRetryCommitting", {"kCommitFail", "kCommitWait"}, "kCommitting", "none"),
  Rule("kSectorRetryFinalize", {"kFinalizeFail"}, "kFinalizeSector", "none"),
  Rule("kSectorInvalidDealIDs",
       {"kPreCommit1", "kPreCommitting", "kSubmitPreCommitBatch", "kPreCommitFail", "kCommitFail"},
       "kRecoverDealIDs", "apply"),
  Rule("kSectorFaultReported", {"kProving", "kFaulty"}, "kFaultReported", "apply"),
  Rule("kSectorFaulty", {"kProving"}, "kFaulty", "none"),
  Rule("kSectorRemove", {"kProving", "kDealsExpired", "kRecoverDealIDs"}, "kRemoving", "none"),
  Rule("kSectorRemoved", {"kRemoving"}, "kRemoved", "none"),
  Rule("kSectorRemoveFailed", {"kRemoving"}, "kRemoveFail", "none"),
  Rule("kSectorForce", AnyState, "kForce", "none"),
  Rule("kUpdateDealIds", {"kRecoverDealIDs"}, "kForce", "none")}

\* Snap deals: a committed-capacity sector is given deals.
SnapRules == {
  Rule("kSectorStartCCUpdate", {"kProving"}, "kSnapDealsWaitDeals", "apply"),
  Rule("kSectorAddPieces", {"kSnapDealsWaitDeals"}, "kSnapDealsWaitDeals", "apply"),
  Rule("kSectorStartPacking", {"kSnapDealsWaitDeals"}, "kSnapDealsPacking", "none"),
  Rule("kSectorAddPieceFailed", {"kSnapDealsAddPiece"}, "kSnapDealsAddPieceFailed", "none"),
  Rule("kSectorPacked", {"kSnapDealsPacking"}, "kUpdateReplica", "none"),
  Rule("kSectorReplicaUpdate", {"kUpdateReplica"}, "kProveReplicaUpdate", "apply"),
  Rule("kSectorUpdateReplicaFailed", {"kUpdateReplica"}, "kReplicaUpdateFailed", "none"),
  Rule("kSectorDealsExpired", {"kUpdateReplica", "kProveReplicaUpdate", "kReplicaUpdateFailed"},
       "kSnapDealsDealsExpired", "none"),
  Rule("kSectorInvalidDealIDs", {"kUpdateReplica", "kProveReplicaUpdate", "kReplicaUpdateFailed"},
       "kSnapDealsRecoverDealIDs", "none"),
  Rule("kSectorProveReplicaUpdate", {"kProveReplicaUpdate"}, "kSubmitReplicaUpdate", "apply"),
  Rule("kSectorProveReplicaUpdateFailed", {"kProveReplicaUpdate"}, "kReplicaUpdateFailed", "none"),
  Rule("kSectorAbortUpgrade",
       {"kProveReplicaUpdate", "kReplicaUpdateWait", "kSnapDealsDealsExpired", "kSnapDealsRecoverDealIDs"},
       "kAbortUpgrade", "none"),
  Rule("kSectorReplicaUpdateSubmitted", {"kSubmitReplicaUpdate"}, "kReplicaUpdateWait", "apply"),
  Rule("kSectorSubmitReplicaUpdateFailed", {"kSubmitReplicaUpdate", "kReplicaUpdateWait"},
       "kReplicaUpdateFailed", "none"),
  Rule("kSectorReplicaUpdateLanded", {"kReplicaUpdateWait"}, "kFinalizeReplicaUpdate", "none"),
  Rule("kSectorFinalized", {"kFinalizeReplicaUpdate"}, "kUpdateActivating", "none"),
  Rule("kSectorFinalizeFailed", {"kFinalizeReplicaUpdate"}, "kFinalizeReplicaUpdateFailed", "none"),
  Rule("kSectorUpdateActive", {"kUpdateActivating", "kReleaseSectorKeyFailed"}, "kReleaseSectorKey", "none"),
  Rule("kSectorReleaseKeyFailed", {"kReleaseSectorKey"}, "kReleaseSectorKeyFailed", "none"),
  Rule("kSectorKeyReleased", {"kReleaseSectorKey"}, "kProving", "none"),
  Rule("kSectorRetryWaitDeals", {"kSnapDealsAddPieceFailed"}, "kSnapDealsWaitDeals", "none"),
  Rule("kSectorUpdateDealIDs", {"kSnapDealsRecoverDealIDs"}, "kSubmitReplicaUpdate", "none"),
  Rule("kSectorRetrySubmitReplicaUpdateWait", {"kReplicaUpdateFailed"}, "kReplicaUpdateWait", "none"),
  Rule("kSectorRetrySubmitReplicaUpdate", {"kReplicaUpdateFailed"}, "kSubmitReplicaUpdate", "none"),
  Rule("kSectorRetryReplicaUpdate", {"kReplicaUpdateFailed"}, "kUpdateReplica", "none"),
  Rule("kSectorRetryProveReplicaUpdate", {"kReplicaUpdateFailed"}, "kProveReplicaUpdate", "none"),
  Rule("kSectorRetryFinalize", {"kFinalizeReplicaUpdateFailed"}, "kFinalizeReplicaUpdate", "none"),
  Rule("kSectorRevertUpgradeToProving", {"kAbortUpgrade"}, "kProving", "none")}

makeFSMTransitions == PipelineRules \cup RecoveryRules \cup SnapRules

SealingStates == ({r.to : r \in makeFSMTransitions} \cup UNION {r.from : r \in makeFSMTransitions}) \ AnyState

SnapStates == {r.to : r \in SnapRules} \ {"kProving"}

\* The rules for an event in a state; the engine has checked that it is at most one.
RulesFor(event, from) == {r \in makeFSMTransitions : r.event = event /\ (r.from = AnyState \/ from \in r.from)}

-----------------------------------------------------------------------------
(***************************************************************************)
(* What the sealing pipeline of one sector works on: the sector's record,  *)
(* the events waiting for the state machine, the calls, timers and chain   *)
(* handlers whose callback is still to come, the record on disk, and the   *)
(* part of the chain the checks look at.                                   *)
(*                                                                         *)
(* The engine (module Fsm) handles events one at a time in the order they  *)
(* were sent, and drops the ones no rule matches: the queue here is that   *)
(* engine's, restricted to the events of one sector.                       *)
(*                                                                         *)
(* A ticket is named by the period of the chain it was drawn in; a ticket  *)
(* of an earlier period is too old to precommit with.  A replica (comm_r,  *)
(* comm_d) is named by the ticket it was sealed with.  Everything that can *)
(* go wrong outside (a failed call, a restart, a reorganisation...) costs  *)
(* one of the faults of the setting.                                       *)
(***************************************************************************)

CONSTANTS
  MaxMessages,  \* messages the sector may have pushed
  MaxWaiting,   \* events and callbacks waiting at the same time
  Settings      \* the situations looked at, see Setting

(***************************************************************************)
(* A situation: whether the sector is new or proven already, the miner's   *)
(* config.batch_pre_commits, what is asked of the sector, and how much     *)
(* goes wrong.                                                             *)
(***************************************************************************)
Setting == [
  proven: BOOLEAN,
  batch: BOOLEAN,
  operations: SUBSET {"pledge", "deals", "remove", "upgrade"},
  force: SUBSET SealingStates,  \* states given to forceSectorState
  faults: Nat]

ASSUME SealingAssumption ==
  /\ MaxMessages \in Nat /\ MaxWaiting \in Nat
  /\ Settings \subseteq Setting

VARIABLES
  state,    \* the state the machine has for the sector, "none" before begin
  info,     \* SectorInfo: the fields control depends on
  open,     \* the sector is in unsealed_sectors_
  queue,    \* events sent, with their contexts
  pending,  \* a bag of the callbacks still to come
  disk,     \* what fsmSave wrote, NoRecord before
  proc,     \* "up", or "dead" after an exception nobody catches
  chain,    \* the chain, as the api shows it
  msgs,     \* messages pushed for the sector, with their fate
  faults,   \* things gone wrong so far
  upgraded, \* markForSnapUpgrade was called
  lost,     \* history: events dropped and calls given up since the last transition
  removed,  \* remove() was called
  setting   \* the situation, which stays

vars == <<state, info, open, queue, pending, disk, proc, chain, msgs, faults, upgraded, lost, removed, setting>>

BatchPreCommits == setting.batch

MaxFaults == setting.faults

NoProof == [ticket |-> 0, seed |-> 0, good |-> FALSE]

EmptyInfo == [
  pieces |-> "none", return_state |-> "kStateUnknown",
  ticket |-> 0, comm |-> 0, precommit2_fails |-> 0, precommit_message |-> 0,
  seed |-> 0, proof |-> NoProof, message |-> 0, invalid_proofs |-> 0,
  update |-> FALSE, update_pieces |-> "none", update_sealed |-> FALSE,
  update_proof |-> "none", update_message |-> 0]

\* The fields that are not in the record's encoding.
Unsaved == {"update", "update_pieces", "update_sealed", "update_proof", "update_message"}

\* CBOR_TUPLE(SectorInfo, ...) followed by decode.
Saved(i) == [f \in DOMAIN i |-> IF f \in Unsaved THEN EmptyInfo[f] ELSE i[f]]

NoRecord == [state |-> "none", info |-> EmptyInfo]

InitialChain == [
  period |-> 1,        \* the present period, the tickets of which are fresh
  deals |-> "valid",   \* the sector's deals: "valid", "moved" (other ids after a reorg), "expired"
  precommit |-> 0,     \* the replica precommitted for the sector's number
  allocated |-> FALSE, \* the sector's number has been used
  seed |-> 1,          \* the interactive randomness for the precommit
  sector |-> FALSE,    \* the sector is proven
  active |-> TRUE,     \* a proven sector is active
  updated |-> FALSE]   \* the sector's replica update is applied

Fate(message) == msgs[message].fate

NextMessage == Len(msgs) + 1
-----------------------------------------------------------------------------
\* An event with the fields its context sets in the sector.
Event(event, set) == [event |-> event, set |-> set]

NoFields == [f \in {} |-> 0]

\* What a handler or a callback does: events sent, callbacks to wait for.
Nothing == [send |-> <<>>, start |-> {}, push |-> <<>>, cost |-> 0, dies |-> FALSE]

Sends(event) == [Nothing EXCEPT !.send = <<Event(event, NoFields)>>]

SendsWith(event, set) == [Nothing EXCEPT !.send = <<Event(event, set)>>]

\* A callback to come: what was called, about which proof or message.
Call(call) == [call |-> call, arg |-> NoProof, message |-> 0, event |-> "none"]

CallWith(call, arg) == [Call(call) EXCEPT !.arg = arg]

WaitsFor(call, message) == [Call(call) EXCEPT !.message = message]

Starts(p) == [Nothing EXCEPT !.start = {p}]

\* scheduler_->schedule of an event, and the macro WAIT.
Wait(event) == Starts([Call("timer") EXCEPT !.event = event])

\* Mutant: the event names the message after it.
PushesNext(kind, proof, event, field) ==
  [SendsWith(event, [f \in {field} |-> NextMessage + 1]) EXCEPT
     !.push = <<[kind |-> kind, proof |-> proof, fate |-> "pending"]>>]

\* MpoolPushMessage answers: the message and the event with its cid.
Pushes(kind, proof, event, field) ==
  [SendsWith(event, [f \in {field} |-> NextMessage]) EXCEPT
     !.push = <<[kind |-> kind, proof |-> proof, fate |-> "pending"]>>]

Costs(r) == [r EXCEPT !.cost = 1]

\* OUTCOME_TRY returns: the error is logged and the sector is left alone.
ApiError == Costs(Nothing)

Dies == [Nothing EXCEPT !.dies = TRUE]
-----------------------------------------------------------------------------
(***************************************************************************)
(* checks.cpp.                                                             *)
(***************************************************************************)
\* Mutant: pieces without a deal are looked up too.
checkPiecesAnyPiece(i) ==
  CASE i.pieces = "none" -> "ok"
    [] i.pieces = "filler" -> "kExpiredDeal"
    [] OTHER -> [valid |-> "ok", moved |-> "kInvalidDeal", expired |-> "kExpiredDeal"][chain.deals]

checkPieces(i) ==
  IF i.pieces # "deals" THEN "ok"
  ELSE [valid |-> "ok", moved |-> "kInvalidDeal", expired |-> "kExpiredDeal"][chain.deals]

\* getStateSectorPreCommitInfo: found, absent, or the number is used up.
PreCommitInfo ==
  CASE chain.precommit # 0 -> "found"
    [] chain.precommit = 0 /\ chain.allocated -> "kSectorAllocated"
    [] OTHER -> "absent"

\* Mutant: the ticket of the precommit on chain is not compared.
checkPrecommitAnyTicket(i) ==
  CASE checkPieces(i) # "ok" -> checkPieces(i)
    [] i.comm = 0 -> "kBadCommD"
    [] PreCommitInfo = "kSectorAllocated" -> "kSectorAllocated"
    [] PreCommitInfo = "found" -> "kPrecommitOnChain"
    [] i.ticket < chain.period -> "kExpiredTicket"
    [] OTHER -> "ok"

checkPrecommit(i) ==
  CASE checkPieces(i) # "ok" -> checkPieces(i)
    [] i.comm = 0 -> "kBadCommD"
    [] PreCommitInfo = "kSectorAllocated" -> "kSectorAllocated"
    [] PreCommitInfo = "found" /\ chain.precommit # i.ticket -> "kBadTicketEpoch"
    [] PreCommitInfo = "found" -> "kPrecommitOnChain"
    [] i.ticket < chain.period -> "kExpiredTicket"
    [] OTHER -> "ok"

Verifies(i, proof) == proof.good /\ proof.ticket = i.comm /\ proof.seed = i.seed

\* Mutant: the proof engine is not asked.
checkCommitUnverified(i, proof) ==
  CASE i.seed = 0 -> "kBadSeed"
    [] PreCommitInfo = "kSectorAllocated" ->
         IF i.message # 0 THEN "kCommitWaitFail" ELSE "kSectorAllocated"
    [] PreCommitInfo = "absent" -> "kPrecommitNotFound"
    [] chain.seed # i.seed -> "kBadSeed"
    [] i.comm # chain.precommit -> "kBadSealedCid"
    [] OTHER -> "ok"

checkCommit(i, proof) ==
  CASE i.seed = 0 -> "kBadSeed"
    [] PreCommitInfo = "kSectorAllocated" ->
         IF i.message # 0 THEN "kCommitWaitFail" ELSE "kSectorAllocated"
    [] PreCommitInfo = "absent" -> "kPrecommitNotFound"
    [] chain.seed # i.seed -> "kBadSeed"
    [] i.comm # chain.precommit -> "kBadSealedCid"
    [] ~Verifies(i, proof) -> "kInvalidProof"
    [] OTHER -> "ok"

checkUpdate(i) ==
  CASE i.comm = 0 \/ ~i.update -> "error"
    [] checkPieces(i) # "ok" -> checkPieces(i)
    [] i.pieces # "deals" -> "error"
    [] ~i.update_sealed -> "kBadUpdateReplica"
    [] i.update_proof # "good" -> "kBadUpdateProof"
    [] OTHER -> "ok"
-----------------------------------------------------------------------------
(***************************************************************************)
(* The chain (external).                                                   *)
(***************************************************************************)
Local == <<state, info, open, queue, disk, proc, upgraded, lost, removed, setting>>

Fault == faults < MaxFaults /\ faults' = faults + 1

\* A period passes: tickets drawn before are too old.
ChainAges ==
  /\ Fault
  /\ chain' = [chain EXCEPT !.period = @ + 1]
  /\ UNCHANGED <<Local, pending, msgs>>

\* A heavier chain with a lower head: what was too old no longer is.
HeadDrops ==
  /\ chain.period > 1
  /\ chain' = [chain EXCEPT !.period = @ - 1]
  /\ UNCHANGED <<Local, pending, msgs, faults>>

\* A deal gets another id, or its start epoch passes.
DealsChange ==
  /\ Fault
  /\ info.pieces = "deals" /\ chain.deals = "valid"
  /\ \E d \in {"moved", "expired"} : chain' = [chain EXCEPT !.deals = d]
  /\ UNCHANGED <<Local, pending, msgs>>

\* The precommit is not proven in time and is cleaned up; its number stays used.
PreCommitExpires ==
  /\ Fault
  /\ chain.precommit # 0
  /\ chain' = [chain EXCEPT !.precommit = 0]
  /\ UNCHANGED <<Local, pending, msgs>>

SectorInactive ==
  /\ Fault
  /\ chain.sector /\ chain.active
  /\ chain' = [chain EXCEPT !.active = FALSE]
  /\ UNCHANGED <<Local, pending, msgs>>

Rearmed(p) == IF p.call = "called" THEN [p EXCEPT !.call = "chainAt"] ELSE p

(***************************************************************************)
(* A reorganisation puts the precommit into another epoch: the randomness  *)
(* changes, and chain handlers that were called are armed again (Events).  *)
(***************************************************************************)
Reorg ==
  /\ Fault
  /\ chain.precommit # 0
  /\ chain' = [chain EXCEPT !.seed = @ + 1]
  /\ pending' = [q \in {Rearmed(p) : p \in BagToSet(pending)} |->
       CopiesIn(q, pending) +
         (IF q.call = "chainAt" THEN CopiesIn([q EXCEPT !.call = "called"], pending) ELSE 0)]
  /\ UNCHANGED <<Local, msgs>>

\* What the actors do with a message that is executed.
Executed(m) ==
  CASE m.kind = "precommit" /\ ~chain.allocated /\ m.proof.ticket >= chain.period /\ chain.deals = "valid" ->
         {[fate |-> "ok", chain |-> [chain EXCEPT !.precommit = m.proof.ticket, !.allocated = TRUE]]}
    [] m.kind = "commit" /\ chain.precommit # 0 ->
         IF m.proof.good /\ m.proof.ticket = chain.precommit /\ m.proof.seed = chain.seed
         THEN {[fate |-> "ok", chain |-> [chain EXCEPT !.precommit = 0, !.sector = TRUE]]}
         ELSE {[fate |-> "ok", chain |-> chain]}
    [] m.kind = "update" /\ m.proof.good /\ chain.active /\ chain.deals = "valid" ->
         {[fate |-> "ok", chain |-> [chain EXCEPT !.updated = TRUE]]}
    [] m.kind = "update" /\ ~(m.proof.good /\ chain.active /\ chain.deals = "valid") ->
         {[fate |-> "ok", chain |-> chain], [fate |-> "fail", chain |-> chain]}
    [] OTHER -> {[fate |-> "fail", chain |-> chain]}

Execute ==
  \E k \in 1..Len(msgs) :
    /\ msgs[k].fate = "pending"
    /\ \/ \E x \in Executed(msgs[k]) :
            /\ msgs' = [msgs EXCEPT ![k].fate = x.fate]
            /\ chain' = x.chain
            /\ UNCHANGED faults
       \/ /\ Fault
          /\ msgs' = [msgs EXCEPT ![k].fate = "gas"]
          /\ UNCHANGED chain
    /\ UNCHANGED <<Local, pending>>

ChainNext == ChainAges \/ HeadDrops \/ DealsChange \/ PreCommitExpires \/ SectorInactive \/ Reorg \/ Execute

-----------------------------------------------------------------------------
(***************************************************************************)
(* The handlers of the sealing pipeline (SealingImpl::handle...), and the  *)
(* callbacks they leave behind.  Each operator is the set of the things    *)
(* the handler may do for a sector record i; the api calls a handler makes *)
(* before it returns are answered from the chain as it is then.            *)
(***************************************************************************)

InvalidDeals(back) == SendsWith("kSectorInvalidDealIDs", [return_state |-> back])

\* pledgeSector calls back at once when there is nothing to fill.
handlePacking(i) ==
  {ApiError} \cup (IF i.pieces # "filler" THEN {Starts(Call("addPiece"))} ELSE {})
             \cup (IF i.pieces # "none" THEN {Sends("kSectorPacked")} ELSE {})

addPieceDone == {Sends("kSectorPacked"), ApiError}

\* Mutant: a ticket the sector has is used again.
getTicketKept ==
  IF PreCommitInfo = "kSectorAllocated" THEN {}
  ELSE {IF info.ticket # 0 THEN info.ticket ELSE chain.period}

\* The ticket of the precommit on chain, a fresh one without it.
getTicket ==
  CASE PreCommitInfo = "found" -> {chain.precommit}
    [] PreCommitInfo = "absent" -> {chain.period}
    [] OTHER -> {}

handlePreCommit1(i) ==
  CASE checkPieces(i) = "kInvalidDeal" -> {InvalidDeals("kPreCommit1"), ApiError}
    [] checkPieces(i) = "kExpiredDeal" -> {Sends("kSectorDealsExpired"), ApiError}
    [] OTHER ->
         {ApiError, Costs(Sends("kSectorSealPreCommit1Failed"))}
           \cup {Starts(CallWith("sealPreCommit1", [NoProof EXCEPT !.ticket = t])) : t \in getTicket}
           \cup {Sends("kSectorSealPreCommit1Failed") : t \in IF getTicket = {} THEN {0} ELSE {}}

sealPreCommit1Done(p) ==
  {SendsWith("kSectorPreCommit1", [ticket |-> p.arg.ticket, precommit2_fails |-> 0]),
   Costs(Sends("kSectorSealPreCommit1Failed"))}

handlePreCommit2(i) == {Starts(CallWith("sealPreCommit2", [NoProof EXCEPT !.ticket = i.ticket]))}

sealPreCommit2Done(p) ==
  {SendsWith("kSectorPreCommit2", [comm |-> p.arg.ticket]), Costs(Sends("kSectorSealPreCommit2Failed"))}

\* `then' is what the caller does with the parameters.
getPreCommitParams(i, then) ==
  {Costs(Sends("kSectorChainPreCommitFailed"))} \cup
  CASE checkPrecommit(i) \in {"kBadCommD", "kExpiredTicket", "kBadTicketEpoch"} ->
         {Sends("kSectorSealPreCommit1Failed")}
    [] checkPrecommit(i) = "kInvalidDeal" -> {InvalidDeals("kPreCommitting")}
    [] checkPrecommit(i) = "kExpiredDeal" -> {Sends("kSectorDealsExpired")}
    [] checkPrecommit(i) = "kPrecommitOnChain" -> {Sends("kSectorPreCommitLanded")}
    [] checkPrecommit(i) = "kSectorAllocated" -> {Sends("kSectorChainPreCommitFailed")}
    [] OTHER -> then

\* An error of StateMinerInfo or of the address selector is thrown.
handlePreCommitting(i) ==
  IF BatchPreCommits THEN {Sends("kSectorBatchSend")}
  ELSE getPreCommitParams(i, {Starts(CallWith("pushPreCommit", [NoProof EXCEPT !.ticket = i.ticket])),
                              Costs(Dies)})

pushPreCommitDone(p) ==
  {Pushes("precommit", p.arg, "kSectorPreCommitted", "precommit_message"),
   Costs(Sends("kSectorChainPreCommitFailed"))}

handleSubmitPreCommitBatch(i) ==
  IF i.comm = 0 THEN {Sends("kSectorSealPreCommit1Failed")}
  ELSE getPreCommitParams(i, {Starts(CallWith("batch", [NoProof EXCEPT !.ticket = i.ticket])),
                              Costs(Sends("kSectorChainPreCommitFailed"))})

\* A batch that cannot be sent stays in the batcher, without its callback.
batchDone(p) ==
  {Pushes("precommit", p.arg, "kSectorPreCommittedBatch", "precommit_message"),
   Costs([Sends("kSectorChainPreCommitFailed") EXCEPT !.start = {CallWith("batchLeft", p.arg)}])}

batchLeftDone(p) == {[Nothing EXCEPT !.push = <<[kind |-> "precommit", proof |-> p.arg, fate |-> "pending"]>>]}

handlePreCommitWaiting(i) ==
  IF i.precommit_message = 0 THEN {Sends("kSectorChainPreCommitFailed")}
  ELSE {Starts(WaitsFor("waitPreCommit", i.precommit_message))}

waitPreCommitDone(p) ==
  {Costs(Sends("kSectorChainPreCommitFailed"))} \cup
  CASE Fate(p.message) = "pending" -> {}
    [] Fate(p.message) = "ok" -> {Sends("kSectorPreCommitLanded")}
    [] OTHER -> {Sends("kSectorChainPreCommitFailed")}

handleWaitSeed(i) ==
  {ApiError} \cup
  CASE PreCommitInfo = "found" -> {Starts(CallWith("chainAt", [NoProof EXCEPT !.seed = chain.seed]))}
    [] PreCommitInfo = "absent" -> {Sends("kSectorChainPreCommitFailed")}
    [] OTHER -> {Nothing}

\* The height handler stays registered, and is called again after a revert.
seedHeight(p) ==
  {[r EXCEPT !.start = {[p EXCEPT !.call = "called"]}] :
     r \in {SendsWith("kSectorSeedReady", [seed |-> p.arg.seed]),
            Costs(Sends("kSectorChainPreCommitFailed")), ApiError}}

handleComputeProof(i) ==
  LET sealCommit == IF i.comm = 0 THEN Sends("kSectorCommitFailed")
                    ELSE Starts(CallWith("sealCommit", [ticket |-> i.comm, seed |-> i.seed, good |-> TRUE]))
  IN IF i.message # 0 /\ Fate(i.message) # "pending" THEN {Sends("kSectorRetryCommitWait"), ApiError}
     ELSE IF i.message # 0 THEN {sealCommit, ApiError}
     ELSE {sealCommit}

\* sealCommit1, then sealCommit2, then checkCommit on the sector as it is now.
sealCommitDone(p) ==
  {Costs(Sends("kSectorComputeProofFailed"))} \cup
  {IF checkCommit(info, [p.arg EXCEPT !.good = good]) # "ok"
   THEN [Sends("kSectorComputeProofFailed") EXCEPT !.cost = IF good THEN 0 ELSE 1]
   ELSE SendsWith("kSectorComputeProof", [proof |-> [p.arg EXCEPT !.good = good]]) : good \in BOOLEAN}

handleCommitting(i) ==
  {ApiError,
   IF checkCommit(i, i.proof) # "ok" THEN Sends("kSectorCommitFailed")
   ELSE Starts(CallWith("pushCommit", i.proof))}

pushCommitDone(p) ==
  {Pushes("commit", p.arg, "kSectorCommitted", "message"), Costs(Sends("kSectorCommitFailed"))}

handleCommitWait(i) ==
  IF i.message = 0 THEN {Sends("kSectorCommitFailed")}
  ELSE {Starts(WaitsFor("waitCommit", i.message))}

\* Mutant: the sector set is not looked at.
waitCommitDoneTrusting(p) ==
  {Costs(Sends("kSectorCommitFailed"))} \cup
  CASE Fate(p.message) = "pending" -> {}
    [] Fate(p.message) = "ok" -> {Sends("kSectorProving")}
    [] Fate(p.message) = "gas" -> {Sends("kSectorRetryCommitting")}
    [] OTHER -> {Sends("kSectorCommitFailed")}

waitCommitDone(p) ==
  {Costs(Sends("kSectorCommitFailed"))} \cup
  CASE Fate(p.message) = "pending" -> {}
    [] Fate(p.message) = "ok" /\ chain.sector -> {Sends("kSectorProving")}
    [] Fate(p.message) = "gas" -> {Sends("kSectorRetryCommitting")}
    [] OTHER -> {Sends("kSectorCommitFailed")}

handleFinalizeSector(i) == {Starts(Call("finalize"))}

finalizeDone == {Sends("kSectorFinalized"), Costs(Sends("kSectorFinalizeFailed"))}

handleProvingSector(i) == {Nothing}
-----------------------------------------------------------------------------
handleSealPreCommit1Fail(i) == {Wait("kSectorRetrySealPreCommit1")}

handleSealPreCommit2Fail(i) ==
  {Wait(IF i.precommit2_fails > 1 THEN "kSectorRetrySealPreCommit1" ELSE "kSectorRetrySealPreCommit2")}

\* A precommit without our message is given up (the test of comm_r is the wrong way round).
handlePreCommitFail(i) ==
  {ApiError} \cup
  CASE checkPrecommit(i) \in {"kBadCommD", "kExpiredTicket", "kBadTicketEpoch"} ->
         {Sends("kSectorSealPreCommit1Failed")}
    [] checkPrecommit(i) = "kInvalidDeal" -> {InvalidDeals("kPreCommitFail")}
    [] checkPrecommit(i) = "kExpiredDeal" -> {Sends("kSectorDealsExpired")}
    [] checkPrecommit(i) = "kSectorAllocated" -> {Nothing}
    [] checkPrecommit(i) = "kPrecommitOnChain" ->
         {Costs(Wait("kSectorRetryPreCommit")),
          IF i.precommit_message # 0 THEN Sends("kSectorPreCommitLanded") ELSE Nothing}
    [] OTHER -> {Wait("kSectorRetryPreCommit")}

handleComputeProofFail(i) ==
  {Wait(IF i.invalid_proofs > 1 THEN "kSectorSealPreCommit1Failed" ELSE "kSectorRetryComputeProof")}

\* The end of handleCommitFail: checkCommit, after the events already sent.
RetryCommit(i, sent) ==
  LET check == checkCommit(i, i.proof)
      next == CASE check = "kBadSeed" -> Sends("kSectorRetryWaitSeed")
                [] check = "kInvalidProof" ->
                     Wait(IF i.invalid_proofs > 0 THEN "kSectorSealPreCommit1Failed" ELSE "kSectorRetryInvalidProof")
                [] check = "kPrecommitNotFound" -> Sends("kSectorRetryPreCommit")
                [] check = "kCommitWaitFail" -> Wait("kSectorRetryCommitWait")
                [] check = "ok" -> Wait("kSectorRetryComputeProof")
                [] OTHER -> Nothing
  IN {[next EXCEPT !.send = sent \o @]}

\* A message that StateSearchMsg does not find is thrown (value() of an empty optional).
handleCommitFail(i) ==
  {ApiError} \cup
  CASE checkPrecommit(i) \in {"kBadCommD", "kExpiredTicket", "kBadTicketEpoch"} ->
         {Sends("kSectorSealPreCommit1Failed")}
    [] checkPrecommit(i) = "kInvalidDeal" -> {InvalidDeals("kCommitFail")}
    [] checkPrecommit(i) = "kExpiredDeal" -> {Sends("kSectorDealsExpired")}
    [] OTHER ->
         IF i.message = 0 THEN RetryCommit(i, <<>>)
         ELSE {Costs(Wait("kSectorRetryCommitWait"))} \cup
              CASE Fate(i.message) = "pending" -> {Dies}
                [] Fate(i.message) = "ok" -> RetryCommit(i, Sends("kSectorRetryCommitWait").send)
                [] Fate(i.message) = "gas" -> RetryCommit(i, Sends("kSectorRetryCommitting").send)
                [] OTHER -> RetryCommit(i, <<>>)

handleFinalizeFail(i) == {Wait("kSectorRetryFinalize")}

handleDealsExpired(i) == {Sends("kSectorRemove")}

handleRecoverDealWithFail(i, fail_event) ==
  {ApiError} \cup
  CASE i.pieces = "deals" /\ chain.deals = "expired" -> {Nothing}
    [] i.pieces = "deals" /\ chain.deals = "moved" -> {Sends("kUpdateDealIds"), Costs(Sends(fail_event))}
    [] OTHER -> {Sends("kUpdateDealIds")}

handleRecoverDeal(i) == handleRecoverDealWithFail(i, "kSectorRemove")

handleRemoving(i) == {Sends("kSectorRemoved"), Costs(Sends("kSectorRemoveFailed"))}

-----------------------------------------------------------------------------
(***************************************************************************)
(* The handlers that put deals into a sector that is proven already        *)
(* (SealingImpl::handleReplicaUpdate and what follows), with the callbacks *)
(* they leave behind.                                                      *)
(***************************************************************************)

handleReplicaUpdate(i) ==
  CASE checkPieces(i) = "kInvalidDeal" -> {InvalidDeals("kUpdateReplica"), Costs(Starts(Call("replicaUpdate")))}
    [] checkPieces(i) = "kExpiredDeal" -> {Sends("kSectorDealsExpired"), Costs(Starts(Call("replicaUpdate")))}
    [] OTHER -> {Starts(Call("replicaUpdate"))}

replicaUpdateDone ==
  {SendsWith("kSectorReplicaUpdate", [update_sealed |-> TRUE]), Costs(Sends("kSectorUpdateReplicaFailed"))}

handleProveReplicaUpdate(i) ==
  IF ~i.update_sealed \/ i.comm = 0 THEN {Nothing}
  ELSE {ApiError, IF chain.active THEN Starts(Call("proveUpdate1")) ELSE Sends("kSectorAbortUpgrade")}

proveUpdate1Done ==
  {Costs(Sends("kSectorProveReplicaUpdateFailed")), ApiError,
   CASE checkPieces(info) = "kInvalidDeal" -> InvalidDeals("kProveReplicaUpdate")
     [] checkPieces(info) = "kExpiredDeal" -> Sends("kSectorDealsExpired")
     [] OTHER -> Starts(Call("proveUpdate2"))}

proveUpdate2Done ==
  {SendsWith("kSectorProveReplicaUpdate", [update_proof |-> "good"]),
   Costs(SendsWith("kSectorProveReplicaUpdate", [update_proof |-> "bad"])),
   Costs(Sends("kSectorProveReplicaUpdateFailed"))}

\* Without a good address the event is one that has no rule here.
handleSubmitReplicaUpdate(i) ==
  {ApiError} \cup
  IF checkUpdate(i) # "ok" THEN {Sends("kSectorSubmitReplicaUpdateFailed")}
  ELSE {Starts(CallWith("pushUpdate", [NoProof EXCEPT !.good = (i.update_proof = "good")])),
        Costs(Sends("kSectorCommitFailed"))}

pushUpdateDone(p) ==
  {Pushes("update", p.arg, "kSectorReplicaUpdateSubmitted", "update_message"),
   Costs(Sends("kSectorSubmitReplicaUpdateFailed"))}

\* Mutant: the message is used unchecked.
handleReplicaUpdateWaitUnchecked(i) ==
  IF i.update_message = 0 THEN {Dies} ELSE {Starts(WaitsFor("waitUpdate", i.update_message))}

handleReplicaUpdateWait(i) ==
  IF i.update_message = 0 THEN {Sends("kSectorSubmitReplicaUpdateFailed")}
  ELSE {Starts(WaitsFor("waitUpdate", i.update_message))}

\* The sealed cid on chain is compared the wrong way round.
waitUpdateDone(p) ==
  {Costs(Sends("kSectorSubmitReplicaUpdateFailed"))} \cup
  CASE Fate(p.message) = "pending" -> {}
    [] Fate(p.message) = "ok" ->
         {IF chain.updated THEN Sends("kSectorAbortUpgrade") ELSE Sends("kSectorReplicaUpdateLanded")}
    [] OTHER -> {Sends("kSectorSubmitReplicaUpdateFailed")}

handleFinalizeReplicaUpdate(i) == {Starts(Call("finalize"))}

\* The message's cid is read even when there is none (undefined).
handleUpdateActivating(i) ==
  IF i.update_message = 0 THEN {Dies, Nothing}
  ELSE {Starts(WaitsFor("waitActivating", i.update_message))}

waitActivatingDone(p) ==
  {Costs(Starts([p EXCEPT !.call = "retryActivating"]))} \cup
  IF Fate(p.message) = "pending" THEN {} ELSE {Starts(Call("activeHeight"))}

retryActivating(p) == {Starts([p EXCEPT !.call = "waitActivating"])}

activeHeight == {Sends("kSectorUpdateActive")}

handleReleaseSectorKey(i) == {Sends("kSectorKeyReleased"), Costs(Sends("kSectorReleaseKeyFailed"))}

\* The lambda cb of handleReplicaUpdateFailed.
ReplicaUpdateFailedCheck(i) ==
  {ApiError,
   CASE checkUpdate(i) = "kBadUpdateReplica" -> Sends("kSectorRetryReplicaUpdate")
     [] checkUpdate(i) = "kBadUpdateProof" -> Sends("kSectorRetryProveReplicaUpdate")
     [] checkUpdate(i) = "kInvalidDeal" -> Sends("kSectorInvalidDealIDs")
     [] checkUpdate(i) = "kExpiredDeal" -> Sends("kSectorDealsExpired")
     [] checkUpdate(i) = "error" -> Nothing
     [] OTHER -> IF chain.active THEN Wait("kSectorRetrySubmitReplicaUpdate") ELSE Sends("kSectorAbortUpgrade")}

handleReplicaUpdateFailed(i) ==
  IF i.update_message # 0 THEN {Starts(WaitsFor("searchUpdate", i.update_message))}
  ELSE ReplicaUpdateFailedCheck(i)

\* Mutant: a message that ran out of gas is forgotten.
searchUpdateDoneNoGas(p) ==
  {Costs(Wait("kSectorRetrySubmitReplicaUpdateWait"))} \cup
  CASE Fate(p.message) \in {"pending", "ok"} -> {Sends("kSectorRetrySubmitReplicaUpdateWait")}
    [] Fate(p.message) = "gas" -> {Nothing}
    [] OTHER -> ReplicaUpdateFailedCheck(info)

searchUpdateDone(p) ==
  {Costs(Wait("kSectorRetrySubmitReplicaUpdateWait"))} \cup
  CASE Fate(p.message) \in {"pending", "ok"} -> {Sends("kSectorRetrySubmitReplicaUpdateWait")}
    [] Fate(p.message) = "gas" -> {Sends("kSectorRetrySubmitReplicaUpdate")}
    [] OTHER -> ReplicaUpdateFailedCheck(info)

handleSnapDealsAddPieceFailed(i) == {Sends("kSectorRetryWaitDeals")}

handleSnapDealsDealsExpired(i) == IF i.update THEN {Sends("kSectorAbortUpgrade")} ELSE {Nothing}

handleSnapDealsRecoverDealIDs(i) == handleRecoverDealWithFail(i, "kSectorAbortUpgrade")

handleAbortUpgrade(i) == IF i.update THEN {Sends("kSectorRevertUpgradeToProving"), ApiError} ELSE {Nothing}

handleReleaseSectorKeyFailed(i) == {Wait("kSectorUpdateActive")}

-----------------------------------------------------------------------------
(***************************************************************************)
(* The sealing of one sector (SealingImpl): the state machine takes the    *)
(* events in the order they were sent, writes the sector's record, and     *)
(* runs the handler of the state it has reached; callbacks of the sealer,  *)
(* the api, the timers and the chain send further events, from whatever    *)
(* state the sector has reached by then.                                   *)
(***************************************************************************)

\* SealingImpl::callbackHandle: what is done on reaching a state.
callbackHandle(to, i) ==
  CASE to \in {"kPacking", "kSnapDealsPacking"} -> handlePacking(i)
    [] to = "kPreCommit1" -> handlePreCommit1(i)
    [] to = "kPreCommit2" -> handlePreCommit2(i)
    [] to = "kPreCommitting" -> handlePreCommitting(i)
    [] to = "kSubmitPreCommitBatch" -> handleSubmitPreCommitBatch(i)
    [] to = "kPreCommittingWait" -> handlePreCommitWaiting(i)
    [] to = "kWaitSeed" -> handleWaitSeed(i)
    [] to = "kComputeProof" -> handleComputeProof(i)
    [] to = "kCommitting" -> handleCommitting(i)
    [] to = "kCommitWait" -> handleCommitWait(i)
    [] to = "kFinalizeSector" -> handleFinalizeSector(i)
    [] to = "kProving" -> handleProvingSector(i)
    [] to = "kUpdateReplica" -> handleReplicaUpdate(i)
    [] to = "kProveReplicaUpdate" -> handleProveReplicaUpdate(i)
    [] to = "kSubmitReplicaUpdate" -> handleSubmitReplicaUpdate(i)
    [] to = "kReplicaUpdateWait" -> handleReplicaUpdateWait(i)
    [] to = "kFinalizeReplicaUpdate" -> handleFinalizeReplicaUpdate(i)
    [] to = "kUpdateActivating" -> handleUpdateActivating(i)
    [] to = "kReleaseSectorKey" -> handleReleaseSectorKey(i)
    [] to = "kSealPreCommit1Fail" -> handleSealPreCommit1Fail(i)
    [] to = "kSealPreCommit2Fail" -> handleSealPreCommit2Fail(i)
    [] to = "kPreCommitFail" -> handlePreCommitFail(i)
    [] to = "kComputeProofFail" -> handleComputeProofFail(i)
    [] to = "kCommitFail" -> handleCommitFail(i)
    [] to \in {"kFinalizeFail", "kFinalizeReplicaUpdateFailed"} -> handleFinalizeFail(i)
    [] to = "kDealsExpired" -> handleDealsExpired(i)
    [] to = "kRecoverDealIDs" -> handleRecoverDeal(i)
    [] to = "kRemoving" -> handleRemoving(i)
    [] to = "kSnapDealsAddPieceFailed" -> handleSnapDealsAddPieceFailed(i)
    [] to = "kReplicaUpdateFailed" -> handleReplicaUpdateFailed(i)
    [] to = "kSnapDealsDealsExpired" -> handleSnapDealsDealsExpired(i)
    [] to = "kSnapDealsRecoverDealIDs" -> handleSnapDealsRecoverDealIDs(i)
    [] to = "kAbortUpgrade" -> handleAbortUpgrade(i)
    [] to = "kReleaseSectorKeyFailed" -> handleReleaseSectorKeyFailed(i)
    [] to = "kForce" -> {Dies}  \* reached by fsmLoad: there is no context
    [] OTHER -> {Nothing}

\* What a callback does when it comes.
Returned(p) ==
  CASE p.call = "timer" -> {Sends(p.event)}
    [] p.call = "addPiece" -> addPieceDone
    [] p.call = "sealPreCommit1" -> sealPreCommit1Done(p)
    [] p.call = "sealPreCommit2" -> sealPreCommit2Done(p)
    [] p.call = "pushPreCommit" -> pushPreCommitDone(p)
    [] p.call = "batch" -> batchDone(p)
    [] p.call = "batchLeft" -> batchLeftDone(p)
    [] p.call = "waitPreCommit" -> waitPreCommitDone(p)
    [] p.call = "chainAt" -> seedHeight(p)
    [] p.call = "sealCommit" -> sealCommitDone(p)
    [] p.call = "pushCommit" -> pushCommitDone(p)
    [] p.call = "waitCommit" -> waitCommitDone(p)
    [] p.call = "finalize" -> finalizeDone
    [] p.call = "replicaUpdate" -> replicaUpdateDone
    [] p.call = "proveUpdate1" -> proveUpdate1Done
    [] p.call = "proveUpdate2" -> proveUpdate2Done
    [] p.call = "pushUpdate" -> pushUpdateDone(p)
    [] p.call = "waitUpdate" -> waitUpdateDone(p)
    [] p.call = "waitActivating" -> waitActivatingDone(p)
    [] p.call = "retryActivating" -> retryActivating(p)
    [] p.call = "activeHeight" -> activeHeight
    [] p.call = "searchUpdate" -> searchUpdateDone(p)
    [] OTHER -> {}
-----------------------------------------------------------------------------
\* The contexts' apply.
apply(e, i) ==
  LET set == [f \in DOMAIN i |-> IF f \in DOMAIN e.set THEN e.set[f] ELSE i[f]]
  IN CASE e.event = "kSectorAddPieces" -> [set EXCEPT !.pieces = "deals"]
       [] e.event = "kSectorStartWithPieces" -> [set EXCEPT !.pieces = "filler"]
       [] e.event = "kSectorPacked" /\ i.pieces = "none" -> [set EXCEPT !.pieces = "filler"]
       [] e.event = "kSectorStartCCUpdate" -> [set EXCEPT !.update = TRUE, !.update_pieces = i.pieces, !.pieces = "none"]
       [] OTHER -> set

\* The counters are compared with 0 and 1 only.
MaxCount == 2

Count(n) == IF n < MaxCount THEN n + 1 ELSE n

\* The action of a rule.
Acted(action, e, i) ==
  CASE action = "apply" -> apply(e, i)
    [] action = "reset fails" -> [i EXCEPT !.invalid_proofs = 0, !.precommit2_fails = 0]
    [] action = "count precommit2" -> [i EXCEPT !.invalid_proofs = 0, !.precommit2_fails = Count(@)]
    [] action = "count proofs" -> [i EXCEPT !.invalid_proofs = Count(@)]
    [] OTHER -> i

\* The batcher keeps one entry for a sector.
Started(calls, start) ==
  LET replaced == {p \in BagToSet(calls) : p.call \in {"batch", "batchLeft"} /\ \E s \in start : s.call = "batch"}
  IN SetToBag(start) (+) [p \in BagToSet(calls) \ replaced |-> calls[p]]

\* r is done: q and calls are the events and the callbacks left before.
Do(r, q, calls) ==
  /\ faults + r.cost <= MaxFaults
  /\ Len(msgs) + Len(r.push) <= MaxMessages
  /\ faults' = faults + r.cost
  /\ msgs' = msgs \o r.push
  /\ queue' = q \o r.send
  /\ pending' = Started(calls, {p \in r.start : p.call = "called" => faults' < MaxFaults})
  /\ Len(queue') + BagCardinality(pending') <= MaxWaiting
  /\ proc' = IF r.dies THEN "dead" ELSE "up"

\* Where and why r leaves nothing behind, for the history.
GivesUp(at, why, r) == IF r.send = <<>> /\ r.start = {} THEN {<<at, IF r.cost = 0 THEN why ELSE "error">>} ELSE {}

\* The record is written, then the handler runs.
Enter(to, i, q, calls) ==
  \E r \in callbackHandle(to, i) :
    /\ state' = to
    /\ info' = i
    /\ disk' = [state |-> to, info |-> Saved(i)]
    /\ lost' = GivesUp(to, "handler", r)
    /\ Do(r, q, calls)

\* Events that operations send: the sector goes on without them.
Asked == {"kSectorStartPacking", "kSectorRemove", "kSectorStartCCUpdate"}

\* FSM::tick, with SealingImpl::callbackHandle as the callback.
Tick ==
  /\ proc = "up"
  /\ queue # <<>>
  /\ LET e == Head(queue)
         rules == RulesFor(e.event, state)
     IN \/ /\ rules = {}
           /\ queue' = Tail(queue)
           /\ lost' = lost \cup ({<<state, e.event>>} \ {<<state, o>> : o \in Asked})
           /\ UNCHANGED <<state, info, pending, disk, proc, msgs, faults>>
        \/ \E rule \in rules :
             /\ rule.to # "kForce"
             /\ Enter(rule.to, Acted(rule.action, e, info), Tail(queue), pending)
        \/ \E rule \in rules :  \* the forced state is entered without its handler, and is not saved
             /\ rule.to = "kForce"
             /\ state' = IF "state" \in DOMAIN e.set THEN e.set.state ELSE "kStateUnknown"
             /\ disk' = [state |-> "kForce", info |-> Saved(info)]
             /\ queue' = Tail(queue)
             /\ lost' = {<<state', "forced">>}
             /\ UNCHANGED <<info, pending, proc, msgs, faults>>
  /\ UNCHANGED <<open, chain, upgraded, removed, setting>>

Callback ==
  /\ proc = "up"
  /\ \E p \in BagToSet(pending) : \E r \in Returned(p) :
       /\ Do(r, queue, pending (-) SetToBag({p}))
       /\ lost' = lost \cup (IF p.call = "batchLeft" THEN {} ELSE GivesUp(state, p.call, [r EXCEPT
                    !.start = {s \in @ : s.call # "called"}]))
  /\ UNCHANGED <<state, info, open, disk, chain, upgraded, removed, setting>>
-----------------------------------------------------------------------------
Sent(event) == queue' = Append(queue, event)

PackTimer == Call("packTimer")

\* A sector is begun and its first event sent, unless the seal proof type is not known.
Begins(event, deals) ==
  /\ proc = "up" /\ state = "none"
  /\ state' = "kStateUnknown"
  /\ \/ /\ queue' = <<Event(event, NoFields)>>
        /\ pending' = IF deals THEN SetToBag({PackTimer}) ELSE EmptyBag
        /\ open' = deals
        /\ UNCHANGED <<faults, lost>>
     \/ /\ Fault
        /\ lost' = {<<"kStateUnknown", "error">>}
        /\ UNCHANGED <<queue, pending, open>>
  /\ UNCHANGED <<info, disk, proc, chain, msgs, upgraded, removed, setting>>

newSectorWithPieces == "pledge" \in setting.operations /\ Begins("kSectorStartWithPieces", FALSE)

newDealSector == "deals" \in setting.operations /\ Begins("kSectorStart", TRUE)

\* SealingImpl::startPacking: the event is sent, then the sector is closed.
startPacking(q) == queue' = Append(q, Event("kSectorStartPacking", NoFields)) /\ open' = FALSE

\* addPieceToAnySector has chosen this sector; a deal may fill it.
addPieceToAnySector ==
  /\ proc = "up" /\ open
  /\ LET piece == Event("kSectorAddPieces", NoFields)
     IN \/ startPacking(Append(queue, piece))
        \/ /\ info.pieces # "deals" /\ \A k \in 1..Len(queue) : queue[k] # piece
           /\ Sent(piece)
           /\ UNCHANGED open
  /\ UNCHANGED <<state, info, pending, disk, proc, chain, msgs, faults, upgraded, lost, removed, setting>>

\* The timer of newDealSector and newSealing.
waitDealsDelay ==
  /\ proc = "up"
  /\ PackTimer \in BagToSet(pending)
  /\ pending' = pending (-) SetToBag({PackTimer})
  /\ startPacking(queue)
  /\ UNCHANGED <<state, info, disk, proc, chain, msgs, faults, upgraded, lost, removed, setting>>

markForSnapUpgrade ==
  /\ "upgrade" \in setting.operations /\ ~upgraded
  /\ proc = "up"
  /\ state = "kProving" /\ info.pieces = "filler"
  /\ chain.sector /\ chain.active
  /\ upgraded' = TRUE
  /\ open' = TRUE
  /\ Sent(Event("kSectorStartCCUpdate", NoFields))
  /\ UNCHANGED <<state, info, pending, disk, proc, chain, msgs, faults, lost, removed, setting>>

remove ==
  /\ "remove" \in setting.operations /\ ~removed
  /\ proc = "up" /\ state # "none"
  /\ removed' = TRUE
  /\ Sent(Event("kSectorRemove", NoFields))
  /\ UNCHANGED <<state, info, open, pending, disk, proc, chain, msgs, faults, upgraded, lost, setting>>

forceSectorState ==
  /\ proc = "up" /\ state # "none"
  /\ Fault
  /\ \E s \in setting.force : Sent(Event("kSectorForce", [state |-> s]))
  /\ UNCHANGED <<state, info, open, pending, disk, proc, chain, msgs, upgraded, lost, removed, setting>>

(***************************************************************************)
(* The process stops, or has died, and newSealing loads the record: the    *)
(* handler of its state runs again, and a sector that waits for deals has  *)
(* its timer set.                                                          *)
(***************************************************************************)
Restart ==
  /\ open' = FALSE
  /\ LET cost == IF proc = "up" THEN 1 ELSE 0
     IN IF disk = NoRecord
        THEN /\ faults + cost <= MaxFaults
             /\ faults' = faults + cost
             /\ state' = "none" /\ info' = EmptyInfo
             /\ queue' = <<>> /\ pending' = EmptyBag
             /\ proc' = "up" /\ lost' = {}
             /\ UNCHANGED msgs
        ELSE \E r \in callbackHandle(disk.state, disk.info) :
             /\ state' = disk.state /\ info' = disk.info
             /\ lost' = GivesUp(disk.state, "handler", r)
             /\ Do([r EXCEPT !.cost = @ + cost], <<>>,
                   IF disk.state = "kWaitDeals" THEN SetToBag({PackTimer}) ELSE EmptyBag)
  /\ UNCHANGED <<disk, chain, upgraded, removed, setting>>
-----------------------------------------------------------------------------
InitNew ==
  /\ state = "none" /\ info = EmptyInfo
  /\ disk = NoRecord
  /\ chain = InitialChain /\ msgs = <<>>

\* A pledged sector that is proven: what InitNew reaches when nothing goes wrong.
InitProven ==
  LET proven == [EmptyInfo EXCEPT
        !.pieces = "filler", !.ticket = 1, !.comm = 1, !.precommit_message = 1, !.seed = 1,
        !.proof = [ticket |-> 1, seed |-> 1, good |-> TRUE], !.message = 2]
  IN /\ state = "kProving" /\ info = proven
     /\ disk = [state |-> "kProving", info |-> proven]
     /\ chain = [InitialChain EXCEPT !.allocated = TRUE, !.sector = TRUE]
     /\ msgs = <<[kind |-> "precommit", proof |-> [NoProof EXCEPT !.ticket = 1], fate |-> "ok"],
                 [kind |-> "commit", proof |-> proven.proof, fate |-> "ok"]>>

Init ==
  /\ setting \in Settings
  /\ IF setting.proven THEN InitProven ELSE InitNew
  /\ open = FALSE /\ queue = <<>> /\ pending = EmptyBag /\ proc = "up"
  /\ faults = 0 /\ upgraded = FALSE /\ lost = {} /\ removed = FALSE

Operation == newSectorWithPieces \/ newDealSector \/ addPieceToAnySector \/ markForSnapUpgrade \/ remove \/ forceSectorState

Next == Tick \/ Callback \/ waitDealsDelay \/ Operation \/ Restart \/ ChainNext

Spec == Init /\ [][Next]_vars

\* The engine's thread runs, callbacks come, timers fire, the chain executes messages.
FairSpec == Spec /\ WF_vars(Tick) /\ WF_vars(Callback) /\ WF_vars(waitDealsDelay) /\ WF_vars(Execute)
-----------------------------------------------------------------------------
Live == {p \in BagToSet(pending) : p.call \notin {"called", "batchLeft"}}

Idle == proc = "up" /\ queue = <<>> /\ Live = {}

Resting == state \in {"none", "kProving", "kRemoved", "kRemoveFail"} \/ (state = "kSnapDealsWaitDeals" /\ open)

\* The sector's number is used and there is no precommit: a proven sector, or an expired precommit.
UsedUp == chain.allocated /\ chain.precommit = 0

\* Left by its handler, which neither sent an event nor waits for anything.
LeftBy(states) == state \in states /\ <<state, "handler">> \in lost

Dropped(event) == <<state, event>> \in lost

\* The places where the code leaves a sector behind.
GivenUp ==
  \/ \E s \in SealingStates : <<s, "error">> \in lost
  \/ UsedUp /\ LeftBy({"kWaitSeed", "kPreCommitFail", "kCommitFail"})
  \/ info.precommit_message = 0 /\ LeftBy({"kPreCommitFail"})
  \/ state = "kComputeProof" /\ Dropped("kSectorRetryCommitWait")
  \/ <<state, "forced">> \in lost

\* The same for an upgrade: what a restart forgets, and events that have no rule.
UpgradeGivenUp ==
  \/ ~info.update /\ state \in SnapStates /\ LeftBy(SnapStates)
  \/ state = "kReplicaUpdateFailed" /\ Dropped("kSectorAbortUpgrade")
  \/ state = "kSubmitReplicaUpdate" /\ Dropped("kSectorCommitFailed")
  \/ state = "kSnapDealsRecoverDealIDs" /\ Dropped("kUpdateDealIds")

(***************************************************************************)
(* TypeOK: the record, the queue and the callbacks stay what the pipeline  *)
(* expects; a message a sector names was pushed for it.                    *)
(***************************************************************************)
TypeOK ==
  /\ state \in SealingStates \cup {"none"}
  /\ DOMAIN info = DOMAIN EmptyInfo
  /\ {info.precommit_message, info.message, info.update_message} \subseteq 0..Len(msgs)
  /\ info.precommit2_fails \in 0..MaxCount /\ info.invalid_proofs \in 0..MaxCount
  /\ open \in BOOLEAN /\ removed \in BOOLEAN
  /\ IsABag(pending)
  /\ disk.state \in SealingStates \cup {"none"} /\ disk.info = Saved(disk.info)
  /\ proc \in {"up", "dead"}
  /\ faults \in 0..MaxFaults /\ upgraded \in BOOLEAN

(***************************************************************************)
(* NotAbandoned: a sector that has not reached an end has an event on its  *)
(* way or waits for a callback, whatever failed and in whatever order the  *)
(* answers came; the exceptions are the ones GivenUp and UpgradeGivenUp    *)
(* list.                                                                   *)
(***************************************************************************)
NotAbandoned == Idle /\ ~Resting => GivenUp \/ UpgradeGivenUp

(***************************************************************************)
(* ReplicaIsPrecommitted: from handleWaitSeed on, the replica the sector   *)
(* has is the one that is precommitted on chain, after any number of       *)
(* sealings with other tickets and of precommit messages.                  *)
(***************************************************************************)
ReplicaIsPrecommitted ==
  state \in {"kWaitSeed", "kComputeProof", "kCommitting", "kCommitWait"} /\ chain.precommit # 0 =>
    info.comm = chain.precommit

(***************************************************************************)
(* ProofsVerified: a commit message carries a proof the proof engine has   *)
(* accepted, of a replica that was precommitted (sealCommitDone and        *)
(* handleCommitting check it), and a replica update a proof of the sector  *)
(* with its deals (checkUpdate).                                           *)
(***************************************************************************)
ProofsVerified ==
  \A k \in 1..Len(msgs) :
    /\ msgs[k].kind \in {"commit", "update"} => msgs[k].proof.good
    /\ msgs[k].kind = "commit" =>
         \E j \in 1..Len(msgs) : msgs[j].kind = "precommit" /\ msgs[j].proof.ticket = msgs[k].proof.ticket

(***************************************************************************)
(* ProvenOnChain: a sector is finalised, and counted as proving, only when *)
(* the chain has it (handleCommitWait looks it up).                        *)
(***************************************************************************)
ProvenOnChain == state \in {"kFinalizeSector", "kFinalizeFail", "kProving"} \cup SnapStates => chain.sector

(***************************************************************************)
(* What counts as sealed is: the replica proved is the precommitted one,   *)
(* proofs sent were verified, and a proving sector is on chain             *)
(* (SealingImpl).                                                          *)
(***************************************************************************)
SealedIsProven == ReplicaIsPrecommitted /\ ProofsVerified /\ ProvenOnChain

(***************************************************************************)
(* RemovedForDeals: a sector nobody asked to remove is removed only when   *)
(* it has deals and they are not to be found or have expired.              *)
(***************************************************************************)
RemovedForDeals ==
  state \in {"kRemoving", "kRemoved", "kRemoveFail"} /\ ~removed =>
    info.pieces = "deals" /\ chain.deals # "valid"

(***************************************************************************)
(* DiesOnlyWhen: the process dies of a sector only where an answer is used *)
(* unchecked: a commit message that is not found, no address for a         *)
(* precommit, an upgrade whose message is forgotten, a forced state.       *)
(***************************************************************************)
DiesOnlyWhen ==
  proc = "dead" =>
    \/ state = "kCommitFail" /\ info.message # 0
    \/ state = "kPreCommitting" /\ ~BatchPreCommits
    \/ state = "kUpdateActivating" /\ ~info.update
    \/ disk.state = "kForce"

(***************************************************************************)
(* A sector goes, or takes the process with it, only for the reasons named *)
(* (handlers of SealingImpl).                                              *)
(***************************************************************************)
EndsForAReason == RemovedForDeals /\ DiesOnlyWhen

\* The chain took the commit message and then rejected the proof: its seed had changed.
ProofRejected == ~chain.sector /\ \E k \in 1..Len(msgs) : msgs[k].kind = "commit" /\ msgs[k].fate = "ok"

\* The sector is proven by another commit message than the one its record names.
CommittedTwice == chain.sector /\ info.message # 0 /\ Fate(info.message) # "ok"

(***************************************************************************)
(* Proceeds: the retries that follow one failure of any kind come to an    *)
(* end: a sector that is begun is proven, or removed, or given up.  Three  *)
(* cases retry for ever: a precommit that has expired (its number cannot   *)
(* be used again), a proof the chain rejected after its message was        *)
(* executed, and a commit message pushed twice, with a crash before the    *)
(* first was recorded (in both, handleCommitFail and handleCommitWait send *)
(* each other on).                                                         *)
(***************************************************************************)
Proceeds ==
  state # "none" ~>
    \/ state \in {"none", "kProving", "kRemoved", "kRemoveFail"}
    \/ Idle /\ GivenUp
    \/ proc = "dead"
    \/ UsedUp /\ ~chain.sector
    \/ ProofRejected
    \/ CommittedTwice
-----------------------------------------------------------------------------
(***************************************************************************)
(* LandedNotAborted: an upgrade whose replica update is applied on chain   *)
(* is not aborted: handleReplicaUpdateWait aborts on a "mismatch of        *)
(* expected onchain sealed cid".                                           *)
(***************************************************************************)
LandedNotAborted == state = "kAbortUpgrade" => ~chain.updated
=============================================================================
