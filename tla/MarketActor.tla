---------------------------- MODULE MarketActor -----------------------------
(***************************************************************************)
(* The storage market actor and the verified registry actor that it calls. *)
(***************************************************************************)
EXTENDS ActorBase

(***************************************************************************)
(* The verified registry actor (core/vm/actor/builtin/v*/verified_registry).*)
(* Verifiers get data cap from the root key and hand it to clients; the    *)
(* storage market takes it for verified deals and gives it back.           *)
(***************************************************************************)

CONSTANTS
  VrAddresses, VrRoot,      \* addresses; the root key is one of them
  VrMinDealSize,            \* kMinVerifiedDealSize
  VrSizes,                  \* data caps and deal sizes to choose from
  VrMaxGranted              \* bound on the data cap granted by the root key

VARIABLES vr, vrGranted, vrUsed, vrDropped

vrVars == <<vr, vrGranted, vrUsed, vrDropped>>

checkDealSize(size) == size >= VrMinDealSize
checkAddress(st, a) == a # st.root_key

VrConstruct(root) == [root_key |-> root, verifiers |-> Empty, clients |-> Empty]

\* Mutant: a verifier may be named that is a client already.
addVerifierAny(st, a, cap) == {[st EXCEPT !.verifiers = With(@, a, cap)]}

addVerifier(st, a, cap) ==
  IF a \in DOMAIN st.clients THEN Aborted ELSE {[st EXCEPT !.verifiers = With(@, a, cap)]}

addClient(st, verifier, a, cap) ==
  IF \/ verifier \notin DOMAIN st.verifiers
     \/ a \in DOMAIN st.verifiers \/ a \in DOMAIN st.clients
     \/ st.verifiers[verifier] < cap
  THEN Aborted
  ELSE {[st EXCEPT !.verifiers[verifier] = @ - cap, !.clients = With(@, a, cap)]}

\* A cap too small for any deal is removed with its client.
useBytes(st, a, size) ==
  IF ~checkDealSize(size) \/ a \notin DOMAIN st.clients THEN Aborted
  ELSE LET left == st.clients[a] - size
       IN CASE left < 0 -> Aborted
            [] left \in 0 .. VrMinDealSize - 1 -> {[st EXCEPT !.clients = Without(@, a)]}
            [] OTHER -> {[st EXCEPT !.clients[a] = left]}

capOf(st, a) == GetOr(st.clients, a, 0)

\* Mutant: the bytes given back replace what the client has.
restoreBytesAnew(st, a, size) ==
  IF checkDealSize(size) /\ checkAddress(st, a) /\ a \notin DOMAIN st.verifiers
  THEN {[st EXCEPT !.clients = With(@, a, size)]} ELSE Aborted

restoreBytes(st, a, size) ==
  IF checkDealSize(size) /\ checkAddress(st, a) /\ a \notin DOMAIN st.verifiers
  THEN {[st EXCEPT !.clients = With(@, a, capOf(st, a) + size)]} ELSE Aborted

-----------------------------------------------------------------------------
VrInit ==
  /\ vr = VrConstruct(VrRoot)
  /\ vrGranted = 0 /\ vrUsed = 0 /\ vrDropped = 0

\* The root key names a verifier, or gives one a new allowance.
AddVerifier(a, cap) ==
  /\ checkDealSize(cap) /\ checkAddress(vr, a) /\ vrGranted + cap <= VrMaxGranted
  /\ vr' \in addVerifier(vr, a, cap)
  /\ vrGranted' = vrGranted + cap
  /\ vrDropped' = vrDropped + GetOr(vr.verifiers, a, 0)
  /\ UNCHANGED vrUsed

RemoveVerifier(a) ==
  /\ a \in DOMAIN vr.verifiers
  /\ vr' = [vr EXCEPT !.verifiers = Without(@, a)]
  /\ vrDropped' = vrDropped + vr.verifiers[a]
  /\ UNCHANGED <<vrGranted, vrUsed>>

AddVerifiedClient(verifier, a, cap) ==
  /\ checkDealSize(cap) /\ checkAddress(vr, a)
  /\ vr' \in addClient(vr, verifier, a, cap)
  /\ UNCHANGED <<vrGranted, vrUsed, vrDropped>>

\* The market actor publishes a verified deal.
UseBytes(a, size) ==
  /\ vr' \in useBytes(vr, a, size)
  /\ vrUsed' = vrUsed + size
  /\ vrDropped' = vrDropped + (capOf(vr, a) - size) - capOf(vr', a)
  /\ UNCHANGED vrGranted

\* The market actor gives back the bytes of a deal that was not activated.
RestoreBytes(a, size) ==
  /\ size <= vrUsed
  /\ vr' \in restoreBytes(vr, a, size)
  /\ vrUsed' = vrUsed - size
  /\ UNCHANGED <<vrGranted, vrDropped>>

VrNext ==
  \E a \in VrAddresses :
    \/ RemoveVerifier(a)
    \/ \E size \in VrSizes :
         \/ AddVerifier(a, size)
         \/ \E v \in VrAddresses : AddVerifiedClient(v, a, size)
         \/ UseBytes(a, size)
         \/ RestoreBytes(a, size)

VrSpec == VrInit /\ [][VrNext]_vrVars

-----------------------------------------------------------------------------
VrTypeOK ==
  /\ vr.root_key \in VrAddresses
  /\ \A f \in {vr.verifiers, vr.clients} :
       DOMAIN f \subseteq VrAddresses /\ \A a \in DOMAIN f : f[a] \in Nat
  /\ {vrGranted, vrUsed, vrDropped} \subseteq Nat

(* Data cap is neither made nor lost by verifiers, clients and deals: what *)
(* the root key granted is with verifiers, with clients, in deals, or was  *)
(* dropped (a verifier removed or given a new allowance, a rest too small  *)
(* for a deal), and no address is a verifier and a client at once, however *)
(* AddVerifier, AddVerifiedClient, UseBytes and RestoreBytes alternate.    *)
DataCapConserved ==
  /\ vrGranted = SumOf(vr.verifiers) + SumOf(vr.clients) + vrUsed + vrDropped
  /\ DOMAIN vr.verifiers \intersect DOMAIN vr.clients = {}

-----------------------------------------------------------------------------
(***************************************************************************)
(* The storage market actor (core/vm/actor/builtin/v*/market and           *)
(* states/market) with the part of the verified registry that its messages *)
(* call.  A deal is published with funds locked on both sides, activated   *)
(* by a miner, paid for by cron in steps, and ends, is slashed, or times   *)
(* out before it is activated.                                             *)
(***************************************************************************)

CONSTANTS
  MkVersions,       \* actor versions to consider, of {0, 2, 3}
  MkAccounts,       \* addresses of clients
  MkMiners,         \* miner actor -> [owner, worker, control]
  MkKnown,          \* addresses that have an entry in the locked table
  MkDeposits,       \* initial escrow of the known addresses
  MkBatches,        \* sequences of proposals that may be published together
  MkInterval,       \* kDealUpdatesInterval
  MkDurations,      \* dealDurationBounds
  MkSupply, MkPower,   \* circulating supply, [raw, qa, baseline] power of the network
  MkLastEpoch, MkMaxBalance       \* bounds

VARIABLES mkVersion, mk, mkEpoch, mkBalance, mkBurnt, mkDied

mkVars == <<mkVersion, mk, mkEpoch, mkBalance, mkBurnt, mkDied, vr, vrGranted, vrUsed, vrDropped>>

Undefined == -1      \* kChainEpochUndefined

duration(p) == p.end - p.start
getTotalStorageFee(p) == p.price * duration(p)
clientBalanceRequirement(p) == p.ccoll + getTotalStorageFee(p)
dealWeight(p) == duration(p) * p.size

-----------------------------------------------------------------------------
\* BalanceTable: get and add fail for an address that is not in the table.
subtractable(t, a, amount) == a \in DOMAIN t /\ amount <= t[a]
tableAddCreate(t, a, amount) == With(t, a, GetOr(t, a, 0) + amount)
subtractWithMin(t, a, amount, min) == Smaller(amount, Larger(t[a] - min, 0))

unlockBalance(st, a, amount, reason) ==
  IF amount < 0 \/ ~subtractable(st.locked, a, amount) THEN Aborted
  ELSE {[st EXCEPT !.locked[a] = @ - amount, !.total[reason] = @ - amount]}

slashBalance(st, a, amount, reason) ==
  IF amount < 0 \/ ~subtractable(st.escrow, a, amount) THEN Aborted
  ELSE unlockBalance([st EXCEPT !.escrow[a] = @ - amount], a, amount, reason)

transferBalance(st, from, to, amount) ==
  IF amount < 0 \/ ~subtractable(st.escrow, from, amount) \/ to \notin DOMAIN st.escrow
  THEN Aborted
  ELSE {[s EXCEPT !.escrow[to] = @ + amount] :
          s \in unlockBalance([st EXCEPT !.escrow[from] = @ - amount], from, amount, "fee")}

maybeLockBalance(st, a, amount) ==
  IF \/ amount < 0 \/ a \notin DOMAIN st.locked \/ a \notin DOMAIN st.escrow
     \/ st.locked[a] + amount > st.escrow[a]
  THEN Aborted ELSE {[st EXCEPT !.locked[a] = @ + amount]}

lockClientAndProviderBalances(st, p) ==
  {[s2 EXCEPT !.total.ccoll = @ + p.ccoll, !.total.fee = @ + getTotalStorageFee(p),
              !.total.pcoll = @ + p.pcoll] :
     s2 \in UNION {maybeLockBalance(s1, p.provider, p.pcoll) :
                     s1 \in maybeLockBalance(st, p.client, clientBalanceRequirement(p))}}

\* The whole collateral is the penalty: collateralPenaltyForDealActivationMissed.
processDealInitTimedOut(st, p) ==
  UNION {slashBalance(s2, p.provider, p.pcoll, "pcoll") :
     s2 \in UNION {unlockBalance(s1, p.client, p.ccoll, "ccoll") :
        s1 \in unlockBalance(st, p.client, getTotalStorageFee(p), "fee")}}

processDealExpired(st, p, ds) ==
  IF ds.sector_start = Undefined THEN Aborted
  ELSE UNION {unlockBalance(s, p.client, p.ccoll, "ccoll") :
                s \in unlockBalance(st, p.provider, p.pcoll, "pcoll")}

dealGetPaymentRemaining(p, slash) == (p.end - Larger(slash, p.start)) * p.price

\* Mutant: the payment starts again at the deal's first epoch.
paymentPeriodFromStart(p, ds, now) ==
  (IF ds.slash # Undefined THEN ds.slash ELSE Smaller(now, p.end)) - p.start

paymentPeriod(p, ds, now) ==
  (IF ds.slash # Undefined THEN ds.slash ELSE Smaller(now, p.end))
    - Larger(p.start, ds.last_updated)

\* The deal's payment up to now, then its end if it has come.  For a deal that
\* has not started the code returns no next epoch, which CronTick rejects.
updatePendingDealState(st, p, ds, now) ==
  LET due == paymentPeriod(p, ds, now) * p.price
      paid == IF due > 0 THEN transferBalance(st, p.client, p.provider, due) ELSE {st}
      slashed(s) ==
        UNION {slashBalance(s2, p.provider, p.pcoll, "pcoll") :
          s2 \in UNION {unlockBalance(s1, p.client, p.ccoll, "ccoll") :
            s1 \in unlockBalance(s, p.client, dealGetPaymentRemaining(p, ds.slash), "fee")}}
  IN IF \/ ds.last_updated > now \/ p.start > now
        \/ ds.slash # Undefined /\ (now < ds.slash \/ ds.slash > p.end)
     THEN Aborted
     ELSE UNION {CASE ds.slash # Undefined -> slashed(s)
                   [] ds.slash = Undefined /\ now >= p.end -> processDealExpired(s, p, ds)
                   [] OTHER -> {s} : s \in paid}

dealEnds(p, ds, now) == ds.slash # Undefined \/ now >= p.end

-----------------------------------------------------------------------------
\* dealProviderCollateralBounds: network version 1 and later count raw bytes.
minProviderCollateral(p) ==
  LET raw == mkVersion > 0
      share == IF raw \/ ~p.verified THEN p.size ELSE 10 * p.size
      power == Larger(Larger(IF raw THEN MkPower.raw ELSE MkPower.qa, MkPower.baseline), share)
  IN ((IF raw THEN 1 ELSE 5) * MkSupply * share) \div (100 * power)

validateDeal(p) ==
  /\ p.signed /\ (mkVersion >= 2 => p.label_fits)
  /\ mkEpoch <= p.start
  /\ duration(p) \in MkDurations
  /\ p.pcoll >= minProviderCollateral(p)

validateDealCanActivate(p, miner, expiry) ==
  p.provider = miner /\ mkEpoch <= p.start /\ p.end <= expiry

\* Version 0 does not look for duplicates.
validateDealsForActivation(st, ids, miner, expiry) ==
  /\ mkVersion >= 2 => IsInjective(ids)
  /\ \A i \in DOMAIN ids : /\ ids[i] \in DOMAIN st.proposals
                           /\ validateDealCanActivate(st.proposals[ids[i]], miner, expiry)

checkCallers(caller, miner) ==
  \/ caller = MkMiners[miner].worker
  \/ mkVersion >= 3 /\ caller \in MkMiners[miner].control

approvedCallers(a) ==
  IF a \in DOMAIN MkMiners THEN {MkMiners[a].owner, MkMiners[a].worker} ELSE {a}

schedule(byEpoch, epoch, ids) == With(byEpoch, epoch, GetOr(byEpoch, epoch, {}) \union ids)

\* One deal of PublishStorageDeals; offset is genRandNextEpoch's random part.
publishDeal(st, p, offset) ==
  IF ~validateDeal(p) \/ p \in st.pending THEN Aborted
  ELSE {[s EXCEPT !.next = @ + 1,
                  !.pending = @ \union {p},
                  !.proposals = With(@, st.next, p),
                  !.by_epoch = schedule(@, p.start + offset, {st.next})] :
          s \in lockClientAndProviderBalances(st, p)}

activateDeal(st, id) ==
  IF id \in DOMAIN st.states \/ st.proposals[id] \notin st.pending THEN Aborted
  ELSE {[st EXCEPT !.states = With(@, id, [sector_start |-> mkEpoch,
                                           last_updated |-> Undefined, slash |-> Undefined])]}

\* Deals that are gone, have ended or are slashed already are passed over.
terminateDeal(st, id, miner, epoch) ==
  CASE id \notin DOMAIN st.proposals -> {st}
    [] id \in DOMAIN st.proposals /\ st.proposals[id].provider # miner -> Aborted
    [] id \in DOMAIN st.proposals /\ st.proposals[id].provider = miner ->
         CASE st.proposals[id].end <= epoch -> {st}
           [] st.proposals[id].end > epoch /\ id \notin DOMAIN st.states -> Aborted
           [] OTHER -> {[st EXCEPT !.states[id].slash = IF @ = Undefined THEN epoch ELSE @]}

deleteDealProposalAndState(st, id) ==
  [st EXCEPT !.proposals = Without(@, id), !.states = Without(@, id)]

\* Mutant: a deal that goes on is not entered for its next update.
cronDealForgotten(st, id, now) ==
  LET p == st.proposals[id]
      ds == st.states[id]
      first == [st EXCEPT !.pending = IF ds.last_updated = Undefined THEN @ \ {p} ELSE @]
  IN {IF dealEnds(p, ds, now) THEN [deleteDealProposalAndState(s, id) EXCEPT
                                      !.slashed = @ + IF ds.slash # Undefined THEN p.pcoll ELSE 0]
      ELSE [s EXCEPT !.states[id].last_updated = now] :
        s \in updatePendingDealState(first, p, ds, now)}

\* CronTick for one activated deal of the epoch.
cronDeal(st, id, now) ==
  LET p == st.proposals[id]
      ds == st.states[id]
      first == [st EXCEPT !.pending = IF ds.last_updated = Undefined THEN @ \ {p} ELSE @]
  IN {IF dealEnds(p, ds, now) THEN [deleteDealProposalAndState(s, id) EXCEPT
                                      !.slashed = @ + IF ds.slash # Undefined THEN p.pcoll ELSE 0]
      ELSE [s EXCEPT !.states[id].last_updated = now,
                     !.by_epoch = schedule(@, now + MkInterval, {id})] :
        s \in updatePendingDealState(first, p, ds, now)}

dueDeals(st, now) ==
  UNION {st.by_epoch[e] : e \in DOMAIN st.by_epoch \intersect (st.last_cron + 1 .. now)}

cronDeals(st, now) ==
  LET one(s, id) == cronDeal(s, id, now)
      emptied == [st EXCEPT !.by_epoch = Restrict(@, {e \in DOMAIN @ : e > now}), !.last_cron = now]
  IN ForEach(one, {emptied}, Ascending(dueDeals(st, now)))

\* The visitor of CronTick processes a deal that was not activated in time
\* (processDealInitTimedOut, then deletion) and goes on to the value of the
\* deal's state, which is empty: the optional throws, nothing catches it, and
\* callVerifRegRestoreBytes is never reached.
cronThrows(st, now) ==
  \E id \in dueDeals(st, now) :
    id \notin DOMAIN st.states /\ processDealInitTimedOut(st, st.proposals[id]) # {}

-----------------------------------------------------------------------------
\* The state that the market alone changes, at first.
MkEmpty ==
  /\ mkVersion \in MkVersions
  /\ mk = [proposals |-> Empty, states |-> Empty, pending |-> {}, next |-> 0,
           escrow |-> [a \in MkKnown |-> MkDeposits],
           locked |-> [a \in MkKnown |-> 0],
           by_epoch |-> Empty, last_cron |-> Undefined, slashed |-> 0,
           total |-> [ccoll |-> 0, pcoll |-> 0, fee |-> 0]]
  /\ mkEpoch = 0
  /\ mkBalance = FoldSet(LAMBDA a, n : n + MkDeposits, 0, MkKnown)
  /\ mkBurnt = 0 /\ mkDied = FALSE

MkInit ==
  /\ MkEmpty
  /\ vr = [VrConstruct(VrRoot) EXCEPT !.clients = [a \in MkAccounts |-> VrMaxGranted]]
  /\ vrGranted = Cardinality(MkAccounts) * VrMaxGranted /\ vrUsed = 0 /\ vrDropped = 0

VrSame == UNCHANGED <<vr, vrGranted, vrUsed, vrDropped>>
Commit(outcomes) == outcomes # {} /\ mk' \in outcomes

AddBalance(a) ==
  /\ ~mkDied /\ mkBalance + mkBurnt < MkMaxBalance
  /\ mk' = [mk EXCEPT !.escrow = tableAddCreate(@, a, 1)]
  /\ mkBalance' = mkBalance + 1
  /\ VrSame /\ UNCHANGED <<mkVersion, mkEpoch, mkBurnt, mkDied>>

\* Mutant: the locked part may be withdrawn.
WithdrawBalanceAll(caller, a, amount) ==
  /\ ~mkDied /\ caller \in approvedCallers(a)
  /\ a \in DOMAIN mk.locked /\ a \in DOMAIN mk.escrow
  /\ LET n == subtractWithMin(mk.escrow, a, amount, 0)
     IN mk' = [mk EXCEPT !.escrow[a] = @ - n] /\ mkBalance' = mkBalance - n
  /\ VrSame /\ UNCHANGED <<mkVersion, mkEpoch, mkBurnt, mkDied>>

WithdrawBalance(caller, a, amount) ==
  /\ ~mkDied /\ caller \in approvedCallers(a)
  /\ a \in DOMAIN mk.locked /\ a \in DOMAIN mk.escrow
  /\ LET n == subtractWithMin(mk.escrow, a, amount, mk.locked[a])
     IN mk' = [mk EXCEPT !.escrow[a] = @ - n] /\ mkBalance' = mkBalance - n
  /\ VrSame /\ UNCHANGED <<mkVersion, mkEpoch, mkBurnt, mkDied>>

\* The registry is called after the market's own state is committed; a
\* failing call aborts the message.
PublishStorageDeals(caller, deals, offset) ==
  LET miner == deals[1].provider
      one(st, p) == IF p.provider = miner THEN publishDeal(st, p, offset) ELSE Aborted
      use(st, p) == IF p.verified THEN useBytes(st, p.client, p.size) ELSE {st}
  IN /\ ~mkDied /\ checkCallers(caller, miner)
     /\ Commit(ForEach(one, {mk}, deals))
     /\ vr' \in ForEach(use, {vr}, deals)
     /\ vrUsed' = vrUsed + SumOf([i \in DOMAIN deals |-> IF deals[i].verified THEN deals[i].size ELSE 0])
     /\ vrDropped' = vrDropped + SumOf(vr.clients) - SumOf(vr'.clients) - (vrUsed' - vrUsed)
     /\ UNCHANGED <<mkVersion, mkEpoch, mkBalance, mkBurnt, mkDied, vrGranted>>

ActivateDeals(miner, ids, expiry) ==
  /\ ~mkDied /\ validateDealsForActivation(mk, ids, miner, expiry)
  /\ Commit(ForEach(activateDeal, {mk}, ids))
  /\ VrSame /\ UNCHANGED <<mkVersion, mkEpoch, mkBalance, mkBurnt, mkDied>>

OnMinerSectorsTerminate(miner, ids) ==
  LET one(st, id) == terminateDeal(st, id, miner, mkEpoch)
  IN /\ ~mkDied /\ Commit(ForEach(one, {mk}, ids))
     /\ VrSame /\ UNCHANGED <<mkVersion, mkEpoch, mkBalance, mkBurnt, mkDied>>

\* Cron runs at the end of every epoch that has a tipset; the next one may be
\* skipped.  A cron message that aborts changes nothing.
CronTick(skipped) ==
  /\ ~mkDied /\ mkEpoch < MkLastEpoch
  /\ mkEpoch' = mkEpoch + 1 + skipped
  /\ IF cronThrows(mk, mkEpoch) THEN mkDied' = TRUE /\ UNCHANGED <<mk, mkBalance, mkBurnt>>
     ELSE LET done == cronDeals(mk, mkEpoch)
          IN /\ mk' \in IF done = {} THEN {mk} ELSE {[s EXCEPT !.slashed = 0] : s \in done}
             /\ LET burn == IF done = {} THEN 0 ELSE (CHOOSE s \in done : TRUE).slashed
                IN mkBurnt' = mkBurnt + burn /\ mkBalance' = mkBalance - burn
             /\ UNCHANGED mkDied
  /\ VrSame /\ UNCHANGED mkVersion

Callers == MkAccounts \union UNION {{m.owner, m.worker} \union m.control : m \in Range(MkMiners)}
IdLists == {<<i>> : i \in DOMAIN mk.proposals}
             \union {<<i, j>> : i, j \in DOMAIN mk.proposals}

MkNext ==
  \/ \E a \in MkAccounts \union DOMAIN MkMiners :
       \/ AddBalance(a)
       \/ \E caller \in Callers : WithdrawBalance(caller, a, MkDeposits)
  \/ \E caller \in Callers, deals \in MkBatches, offset \in 0 .. MkInterval - 1 :
       PublishStorageDeals(caller, deals, offset)
  \/ \E miner \in DOMAIN MkMiners, ids \in IdLists :
       \/ ActivateDeals(miner, ids, MkLastEpoch)
       \/ OnMinerSectorsTerminate(miner, ids)
  \/ \E skipped \in {0, 1} : CronTick(skipped)

MkSpec == MkInit /\ [][MkNext]_mkVars

-----------------------------------------------------------------------------
MkTypeOK ==
  /\ mkVersion \in MkVersions /\ mkEpoch \in Nat /\ mkDied \in BOOLEAN
  /\ {mkBalance, mkBurnt, mk.next, mk.slashed, mk.total.ccoll, mk.total.pcoll, mk.total.fee} \subseteq Nat
  /\ DOMAIN mk.states \subseteq DOMAIN mk.proposals
  /\ DOMAIN mk.proposals \subseteq 0 .. mk.next - 1

\* What a deal still holds of its client's and of its provider's funds.
held(id, a) ==
  LET p == mk.proposals[id]
      paidTo == IF id \in DOMAIN mk.states THEN Larger(p.start, mk.states[id].last_updated) ELSE p.start
  IN (IF a = p.client THEN p.ccoll + (p.end - paidTo) * p.price ELSE 0)
       + (IF a = p.provider THEN p.pcoll ELSE 0)

(* The actor's balance is the sum of the escrow table, nobody has more     *)
(* locked than in escrow, and what is locked for an address is exactly     *)
(* what the deals it has still hold of it: the payments that CronTick made *)
(* in pieces, skipped epochs, slashing and expiry neither pay an epoch     *)
(* twice nor leave funds locked by a deal that is gone.                    *)
EscrowIsOwed ==
  /\ mkBalance = SumOf(mk.escrow)
  /\ \A a \in DOMAIN mk.locked :
       /\ mk.locked[a] <= mk.escrow[a]
       /\ LET share(id) == held(id, a) IN mk.locked[a] = Total(DOMAIN mk.proposals, share)
  /\ mk.total.ccoll + mk.total.pcoll + mk.total.fee = SumOf(mk.locked)

(* Each deal is entered in deals_by_epoch exactly once, for an epoch that  *)
(* cron has not passed, and nothing else is: a deal that cron would not    *)
(* visit again would keep its funds locked for ever, and an entry without  *)
(* proposal would make every later CronTick fail.                          *)
DealsAreScheduled ==
  /\ \A id \in DOMAIN mk.proposals :
       Quantify(DOMAIN mk.by_epoch, LAMBDA e : id \in mk.by_epoch[e]) = 1
  /\ \A e \in DOMAIN mk.by_epoch : e > mk.last_cron /\ mk.by_epoch[e] \subseteq DOMAIN mk.proposals

(* CronTick terminates a deal that was published and not activated when    *)
(* its epoch comes.                                                        *)
TimedOutIsTerminated ==
  [][\A id \in dueDeals(mk, mkEpoch) :
       mkEpoch' > mkEpoch /\ id \notin DOMAIN mk.states => id \notin DOMAIN mk'.proposals]_mkVars
=============================================================================
