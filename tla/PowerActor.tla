----------------------------- MODULE PowerActor -----------------------------
(***************************************************************************)
(* The reward actor and the power actor, which the end of an epoch ties    *)
(* together.                                                               *)
(***************************************************************************)
EXTENDS ActorBase

(***************************************************************************)
(* The reward actor (core/vm/actor/builtin/v*/reward, states/reward,       *)
(* types/reward).  Q.128 numbers are integers in units of 1/RwScale.       *)
(***************************************************************************)

CONSTANTS
  RwScale,            \* 2^kPrecision128
  RwExponent,         \* kBaselineExponent, in units of 1/RwScale
  RwBaselineInitial,  \* kBaselineInitialValue
  RwSimple,           \* epoch -> simple reward of the epoch (from expneg)
  RwSupply(_),        \* theta -> computeBaselineSupply (from expneg)
  RwFunds,            \* balance of the actor at first
  RwPenalties, RwGas, RwPowers, \* penalties, gas rewards and powers to choose from
  RwLastEpoch, RwMaxPaid        \* bounds

VARIABLES rw, rwPaid, rwBurnt, rwGas

rwVars == <<rw, rwPaid, rwBurnt, rwGas>>

ExpectedLeaders == 5    \* kExpectedLeadersPerEpoch

initBaselinePower == (RwBaselineInitial * RwScale) \div RwExponent
baselinePowerFromPrev(p) == (p * RwExponent) \div RwScale

\* Division of big integers rounds towards minus infinity.
computeRTheta(st) ==
  IF st.eff_time = 0 THEN 0
  ELSE st.eff_time * RwScale - ((st.cum_base - st.cum_real) * RwScale) \div st.eff_base

computeReward(epoch, prev, curr) == RwSimple[epoch] + RwSupply(curr) - RwSupply(prev)

updateToNextEpoch(st, power) ==
  LET base == baselinePowerFromPrev(st.base)
      s == [st EXCEPT !.epoch = @ + 1, !.base = base, !.cum_real = @ + Smaller(base, power)]
      eff == baselinePowerFromPrev(s.eff_base)
  IN IF s.cum_real > s.cum_base
     THEN [s EXCEPT !.eff_time = @ + 1, !.eff_base = eff, !.cum_base = @ + eff]
     ELSE s

updateToNextEpochWithReward(st, power) ==
  LET s == updateToNextEpoch(st, power)
  IN [s EXCEPT !.reward = computeReward(s.epoch, computeRTheta(st), computeRTheta(s))]

RwInitialize(power) ==
  updateToNextEpochWithReward(
    [eff_time |-> 0, eff_base |-> RwBaselineInitial, base |-> initBaselinePower, epoch |-> -1,
     cum_base |-> 0, cum_real |-> 0, reward |-> 0, total |-> 0, balance |-> RwFunds], power)

\* Null rounds are caught up with first.
updateKPI(st, power, now) ==
  LET one(s, e) == {updateToNextEpoch(s, power)}
      caught == CHOOSE s \in ForEach(one, {st}, Ascending(st.epoch + 1 .. now)) : TRUE
  IN updateToNextEpochWithReward(caught, power)

\* validateParams, calculateReward: the reward is limited to the balance.
calculateReward(st, wins, gas, balance) ==
  LET block == (st.reward * wins) \div ExpectedLeaders
  IN IF block + gas > balance THEN balance - gas ELSE block

\* Mutant: the reward is counted before it is limited to the balance.
AwardBlockRewardUncapped(version, wins, gas, penalty, accepted) ==
  LET block == calculateReward(rw, wins, gas, rw.balance + gas)
      burnt == IF ~accepted THEN block + gas ELSE IF version = 0 THEN Smaller(penalty, block + gas) ELSE 0
  IN /\ block >= 0
     /\ rw' = [rw EXCEPT !.total = @ + (rw.reward * wins) \div ExpectedLeaders, !.balance = @ - block]
     /\ rwBurnt' = rwBurnt + burnt
     /\ rwPaid' = rwPaid + block + gas - burnt
     /\ rwGas' = rwGas + gas

\* The actor holds the gas reward already.  Version 0 burns the penalty; later
\* ones leave it to the miner.  What the miner does not accept is burnt.
AwardBlockReward(version, wins, gas, penalty, accepted) ==
  LET block == calculateReward(rw, wins, gas, rw.balance + gas)
      burnt == IF ~accepted THEN block + gas ELSE IF version = 0 THEN Smaller(penalty, block + gas) ELSE 0
  IN /\ block >= 0
     /\ rw' = [rw EXCEPT !.total = @ + block, !.balance = @ - block]
     /\ rwBurnt' = rwBurnt + burnt
     /\ rwPaid' = rwPaid + block + gas - burnt
     /\ rwGas' = rwGas + gas

RwVersions == {0, 2}
RwInit == rw = RwInitialize(0) /\ rwPaid = 0 /\ rwBurnt = 0 /\ rwGas = 0

\* The power actor reports after an epoch; epochs without blocks are skipped.
UpdateNetworkKPI(power, skipped) ==
  /\ rw.epoch + skipped <= RwLastEpoch
  /\ rw' = updateKPI(rw, power, rw.epoch + skipped)
  /\ UNCHANGED <<rwPaid, rwBurnt, rwGas>>

RwNext ==
  \/ \E power \in RwPowers, skipped \in {0, 1} : UpdateNetworkKPI(power, skipped)
  \/ \E version \in RwVersions, wins \in {1, 3}, gas \in RwGas, penalty \in RwPenalties, accepted \in BOOLEAN :
       AwardBlockReward(version, wins, gas, penalty, accepted) /\ rwPaid + rwBurnt <= RwMaxPaid

-----------------------------------------------------------------------------
RwTypeOK ==
  /\ {rw.epoch, rw.cum_base, rw.cum_real, rw.base, rw.total, rw.balance, rw.eff_time} \subseteq Nat
  /\ rw.eff_base \in Nat \ {0} /\ rw.reward \in Int
  /\ {rwPaid, rwBurnt, rwGas} \subseteq Nat

(* The actor pays out what it counts: the funds it had and the gas it was  *)
(* sent are in its balance, were paid to miners or were burnt, and         *)
(* total_reward is what left it besides gas, also when the balance is too  *)
(* small for the reward or the miner's AddLockedFund or ApplyRewards fails.*)
RewardsAreAccounted ==
  /\ RwFunds + rwGas = rw.balance + rwPaid + rwBurnt
  /\ rw.total = rwPaid + rwBurnt - rwGas

-----------------------------------------------------------------------------
(***************************************************************************)
(* The storage power actor (core/vm/actor/builtin/v*/storage_power,        *)
(* states/storage_power) with the init, cron and reward actors it calls or *)
(* is called by.  Cron calls the miners, which may fail, or call back and  *)
(* change their claim and enroll events while OnEpochTickEnd runs.         *)
(***************************************************************************)

CONSTANTS
  PwVersions,        \* [actor, network7]: actor version, network version at least 7
  PwMinPower,        \* kConsensusMinerMinPower
  PwMinMiners,       \* kConsensusMinerMinMiners
  PwDeltas,          \* changes <<raw, qa>> of a claim
  PwMaxProofs,       \* kMaxMinerProveCommitsPerEpoch
  PwMaxMiners, PwMaxPower, PwMaxPledge, PwLastEpoch, PwMaxEvents   \* bounds

VARIABLES pwVersion, pw, pwEpoch, pwInit

pwVars == <<pwVersion, pw, pwEpoch, pwInit, rw, rwPaid, rwBurnt, rwGas>>

\* Init actor: Exec gives the next id to a new robust address.
pwCanExec(caller, code) == IF code = "miner" THEN caller = "power" ELSE code \in {"paych", "multisig"}
pwAddActor(st, robust) == [next |-> st.next + 1, map |-> With(st.map, robust, st.next)]

hasClaim(st, m) == m \in DOMAIN st.claims
setClaim(st, m, raw, qa) ==
  IF raw < 0 \/ qa < 0 THEN Aborted ELSE {[st EXCEPT !.claims = With(@, m, [raw |-> raw, qa |-> qa])]}

\* Version 0 compares the quality adjusted power, later ones the raw power.
isBelow(c) == (IF pwVersion.actor = 0 THEN c.qa ELSE c.raw) < PwMinPower

\* Mutant: a miner that rises above the threshold adds only the difference.
addToClaimDelta(st, m, raw, qa) ==
  IF ~hasClaim(st, m) THEN Aborted
  ELSE LET old == st.claims[m]
           new == [raw |-> old.raw + raw, qa |-> old.qa + qa]
           was == ~isBelow(old)
           is == ~isBelow(new)
       IN setClaim([st EXCEPT !.raw_commited = @ + raw, !.qa_commited = @ + qa,
                              !.meeting = @ + (IF is THEN 1 ELSE 0) - (IF was THEN 1 ELSE 0),
                              !.raw = IF is \/ was THEN @ + raw ELSE @,
                              !.qa = IF is \/ was THEN @ + qa ELSE @], m, new.raw, new.qa)

addToClaim(st, m, raw, qa) ==
  IF ~hasClaim(st, m) THEN Aborted
  ELSE LET old == st.claims[m]
           new == [raw |-> old.raw + raw, qa |-> old.qa + qa]
           was == ~isBelow(old)
           is == ~isBelow(new)
       IN setClaim([st EXCEPT !.raw_commited = @ + raw, !.qa_commited = @ + qa,
                              !.meeting = @ + (IF is THEN 1 ELSE 0) - (IF was THEN 1 ELSE 0),
                              !.raw = @ + (IF is THEN new.raw ELSE 0) - (IF was THEN old.raw ELSE 0),
                              !.qa = @ + (IF is THEN new.qa ELSE 0) - (IF was THEN old.qa ELSE 0)],
                   m, new.raw, new.qa)

removePower(st, m) == addToClaim(st, m, -st.claims[m].raw, -st.claims[m].qa)
dropClaim(st, m) == [st EXCEPT !.claims = Without(@, m)]

\* Version 2 takes the power away first, and accepts a claim that is gone.
deleteClaim(st, m) ==
  IF pwVersion.actor = 0 THEN IF hasClaim(st, m) THEN {dropClaim(st, m)} ELSE Aborted
  ELSE IF hasClaim(st, m) THEN {dropClaim(s, m) : s \in removePower(st, m)} ELSE {st}

addPledgeTotal(st, amount) ==
  IF st.pledge + amount < 0 THEN Aborted ELSE {[st EXCEPT !.pledge = @ + amount]}

\* Mutant: the first epoch with events is not moved back.
appendCronEventLate(st, epoch, m) ==
  {[st EXCEPT !.queue = With(@, epoch, Append(GetOr(@, epoch, <<>>), m))]}

appendCronEvent(st, epoch, m) ==
  {[st EXCEPT !.first = Smaller(@, epoch),
              !.queue = With(@, epoch, Append(GetOr(@, epoch, <<>>), m))]}

queued(st) == SumOf([e \in DOMAIN st.queue |-> Len(st.queue[e])])
validateMinerHasClaim(st, m) == pwVersion.actor >= 2 => hasClaim(st, m)

\* What a miner may do to the power actor while it is called: nothing, change
\* its claim, or enroll for a later epoch or for an epoch already processed.
callbacks(st, m) ==
  LET claimed == {s \in UNION {addToClaim(st, m, d[1], d[2]) : d \in PwDeltas} :
                    s.raw_commited <= PwMaxPower}
      enrolled == IF queued(st) < PwMaxEvents
                  THEN UNION {appendCronEvent(st, e, m) : e \in {pwEpoch, pwEpoch + 1}} ELSE {}
  IN {st} \union claimed \union enrolled

\* OnDeferredCronEvent of one miner: it fails, or does something.
deferredEvent(st, m) == {[st EXCEPT !.failed = Append(@, m)]} \union callbacks(st, m)

takeCronEvents(st) ==
  LET due == Ascending({e \in DOMAIN st.queue : e >= st.first /\ e <= pwEpoch})
      all == FlattenSeq([i \in DOMAIN due |-> st.queue[due[i]]])
      kept == IF pwVersion.actor = 0 THEN all
              ELSE SelectSeq(all, LAMBDA m : hasClaim(st, m))
  IN [st EXCEPT !.queue = Restrict(@, DOMAIN @ \ Range(due)), !.first = pwEpoch + 1, !.due = kept]

\* A miner that failed loses its power (version 0) or its claim.
failedMiner(st, m) ==
  IF pwVersion.actor = 0 THEN IF hasClaim(st, m) THEN removePower(st, m) ELSE {st}
  ELSE {[s EXCEPT !.count = IF pwVersion.network7 THEN @ - 1 ELSE @] : s \in deleteClaim(st, m)}

processDeferredCronEvents(sts) ==
  UNION {LET taken == takeCronEvents(st)
             called == ForEach(deferredEvent, {[taken EXCEPT !.due = <<>>]}, taken.due)
         IN UNION {{[f EXCEPT !.failed = <<>>,
                              !.again = @ + Len(c.failed) - Cardinality(Range(c.failed))] :
                      f \in ForEach(failedMiner, {c}, c.failed)} : c \in called} : st \in sts}

\* ConfirmSectorProofsValid of each miner with proofs; its failure is ignored.
processBatchProofVerifiers(sts) ==
  UNION {LET miners == {m \in DOMAIN st.proofs : pwVersion.actor >= 2 => hasClaim(st, m)}
         IN ForEach(callbacks, {[st EXCEPT !.proofs = Empty]}, Ascending(miners)) : st \in sts}

getCurrentTotalPower(st) ==
  IF st.meeting < PwMinMiners THEN [raw |-> st.raw_commited, qa |-> st.qa_commited]
  ELSE [raw |-> st.raw, qa |-> st.qa]

-----------------------------------------------------------------------------
PwInit ==
  /\ pwVersion \in PwVersions
  /\ pw = [raw |-> 0, qa |-> 0, raw_commited |-> 0, qa_commited |-> 0, pledge |-> 0,
           count |-> 0, meeting |-> 0, queue |-> Empty, first |-> 0, claims |-> Empty,
           proofs |-> Empty, epoch_power |-> [raw |-> 0, qa |-> 0], epoch_pledge |-> 0,
           failed |-> <<>>, due |-> <<>>, again |-> 0]
  /\ pwEpoch = 0
  /\ pwInit = [next |-> 100, map |-> Empty]
  /\ RwInit

RwSame == UNCHANGED rwVars
PwMiners == DOMAIN pw.claims

CreateMiner ==
  LET id == pwInit.next
  IN /\ pwCanExec("power", "miner") /\ id < 100 + PwMaxMiners
     /\ pwInit' = pwAddActor(pwInit, <<"robust", id>>)
     /\ pw' \in {[s EXCEPT !.count = @ + 1] : s \in setClaim(pw, id, 0, 0)}
     /\ RwSame /\ UNCHANGED <<pwVersion, pwEpoch>>

UpdateClaimedPower(m, delta) ==
  /\ pw' \in addToClaim(pw, m, delta[1], delta[2]) /\ pw'.raw_commited <= PwMaxPower
  /\ RwSame /\ UNCHANGED <<pwVersion, pwEpoch, pwInit>>

EnrollCronEvent(m, epoch) ==
  /\ queued(pw) < PwMaxEvents
  /\ pw' \in appendCronEvent(pw, epoch, m)
  /\ RwSame /\ UNCHANGED <<pwVersion, pwEpoch, pwInit>>

UpdatePledgeTotal(m, amount) ==
  /\ validateMinerHasClaim(pw, m) /\ pw.pledge + amount <= PwMaxPledge
  /\ pw' \in addPledgeTotal(pw, amount)
  /\ RwSame /\ UNCHANGED <<pwVersion, pwEpoch, pwInit>>

\* Version 0 only.
OnConsensusFault(m, pledge) ==
  /\ pwVersion.actor = 0 /\ hasClaim(pw, m)
  /\ pw' \in UNION {{[dropClaim(s2, m) EXCEPT !.count = @ - 1] : s2 \in addPledgeTotal(s, -pledge)} :
                      s \in removePower(pw, m)}
  /\ RwSame /\ UNCHANGED <<pwVersion, pwEpoch, pwInit>>

SubmitPoRepForBulkVerify(m) ==
  /\ validateMinerHasClaim(pw, m) /\ GetOr(pw.proofs, m, 0) < PwMaxProofs
  /\ pw' = [pw EXCEPT !.proofs = With(@, m, GetOr(@, m, 0) + 1)]
  /\ RwSame /\ UNCHANGED <<pwVersion, pwEpoch, pwInit>>

\* Cron, at the end of an epoch; the next one may have no blocks.  Version 0
\* runs the events before the proofs, later ones after them.
OnEpochTickEnd(skipped) ==
  /\ pwEpoch < PwLastEpoch
  /\ pw' \in {[s EXCEPT !.epoch_power = getCurrentTotalPower(s), !.epoch_pledge = s.pledge] :
                s \in IF pwVersion.actor = 0
                      THEN processBatchProofVerifiers(processDeferredCronEvents({pw}))
                      ELSE processDeferredCronEvents(processBatchProofVerifiers({pw}))}
  /\ rw' = updateKPI(rw, pw'.epoch_power.raw, pwEpoch)
  /\ pwEpoch' = pwEpoch + 1 + skipped
  /\ UNCHANGED <<pwVersion, pwInit, rwPaid, rwBurnt, rwGas>>

PwMinerCalls(m) ==
  \/ \E d \in PwDeltas : UpdateClaimedPower(m, d)
  \/ \E e \in {0, pwEpoch, pwEpoch + 1} : EnrollCronEvent(m, e)
  \/ \E n \in {-1, 1} : UpdatePledgeTotal(m, n)
  \/ OnConsensusFault(m, 1)
  \/ SubmitPoRepForBulkVerify(m)

PwNext ==
  \/ CreateMiner
  \/ \E m \in Range(pwInit.map) : PwMinerCalls(m)
  \/ \E skipped \in {0, 1} : OnEpochTickEnd(skipped)

PwSpec == PwInit /\ [][PwNext]_pwVars

-----------------------------------------------------------------------------
PwTypeOK ==
  /\ pwVersion \in PwVersions /\ pwEpoch \in Nat
  /\ {pw.raw, pw.qa, pw.raw_commited, pw.qa_commited, pw.pledge, pw.meeting, pw.first} \subseteq Nat
  /\ PwMiners \subseteq Range(pwInit.map)
  /\ \A m \in PwMiners : pw.claims[m].raw \in Nat /\ pw.claims[m].qa \in Nat

(* The totals are those of the claims, with only the miners above the      *)
(* threshold in the consensus totals, through claims that cross it in both *)
(* directions, faults, failing cron events and calls that come back while  *)
(* OnEpochTickEnd runs.  miner_count is the number of claims, less one for *)
(* each further event a miner failed in a tick ("can one miner fail        *)
(* several times here?"), and except under versions whose network does not *)
(* count the miners it drops.                                              *)
PowerIsClaimed ==
  LET above == {m \in PwMiners : ~isBelow(pw.claims[m])}
      raw(m) == pw.claims[m].raw
      qa(m) == pw.claims[m].qa
  IN /\ pw.raw_commited = Total(PwMiners, raw) /\ pw.qa_commited = Total(PwMiners, qa)
     /\ pw.raw = Total(above, raw) /\ pw.qa = Total(above, qa)
     /\ pw.meeting = Cardinality(above)
     /\ pwVersion.actor = 0 => pw.count = Cardinality(PwMiners)
     /\ pwVersion.network7 => pw.count = Cardinality(PwMiners) - pw.again

(* No cron event is stranded: an event enrolled for an epoch already       *)
(* processed, or by a miner that was called by OnEpochTickEnd itself, is   *)
(* not before first_cron_epoch, where the next tick starts to look.        *)
CronEventsAreReached == \A e \in DOMAIN pw.queue : e >= pw.first
=============================================================================
