------------------------------ MODULE Multisig ------------------------------
(***************************************************************************)
(* The multisig actor (core/vm/actor/builtin/{v0,v2,v3}/multisig).  A      *)
(* message runs to its end and an aborted one changes nothing, so a method *)
(* is an operator from states to outcomes [ok, st] and a message an        *)
(* action.  Executing a transaction calls another actor; a call of the     *)
(* wallet itself (AddSigner, ...) changes the state under the method that  *)
(* made the call.                                                          *)
(***************************************************************************)
EXTENDS Integers, FiniteSets, Sequences, Functions, SequencesExt

CONSTANTS
  MsAccounts,      \* addresses that sign
  MsFounders,      \* the signers a wallet starts with
  MsVersions,      \* actor versions to consider, of {0, 2, 3}
  MsCalls,         \* what transactions may do: records with a method
  MsSignersMax,    \* kSignersMax
  MsWord,          \* a size_t holds 0..MsWord - 1
  MsMaxTx, MsMaxEpoch, MsMaxBalance    \* bounds

\* The parameters of the methods a transaction can call.
MsParameters(c) ==
  CASE c.method = "Send" -> c.value \in Int
    [] c.method \in {"AddSigner", "RemoveSigner"} -> c.signer \in MsAccounts /\ c.change \in BOOLEAN
    [] c.method = "SwapSigner" -> c.from \in MsAccounts /\ c.to \in MsAccounts
    [] c.method = "ChangeThreshold" -> c.threshold \in 0..MsWord - 1
    [] c.method = "LockBalance" -> c.start \in Int /\ c.duration \in Int /\ c.amount \in Int
    [] OTHER -> FALSE

ASSUME MsAssumption ==
  /\ MsVersions \subseteq {0, 2, 3} /\ MsFounders \in Seq(MsAccounts)
  /\ \A c \in MsCalls : MsParameters(c)
  /\ MsSignersMax \in Nat /\ MsWord \in Nat /\ MsSignersMax < MsWord
  /\ MsMaxTx \in Nat /\ MsMaxEpoch \in Nat /\ MsMaxBalance \in Nat

VARIABLES msVersion, ms, msEpoch, msExecuted

msVars == <<msVersion, ms, msEpoch, msExecuted>>

MsOk(st) == [ok |-> TRUE, st |-> st]
MsAbort == [ok |-> FALSE]
isSigner(st, a) == \E i \in DOMAIN st.signers : st.signers[i] = a

\* From version 2 on a wallet has a limited number of signers,
tooManySigners(n) == msVersion >= 2 /\ n > MsSignersMax
\* and chooses the epoch its lock starts from.
startEpoch(start) == IF msVersion >= 2 THEN start ELSE msEpoch

\* Construct: checkParams and createState, with the value received locked.
MsConstruct(signers, threshold, start, duration, received) ==
  IF \/ signers = <<>> \/ ~IsInjective(signers)
     \/ tooManySigners(Len(signers))
     \/ threshold > Len(signers) \/ threshold < 1 \/ duration < 0
  THEN MsAbort
  ELSE MsOk([signers |-> signers, threshold |-> threshold, next |-> 0,
             pending |-> [i \in {} |-> 0], balance |-> received,
             initial |-> IF duration # 0 THEN received ELSE 0,
             start |-> IF duration = 0 THEN 0 ELSE startEpoch(start),
             duration |-> duration])

\* Version 0 divides first and so loses the remainder.
amountLockedOld(st, elapsed) == (st.initial \div st.duration) * (st.duration - elapsed)
amountLocked(st, elapsed) ==
  CASE elapsed >= st.duration -> 0
    [] elapsed < 0 \/ (msVersion >= 2 /\ elapsed = 0) -> st.initial
    [] OTHER ->
       IF msVersion = 0 THEN amountLockedOld(st, elapsed)
       ELSE -((-(st.initial * (st.duration - elapsed))) \div st.duration)

\* Mutant: the lock is compared with the balance before the payment.
assertAvailableBefore(st, amount) ==
  amount <= st.balance /\ st.balance >= amountLocked(st, msEpoch - st.start)

assertAvailable(st, amount) ==
  /\ amount >= 0 /\ st.balance >= amount
  /\ \/ msVersion >= 2 /\ amount = 0
     \/ st.balance - amount >= amountLocked(st, msEpoch - st.start)

-----------------------------------------------------------------------------
\* The threshold is unsigned.
MsIncremented(n) == IF n = MsWord - 1 THEN 0 ELSE n + 1
MsDecremented(n) == IF n = 0 THEN MsWord - 1 ELSE n - 1

\* Mutant: an account can be made a signer twice.
addSignerAgain(st, c) ==
  IF tooManySigners(Len(st.signers) + 1) THEN MsAbort
  ELSE MsOk([st EXCEPT !.signers = Append(@, c.signer),
                       !.threshold = IF c.change THEN MsIncremented(@) ELSE @])

\* The methods that only the wallet itself may call.
addSigner(st, c) ==
  IF isSigner(st, c.signer) \/ tooManySigners(Len(st.signers) + 1)
  THEN MsAbort
  ELSE MsOk([st EXCEPT !.signers = Append(@, c.signer),
                       !.threshold = IF c.change THEN MsIncremented(@) ELSE @])

\* An account erased where it is found; a list has an account only once.
MsWithout(q, a) ==
  IF a \in ToSet(q) THEN RemoveAt(q, CHOOSE i \in DOMAIN q : q[i] = a) ELSE q

\* Mutant: approvals of former signers stay.
purgeApprovalsNever(st, a) == st

\* purgeApprovals: a former signer's approvals go, and transactions without any.
purgeApprovals(st, a) ==
  IF msVersion = 0 THEN st
  ELSE LET left == [i \in DOMAIN st.pending |-> MsWithout(st.pending[i].approved, a)] IN
       [st EXCEPT !.pending =
          [i \in {j \in DOMAIN st.pending : left[j] # <<>>} |->
             [st.pending[i] EXCEPT !.approved = left[i]]]]

\* The threshold is not lowered to zero.
lowersTooFar(st, c) == c.change /\ msVersion >= 2 /\ st.threshold < 2

removeSigner(st, c) ==
  IF \/ ~isSigner(st, c.signer) \/ Len(st.signers) = 1
     \/ ~c.change /\ Len(st.signers) - 1 < st.threshold
     \/ lowersTooFar(st, c)
  THEN MsAbort
  ELSE MsOk(purgeApprovals([st EXCEPT !.threshold = IF c.change THEN MsDecremented(@) ELSE @,
                                      !.signers = MsWithout(@, c.signer)], c.signer))

swapSigner(st, c) ==
  IF ~isSigner(st, c.from) \/ isSigner(st, c.to) THEN MsAbort
  ELSE MsOk(purgeApprovals([st EXCEPT !.signers = Append(MsWithout(@, c.from), c.to)], c.from))

changeThreshold(st, c) ==
  IF c.threshold = 0 \/ c.threshold > Len(st.signers) THEN MsAbort
  ELSE MsOk([st EXCEPT !.threshold = c.threshold])

\* Version 3 refuses a negative amount.
refusedAmount(c) == msVersion = 3 /\ c.amount < 0

\* setLocked, once.
lockBalance(st, c) ==
  IF c.duration <= 0 \/ st.duration # 0 \/ refusedAmount(c) THEN MsAbort
  ELSE MsOk([st EXCEPT !.start = c.start, !.duration = c.duration, !.initial = c.amount])

\* Runtime::send: another actor gets the value, or one of the above runs.
MsSend(st, c) ==
  CASE c.method = "Send" -> MsOk([st EXCEPT !.balance = @ - c.value])
    [] c.method = "AddSigner" -> addSigner(st, c)
    [] c.method = "RemoveSigner" -> removeSigner(st, c)
    [] c.method = "SwapSigner" -> swapSigner(st, c)
    [] c.method = "ChangeThreshold" -> changeThreshold(st, c)
    [] c.method = "LockBalance" -> lockBalance(st, c)

MsValue(c) == IF c.method = "Send" THEN c.value ELSE 0

\* The transaction leaves the table, if it is still there.
transactionDone(st, id) == [st EXCEPT !.pending = Restrict(@, DOMAIN @ \ {id})]

(***************************************************************************)
(* executeTransaction: with enough approvals the call is made; if it       *)
(* fails, the transaction is done all the same.  The state is read again   *)
(* after the call, and the transaction may have been purged by it.         *)
(***************************************************************************)
executeTransaction(st, id, tx) ==
  IF Len(tx.approved) < st.threshold THEN [ok |-> TRUE, st |-> st, applied |-> FALSE]
  ELSE IF ~assertAvailable(st, MsValue(tx.call)) THEN MsAbort
  ELSE LET sent  == MsSend(st, tx.call)
           after == IF sent.ok THEN sent.st ELSE st IN
       [ok |-> TRUE, applied |-> TRUE, st |-> transactionDone(after, id)]

approveTransaction(st, id, tx, caller) ==
  IF \E i \in DOMAIN tx.approved : tx.approved[i] = caller THEN MsAbort
  ELSE LET mine == [tx EXCEPT !.approved = Append(@, caller)]
           kept == [i \in DOMAIN st.pending \cup {id} |-> IF i = id THEN mine ELSE st.pending[i]]
       IN  executeTransaction([st EXCEPT !.pending = kept], id, mine)

\* A message of an account that came to an end: what it executed is recorded.
MsCommit(r, id, approved) ==
  /\ r.ok
  /\ ms' = r.st
  /\ msExecuted' =
       IF ~r.applied THEN msExecuted
       ELSE Append(msExecuted, [id |-> id, by |-> approved, threshold |-> ms.threshold,
                                signers |-> ToSet(ms.signers),
                                paid |-> ms.balance - r.st.balance, left |-> r.st.balance,
                                locked |-> amountLocked(ms, msEpoch - ms.start)])
  /\ UNCHANGED <<msVersion, msEpoch>>

Propose(a, call) ==
  /\ isSigner(ms, a) /\ ms.next < MsMaxTx
  /\ MsCommit(approveTransaction([ms EXCEPT !.next = @ + 1], ms.next,
                                 [call |-> call, approved |-> <<>>], a),
              ms.next, {a})

\* Approve: a transaction that has enough approvals by now is executed at once.
Approve(a, id) ==
  /\ isSigner(ms, a) /\ id \in DOMAIN ms.pending
  /\ LET tx == ms.pending[id]
         r  == executeTransaction(ms, id, tx) IN
     IF r.ok /\ ~r.applied
     THEN MsCommit(approveTransaction(ms, id, tx, a), id, ToSet(tx.approved) \cup {a})
     ELSE MsCommit(r, id, ToSet(tx.approved))

Cancel(a, id) ==
  /\ isSigner(ms, a) /\ id \in DOMAIN ms.pending
  /\ ms.pending[id].approved[1] = a
  /\ ms' = transactionDone(ms, id)
  /\ UNCHANGED <<msVersion, msEpoch, msExecuted>>

MsReceive == /\ ms.balance < MsMaxBalance
             /\ ms' = [ms EXCEPT !.balance = @ + 1]
             /\ UNCHANGED <<msVersion, msEpoch, msExecuted>>

MsEpochPasses == /\ msEpoch < MsMaxEpoch /\ msEpoch' = msEpoch + 1
                 /\ UNCHANGED <<msVersion, ms, msExecuted>>

\* A wallet is made, with or without a lock.
MsInit ==
  /\ msVersion \in MsVersions
  /\ msEpoch = 0 /\ msExecuted = <<>>
  /\ \E t \in 1..2, d \in {0, 3} :
       LET r == MsConstruct(MsFounders, t, 1, d, MsMaxBalance) IN r.ok /\ ms = r.st

MsNext ==
  \/ \E a \in MsAccounts, c \in MsCalls : Propose(a, c)
  \/ \E a \in MsAccounts, id \in 0..MsMaxTx - 1 : Approve(a, id)
  \/ \E a \in MsAccounts, id \in 0..MsMaxTx - 1 : Cancel(a, id)
  \/ MsReceive
  \/ MsEpochPasses

MsSpec == MsInit /\ [][MsNext]_msVars

-----------------------------------------------------------------------------

MsTypeOK ==
  /\ msVersion \in MsVersions /\ msEpoch \in 0..MsMaxEpoch
  /\ IsInjective(ms.signers) /\ ToSet(ms.signers) \subseteq MsAccounts
  /\ ms.next \in 0..MsMaxTx /\ DOMAIN ms.pending \subseteq 0..ms.next - 1

(***************************************************************************)
(* From version 2 a transaction is executed once, by approvals of as many  *)
(* accounts as the threshold asks for, all of them signers at that time;   *)
(* and the threshold can be reached (executeTransaction, purgeApprovals,   *)
(* RemoveSigner).  In version 0 approvals of former signers count and a    *)
(* threshold of one can be lowered.                                        *)
(***************************************************************************)
ExecutedByQuorum ==
  /\ \A i, j \in DOMAIN msExecuted : msExecuted[i].id = msExecuted[j].id => i = j
  /\ msVersion >= 2 =>
       /\ ms.threshold \in 1..Len(ms.signers)
       /\ \A i \in DOMAIN msExecuted :
            LET e == msExecuted[i]
            IN  e.by \subseteq e.signers /\ Cardinality(e.by) >= e.threshold

\* No payment goes below what is locked at that time (assertAvailable).
LockedIsKept ==
  \A i \in DOMAIN msExecuted : msExecuted[i].paid > 0 => msExecuted[i].left >= msExecuted[i].locked

\* A wallet acts only by its quorum and only with what is not locked
\* (MultisigActor).
WalletIsSound == ExecutedByQuorum /\ LockedIsKept
=============================================================================
