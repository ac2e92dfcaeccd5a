--------------------------- MODULE MultisigProofs ---------------------------
(***************************************************************************)
(* Proofs about the multisig actor, for any accounts, calls and bounds.    *)
(* The invariant says of the wallet that its lists have an account once,   *)
(* that open transactions have numbers given out before, and, from version *)
(* 2 on, that their approvals are of signers and that the threshold can be *)
(* reached; of what was executed, that its number is given out and no      *)
(* longer open.  Every method that can be called keeps the first part.     *)
(***************************************************************************)
EXTENDS Multisig, FiniteSetTheorems, SequenceTheorems, TLAPS

MsTx == [call : MsCalls, approved : Seq(MsAccounts)]
MsTables == UNION {[D -> MsTx] : D \in SUBSET Nat}
MsStates ==
  [signers : Seq(MsAccounts), threshold : Nat, next : Nat, pending : MsTables,
   balance : Int, initial : Int, start : Int, duration : Int]
MsExecutions ==
  [id : Nat, by : SUBSET MsAccounts, threshold : Nat, signers : SUBSET MsAccounts,
   paid : Int, left : Int, locked : Int]

\* Of the wallet; A are accounts whose approvals are tolerated.
MsFitsBut(st, A) ==
  /\ st \in MsStates
  /\ IsInjective(st.signers)
  /\ DOMAIN st.pending \subseteq 0..st.next - 1
  /\ \A i \in DOMAIN st.pending : IsInjective(st.pending[i].approved)
  /\ msVersion >= 2 =>
       /\ st.threshold \in 1..Len(st.signers) /\ Len(st.signers) <= MsSignersMax
       /\ \A i \in DOMAIN st.pending :
            ToSet(st.pending[i].approved) \subseteq ToSet(st.signers) \cup A
MsFits(st) == MsFitsBut(st, {})

MsIInv ==
  /\ msVersion \in MsVersions /\ msEpoch \in 0..MsMaxEpoch
  /\ MsFits(ms) /\ ms.next <= MsMaxTx
  /\ msExecuted \in Seq(MsExecutions)
  /\ \A i \in DOMAIN msExecuted :
       msExecuted[i].id < ms.next /\ msExecuted[i].id \notin DOMAIN ms.pending
  /\ WalletIsSound

\* What a method the wallet calls on itself leaves as it was.
MsKept(st, x) ==
  /\ MsFits(x) /\ x.next = st.next /\ x.balance = st.balance
  /\ DOMAIN x.pending \subseteq DOMAIN st.pending

-----------------------------------------------------------------------------
(* Lists of accounts                                                       *)

\* An account appended to a list that does not have it (AddSigner, the
\* approvals of approveTransaction).
LEMMA MsAppended ==
  ASSUME NEW S, NEW q \in Seq(S), NEW a \in S, IsInjective(q), a \notin ToSet(q)
  PROVE  /\ Append(q, a) \in Seq(S) /\ IsInjective(Append(q, a))
         /\ ToSet(Append(q, a)) = ToSet(q) \cup {a}
         /\ Len(Append(q, a)) = Len(q) + 1
<1>1. /\ Append(q, a) \in Seq(S) /\ Len(Append(q, a)) = Len(q) + 1
      /\ \A i \in 1..Len(q) : Append(q, a)[i] = q[i]
      /\ Append(q, a)[Len(q) + 1] = a
  OBVIOUS
<1>2. Len(q) \in Nat /\ DOMAIN q = 1..Len(q) /\ DOMAIN Append(q, a) = 1..Len(q) + 1
  BY <1>1
<1>3. \A i \in 1..Len(q) : q[i] # a
  BY <1>2, Zenon DEF ToSet
<1>4. IsInjective(Append(q, a))
  BY <1>1, <1>2, <1>3 DEF IsInjective
<1>5. ToSet(Append(q, a)) = ToSet(q) \cup {a}
  BY <1>1, <1>2 DEF ToSet
<1> QED BY <1>1, <1>4, <1>5, Zenon

\* An account erased from a list (RemoveSigner, SwapSigner, purgeApprovals).
LEMMA MsErased ==
  ASSUME NEW S, NEW q \in Seq(S), NEW a, IsInjective(q)
  PROVE  /\ MsWithout(q, a) \in Seq(S) /\ IsInjective(MsWithout(q, a))
         /\ ToSet(MsWithout(q, a)) = ToSet(q) \ {a}
         /\ Len(MsWithout(q, a)) = IF a \in ToSet(q) THEN Len(q) - 1 ELSE Len(q)
<1>0. Len(q) \in Nat /\ DOMAIN q = 1..Len(q)
  OBVIOUS
<1>1. CASE a \notin ToSet(q)
  BY <1>1, Zenon DEF MsWithout
<1>2. CASE a \in ToSet(q)
  <2> DEFINE k == CHOOSE i \in DOMAIN q : q[i] = a
             u == SubSeq(q, 1, k - 1)
             v == SubSeq(q, k + 1, Len(q))
             w == MsWithout(q, a)
  <2>1. k \in 1..Len(q) /\ q[k] = a
    BY <1>0, <1>2, Zenon DEF ToSet
  <2>2. w = u \o v
    BY <1>2, Zenon DEF MsWithout, RemoveAt
  <2> HIDE DEF k
  <2>3. u \in Seq(S) /\ Len(u) = k - 1 /\ \A i \in 1..k - 1 : u[i] = q[i]
    BY <1>0, <2>1
  <2>4. v \in Seq(S) /\ Len(v) = Len(q) - k /\ \A i \in 1..Len(q) - k : v[i] = q[k + i]
    <3>1. v \in Seq(S) /\ Len(v) = Len(q) - k
      <4>1. k + 1 \in Int /\ Len(q) \in Int /\ \A i \in k + 1..Len(q) : q[i] \in S
        BY <1>0, <2>1
      <4>2. v \in Seq(S) /\ Len(v) = IF k + 1 <= Len(q) THEN Len(q) - (k + 1) + 1 ELSE 0
        BY <4>1, SubSeqProperties, Zenon
      <4> HIDE DEF v
      <4>3. k \in Int /\ Len(q) \in Int /\ k <= Len(q)
        BY <1>0, <2>1
      <4>4. (IF k + 1 <= Len(q) THEN Len(q) - (k + 1) + 1 ELSE 0) = Len(q) - k
        BY <4>3
      <4> QED BY <4>2, <4>4
    <3>2. ASSUME NEW i \in 1..Len(q) - k PROVE v[i] = q[k + i]
      BY <1>0, <2>1
    <3> QED BY <3>1, <3>2, Zenon
  <2> HIDE DEF u, v, w
  <2>5. w \in Seq(S) /\ Len(w) = Len(q) - 1
    <3>1. w \in Seq(S) /\ Len(w) = Len(u) + Len(v)
      BY <2>2, <2>3, <2>4, ConcatProperties, Zenon
    <3> QED BY <3>1, <1>0, <2>1, <2>3, <2>4
  <2>6. \A i \in 1..Len(q) - 1 : w[i] = IF i < k THEN q[i] ELSE q[i + 1]
    <3> SUFFICES ASSUME NEW i \in 1..Len(q) - 1 PROVE w[i] = IF i < k THEN q[i] ELSE q[i + 1]
      BY Zenon
    <3>1. w[i] = IF i <= Len(u) THEN u[i] ELSE v[i - Len(u)]
      BY <1>0, <2>1, <2>2, <2>3, <2>4
    <3>2. CASE i < k
      BY <3>1, <3>2, <1>0, <2>1, <2>3
    <3>3. CASE ~(i < k)
      <4>1. i - Len(u) \in 1..Len(q) - k /\ k + (i - Len(u)) = i + 1 /\ ~(i <= Len(u))
        BY <3>3, <1>0, <2>1, <2>3
      <4> QED BY <4>1, <3>1, <3>3, <2>4, Zenon
    <3> QED BY <3>2, <3>3, Zenon
  <2>7. DOMAIN w = 1..Len(q) - 1
    BY <2>5
  <2>8. IsInjective(w)
    <3> SUFFICES ASSUME NEW i \in 1..Len(q) - 1, NEW j \in 1..Len(q) - 1, w[i] = w[j] PROVE i = j
      BY <2>7, Zenon DEF IsInjective
    <3>1. \A m, n \in 1..Len(q) : q[m] = q[n] => m = n
      BY <1>0, Zenon DEF IsInjective
    <3> QED BY <1>0, <2>1, <2>6, <3>1
  <2>9. ToSet(w) = ToSet(q) \ {a}
    <3>1. ASSUME NEW i \in 1..Len(q) - 1 PROVE w[i] \in ToSet(q) \ {a}
      <4>1. \A m \in 1..Len(q) : q[m] = a => m = k
        BY <1>0, <2>1, Zenon DEF IsInjective
      <4> QED BY <1>0, <2>1, <2>6, <4>1 DEF ToSet
    <3>2. ASSUME NEW m \in 1..Len(q), q[m] # a PROVE \E i \in 1..Len(q) - 1 : w[i] = q[m]
      <4>1. CASE m < k
        BY <4>1, <1>0, <2>1, <2>6
      <4>2. CASE m > k
        <5>1. m - 1 \in 1..Len(q) - 1 /\ w[m - 1] = q[m]
          BY <4>2, <1>0, <2>1, <2>6
        <5> QED BY <5>1, Zenon
      <4> QED BY <4>1, <4>2, <2>1, <3>2
    <3>3. ToSet(w) = {w[i] : i \in 1..Len(q) - 1} /\ ToSet(q) = {q[m] : m \in 1..Len(q)}
      BY <1>0, <2>7, Zenon DEF ToSet
    <3>4. ToSet(w) \subseteq ToSet(q) \ {a}
      BY <3>1, <3>3, Zenon
    <3>5. ASSUME NEW x \in ToSet(q) \ {a} PROVE x \in ToSet(w)
      <4>1. PICK m \in 1..Len(q) : q[m] = x
        BY <3>3, Zenon
      <4> QED BY <4>1, <3>2, <3>3, Zenon
    <3> QED BY <3>4, <3>5, Zenon
  <2> QED BY <1>2, <2>5, <2>8, <2>9, Zenon DEF w
<1> QED BY <1>1, <1>2, Zenon

\* A list that has every account once has as many as it is long.
LEMMA MsCounted ==
  ASSUME NEW S, NEW q \in Seq(S), IsInjective(q)
  PROVE  IsFiniteSet(ToSet(q)) /\ Cardinality(ToSet(q)) = Len(q)
<1>1. Len(q) \in Nat /\ DOMAIN q = 1..Len(q)
  OBVIOUS
<1>2. q \in [1..Len(q) -> ToSet(q)]
  BY <1>1 DEF ToSet
<1>3. q \in Bijection(1..Len(q), ToSet(q))
  BY <1>1, <1>2, Zenon DEF Bijection, Injection, Surjection, IsInjective, ToSet
<1>4. ExistsBijection(1..Len(q), ToSet(q))
  BY <1>3, Zenon DEF ExistsBijection
<1>5. IsFiniteSet(1..Len(q)) /\ Cardinality(1..Len(q)) = Len(q)
  BY <1>1, FS_Interval
<1> QED BY <1>4, <1>5, FS_Bijection, Zenon

-----------------------------------------------------------------------------
(* The methods                                                             *)

\* The table of open transactions, told by its parts.
LEMMA MsTable ==
  ASSUME NEW p
  PROVE  p \in MsTables <=> /\ p = [i \in DOMAIN p |-> p[i]] /\ DOMAIN p \subseteq Nat
                            /\ \A i \in DOMAIN p : p[i] \in MsTx
<1>1. ASSUME p \in MsTables
      PROVE  /\ p = [i \in DOMAIN p |-> p[i]] /\ DOMAIN p \subseteq Nat
             /\ \A i \in DOMAIN p : p[i] \in MsTx
  <2>1. PICK D \in SUBSET Nat : p \in [D -> MsTx]
    BY <1>1, Zenon DEF MsTables
  <2> QED BY <2>1, Zenon
<1>2. ASSUME p = [i \in DOMAIN p |-> p[i]], DOMAIN p \subseteq Nat, \A i \in DOMAIN p : p[i] \in MsTx
      PROVE  p \in MsTables
  <2>1. p \in [DOMAIN p -> MsTx]
    BY <1>2, Zenon
  <2> QED BY <2>1, <1>2, Zenon DEF MsTables
<1> QED BY <1>1, <1>2, Zenon

\* A smaller table, or one with other approvals in it, is a table.
LEMMA MsTableOf ==
  ASSUME NEW D \in SUBSET Nat, NEW f, \A i \in D : f[i] \in MsTx
  PROVE  [i \in D |-> f[i]] \in MsTables
<1>1. [i \in D |-> f[i]] \in [D -> MsTx]
  BY Zenon
<1> QED BY <1>1, Zenon DEF MsTables

\* purgeApprovals takes the approvals of a former signer away.
LEMMA MsPurged ==
  ASSUME NEW st, NEW a, MsFitsBut(st, {a}), a \notin ToSet(st.signers), msVersion \in MsVersions
  PROVE  MsKept(st, purgeApprovals(st, a))
<1>1. CASE msVersion = 0
  <2>1. purgeApprovals(st, a) = st
    BY <1>1, Zenon DEF purgeApprovals
  <2>2. MsFits(st)
    BY <1>1 DEF MsFits, MsFitsBut
  <2> QED BY <2>1, <2>2, Zenon DEF MsKept
<1>2. CASE msVersion # 0
  <2> DEFINE left == [i \in DOMAIN st.pending |-> MsWithout(st.pending[i].approved, a)]
             D == {j \in DOMAIN st.pending : left[j] # <<>>}
             f == [i \in D |-> [st.pending[i] EXCEPT !.approved = left[i]]]
             x == [st EXCEPT !.pending = f]
  <2>1. purgeApprovals(st, a) = x
    BY <1>2, Zenon DEF purgeApprovals
  <2>2. /\ st \in MsStates /\ st.pending \in MsTables /\ D \subseteq DOMAIN st.pending
        /\ DOMAIN st.pending \subseteq 0..st.next - 1
    BY Zenon DEF MsFitsBut, MsStates
  <2>3. \A i \in DOMAIN st.pending : st.pending[i] \in MsTx /\ i \in Nat
    BY <2>2, MsTable, Zenon
  <2>4. ASSUME NEW i \in DOMAIN st.pending
        PROVE  /\ left[i] \in Seq(MsAccounts) /\ IsInjective(left[i])
               /\ ToSet(left[i]) = ToSet(st.pending[i].approved) \ {a}
    <3>1. st.pending[i].approved \in Seq(MsAccounts) /\ IsInjective(st.pending[i].approved)
      BY <2>3, Zenon DEF MsTx, MsFitsBut
    <3>2. left[i] = MsWithout(st.pending[i].approved, a)
      BY Zenon
    <3> HIDE DEF left
    <3> QED BY <3>1, <3>2, MsErased
  <2> HIDE DEF left
  <2>5. ASSUME NEW i \in D
        PROVE  f[i] \in MsTx /\ f[i].approved = left[i]
    BY <2>3, <2>4, Zenon DEF MsTx
  <2>6. f \in MsTables /\ DOMAIN f = D
    <3>1. f \in [D -> MsTx] /\ D \in SUBSET Nat
      BY <2>3, <2>5, Zenon
    <3> QED BY <3>1, Zenon DEF MsTables
  <2> HIDE DEF f, D
  <2>7. /\ x \in MsStates /\ x.pending = f /\ x.signers = st.signers /\ x.threshold = st.threshold
        /\ x.next = st.next /\ x.balance = st.balance
    BY <2>2, <2>6, Zenon DEF MsStates
  <2> HIDE DEF x
  <2>8. MsFits(x)
    <3>1. IsInjective(x.signers) /\ DOMAIN x.pending \subseteq 0..x.next - 1
      BY <2>2, <2>6, <2>7, Zenon DEF MsFitsBut
    <3>2. \A i \in DOMAIN x.pending : IsInjective(x.pending[i].approved)
      BY <2>2, <2>4, <2>5, <2>6, <2>7, Zenon
    <3>3. ASSUME msVersion >= 2
          PROVE  /\ x.threshold \in 1..Len(x.signers) /\ Len(x.signers) <= MsSignersMax
                 /\ \A i \in DOMAIN x.pending :
                      ToSet(x.pending[i].approved) \subseteq ToSet(x.signers) \cup {}
      <4>1. ASSUME NEW i \in DOMAIN x.pending
            PROVE  ToSet(x.pending[i].approved) \subseteq ToSet(x.signers)
        <5>1. i \in D /\ i \in DOMAIN st.pending /\ x.pending[i].approved = left[i]
          BY <2>2, <2>5, <2>6, <2>7, Zenon
        <5>2. ToSet(left[i]) = ToSet(st.pending[i].approved) \ {a}
          BY <5>1, <2>4, Zenon
        <5>3. ToSet(st.pending[i].approved) \subseteq ToSet(st.signers) \cup {a}
          BY <5>1, <3>3, Zenon DEF MsFitsBut
        <5> QED BY <5>1, <5>2, <5>3, <2>7, Zenon
      <4> QED BY <4>1, <3>3, <2>7, Zenon DEF MsFitsBut
    <3> QED BY <2>7, <3>1, <3>2, <3>3, Zenon DEF MsFits, MsFitsBut
  <2> QED BY <2>1, <2>2, <2>6, <2>7, <2>8, Zenon DEF MsKept
<1> QED BY <1>1, <1>2, Zenon

\* AddSigner, RemoveSigner, SwapSigner, ChangeThreshold and LockBalance abort,
\* or leave a wallet whose threshold can be reached.
LEMMA MsMethods ==
  ASSUME NEW st, MsFits(st), NEW c \in MsCalls, msVersion \in MsVersions, c.method # "Send",
         (MsSend(st, c)).ok
  PROVE  MsKept(st, (MsSend(st, c)).st)
<1> DEFINE r == MsSend(st, c)
<1>0. /\ MsParameters(c) /\ msVersion \in {0, 2, 3}
      /\ MsSignersMax \in Nat /\ MsWord \in Nat /\ MsSignersMax < MsWord
  BY MsAssumption, Zenon
<1>1. /\ st \in MsStates /\ st.signers \in Seq(MsAccounts) /\ st.threshold \in Nat
      /\ Len(st.signers) \in Nat /\ DOMAIN st.signers = 1..Len(st.signers)
      /\ IsInjective(st.signers)
  BY DEF MsFits, MsFitsBut, MsStates
<1>2. \A a : isSigner(st, a) <=> a \in ToSet(st.signers)
  BY Zenon DEF isSigner, ToSet
<1>3. \A b : MsOk(b).ok = TRUE /\ MsOk(b).st = b
  BY Zenon DEF MsOk
<1>4. MsAbort.ok = FALSE
  BY Zenon DEF MsAbort
<1>5. CASE c.method = "AddSigner"
  <2>1. r = addSigner(st, c) /\ c.signer \in MsAccounts /\ c.change \in BOOLEAN
    BY <1>5, <1>0, Zenon DEF MsSend, MsParameters
  <2>2. ~isSigner(st, c.signer) /\ ~tooManySigners(Len(st.signers) + 1)
    BY <2>1, <1>4, Zenon DEF addSigner
  <2> DEFINE q == Append(st.signers, c.signer)
             n == IF c.change THEN MsIncremented(st.threshold) ELSE st.threshold
             x == [st EXCEPT !.signers = q, !.threshold = n]
  <2>3. r.st = x
    BY <2>1, <2>2, <1>3, Zenon DEF addSigner
  <2>4. /\ q \in Seq(MsAccounts) /\ IsInjective(q) /\ Len(q) = Len(st.signers) + 1
        /\ ToSet(q) = ToSet(st.signers) \cup {c.signer}
    BY <2>1, <2>2, <1>1, <1>2, MsAppended
  <2> HIDE DEF q
  <2>5. n \in Nat
    BY <1>0, <1>1 DEF MsIncremented
  <2>6. ASSUME msVersion >= 2
        PROVE  n \in 1..Len(q) /\ Len(q) <= MsSignersMax
    <3>1. Len(q) <= MsSignersMax
      BY <2>2, <2>4, <2>6, <1>0, <1>1 DEF tooManySigners
    <3>2. st.threshold \in 1..Len(st.signers)
      BY <2>6, Zenon DEF MsFits, MsFitsBut
    <3> QED BY <3>1, <3>2, <2>4, <1>0, <1>1 DEF MsIncremented
  <2> HIDE DEF n
  <2>7. /\ x \in MsStates /\ x.signers = q /\ x.threshold = n /\ x.pending = st.pending
        /\ x.next = st.next /\ x.balance = st.balance
    BY <1>1, <2>4, <2>5, Zenon DEF MsStates
  <2> HIDE DEF x
  <2>8. MsFits(x)
    BY <2>4, <2>6, <2>7, Zenon DEF MsFits, MsFitsBut
  <2> QED BY <2>3, <2>7, <2>8, Zenon DEF MsKept
<1>6. CASE c.method = "RemoveSigner"
  <2>1. r = removeSigner(st, c) /\ c.signer \in MsAccounts /\ c.change \in BOOLEAN
    BY <1>6, <1>0, Zenon DEF MsSend, MsParameters
  <2>2. /\ isSigner(st, c.signer) /\ Len(st.signers) # 1 /\ ~lowersTooFar(st, c)
        /\ c.change \/ ~(Len(st.signers) - 1 < st.threshold)
    BY <2>1, <1>4, Zenon DEF removeSigner
  <2> DEFINE q == MsWithout(st.signers, c.signer)
             n == IF c.change THEN MsDecremented(st.threshold) ELSE st.threshold
             x == [st EXCEPT !.threshold = n, !.signers = q]
  <2>3. r.st = purgeApprovals(x, c.signer)
    BY <2>1, <2>2, <1>3, Zenon DEF removeSigner
  <2>4. /\ q \in Seq(MsAccounts) /\ IsInjective(q) /\ Len(q) = Len(st.signers) - 1
        /\ ToSet(q) = ToSet(st.signers) \ {c.signer}
    BY <2>2, <1>1, <1>2, MsErased, Zenon
  <2> HIDE DEF q
  <2>5. n \in Nat
    BY <1>0, <1>1 DEF MsDecremented
  <2>6. ASSUME msVersion >= 2
        PROVE  n \in 1..Len(q) /\ Len(q) <= MsSignersMax
    <3>1. st.threshold \in 1..Len(st.signers) /\ Len(st.signers) <= MsSignersMax
      BY <2>6, Zenon DEF MsFits, MsFitsBut
    <3>2. CASE c.change
      <4>1. st.threshold >= 2 /\ n = st.threshold - 1
        BY <3>1, <3>2, <2>2, <2>6, <1>1 DEF lowersTooFar, MsDecremented
      <4> QED BY <4>1, <3>1, <2>4, <1>0, <1>1
    <3>3. CASE ~c.change
      BY <3>1, <3>3, <2>2, <2>4, <1>0, <1>1
    <3> QED BY <3>2, <3>3, Zenon
  <2> HIDE DEF n
  <2>7. /\ x \in MsStates /\ x.signers = q /\ x.threshold = n /\ x.pending = st.pending
        /\ x.next = st.next /\ x.balance = st.balance
    BY <1>1, <2>4, <2>5, Zenon DEF MsStates
  <2> HIDE DEF x
  <2>8. MsFitsBut(x, {c.signer})
    BY <2>4, <2>6, <2>7, Zenon DEF MsFits, MsFitsBut
  <2>9. MsKept(x, purgeApprovals(x, c.signer))
    BY <2>4, <2>7, <2>8, MsPurged, Zenon
  <2> QED BY <2>3, <2>7, <2>9, Zenon DEF MsKept
<1>7. CASE c.method = "SwapSigner"
  <2>1. r = swapSigner(st, c) /\ c.from \in MsAccounts /\ c.to \in MsAccounts
    BY <1>7, <1>0, Zenon DEF MsSend, MsParameters
  <2>2. isSigner(st, c.from) /\ ~isSigner(st, c.to)
    BY <2>1, <1>4, Zenon DEF swapSigner
  <2> DEFINE p == MsWithout(st.signers, c.from)
             q == Append(p, c.to)
             x == [st EXCEPT !.signers = q]
  <2>3. r.st = purgeApprovals(x, c.from)
    BY <2>1, <2>2, <1>3, Zenon DEF swapSigner
  <2>4. /\ p \in Seq(MsAccounts) /\ IsInjective(p) /\ Len(p) = Len(st.signers) - 1
        /\ ToSet(p) = ToSet(st.signers) \ {c.from}
    BY <2>2, <1>1, <1>2, MsErased, Zenon
  <2> HIDE DEF p
  <2>5. /\ q \in Seq(MsAccounts) /\ IsInjective(q) /\ Len(q) = Len(p) + 1
        /\ ToSet(q) = ToSet(p) \cup {c.to}
    BY <2>1, <2>2, <2>4, <1>2, MsAppended
  <2> HIDE DEF q
  <2>6. Len(q) = Len(st.signers) /\ c.from \notin ToSet(q)
    BY <2>2, <2>4, <2>5, <1>1, <1>2
  <2>7. /\ x \in MsStates /\ x.signers = q /\ x.threshold = st.threshold /\ x.pending = st.pending
        /\ x.next = st.next /\ x.balance = st.balance
    BY <1>1, <2>5, Zenon DEF MsStates
  <2> HIDE DEF x
  <2>8. MsFitsBut(x, {c.from})
    BY <2>4, <2>5, <2>6, <2>7, Zenon DEF MsFits, MsFitsBut
  <2>9. MsKept(x, purgeApprovals(x, c.from))
    BY <2>6, <2>7, <2>8, MsPurged, Zenon
  <2> QED BY <2>3, <2>7, <2>9, Zenon DEF MsKept
<1>8. CASE c.method = "ChangeThreshold"
  <2>1. r = changeThreshold(st, c) /\ c.threshold \in Nat
    BY <1>8, <1>0 DEF MsSend, MsParameters
  <2>2. c.threshold # 0 /\ ~(c.threshold > Len(st.signers))
    BY <2>1, <1>4, Zenon DEF changeThreshold
  <2> DEFINE x == [st EXCEPT !.threshold = c.threshold]
  <2>3. r.st = x
    BY <2>1, <2>2, <1>3, Zenon DEF changeThreshold
  <2>4. /\ x \in MsStates /\ x.signers = st.signers /\ x.threshold = c.threshold
        /\ x.pending = st.pending /\ x.next = st.next /\ x.balance = st.balance
    BY <1>1, <2>1, Zenon DEF MsStates
  <2> HIDE DEF x
  <2>5. c.threshold \in 1..Len(st.signers)
    BY <1>1, <2>1, <2>2
  <2>6. MsFits(x)
    BY <2>4, <2>5, Zenon DEF MsFits, MsFitsBut
  <2> QED BY <2>3, <2>4, <2>6, Zenon DEF MsKept
<1>9. CASE c.method = "LockBalance"
  <2>1. r = lockBalance(st, c) /\ c.start \in Int /\ c.duration \in Int /\ c.amount \in Int
    BY <1>9, <1>0, Zenon DEF MsSend, MsParameters
  <2> DEFINE x == [st EXCEPT !.start = c.start, !.duration = c.duration, !.initial = c.amount]
  <2>2. r.st = x
    BY <2>1, <1>3, <1>4, Zenon DEF lockBalance
  <2>3. /\ x \in MsStates /\ x.signers = st.signers /\ x.threshold = st.threshold
        /\ x.pending = st.pending /\ x.next = st.next /\ x.balance = st.balance
    BY <1>1, <2>1, Zenon DEF MsStates
  <2> HIDE DEF x
  <2>4. MsFits(x)
    BY <2>3, Zenon DEF MsFits, MsFitsBut
  <2> QED BY <2>2, <2>3, <2>4, Zenon DEF MsKept
<1> QED BY <1>0, <1>5, <1>6, <1>7, <1>8, <1>9, Zenon DEF MsParameters

-----------------------------------------------------------------------------
(* Executing a transaction                                                 *)

\* What is locked depends on the lock only.
LEMMA MsLockedSame ==
  ASSUME NEW x, NEW y, NEW e, x.initial = y.initial, x.duration = y.duration
  PROVE  amountLocked(x, e) = amountLocked(y, e)
  BY Zenon DEF amountLocked, amountLockedOld

\* amountLocked divides by the duration of a lock only when there is one.
LEMMA MsLockedInt ==
  ASSUME NEW x, x.initial \in Int, x.duration \in Int, NEW e \in Int, msVersion \in {0, 2, 3}
  PROVE  amountLocked(x, e) \in Int
<1>1. CASE e >= x.duration
  BY <1>1 DEF amountLocked
<1>2. CASE ~(e >= x.duration) /\ (e < 0 \/ (msVersion >= 2 /\ e = 0))
  BY <1>2, Zenon DEF amountLocked
<1>3. CASE ~(e >= x.duration) /\ ~(e < 0 \/ (msVersion >= 2 /\ e = 0))
  <2>1. x.duration > 0 /\ x.duration - e \in Int
    BY <1>3
  <2>2. CASE msVersion = 0
    <3>1. amountLocked(x, e) = (x.initial \div x.duration) * (x.duration - e)
      BY <1>3, <2>2, Zenon DEF amountLocked, amountLockedOld
    <3>2. x.initial \div x.duration \in Int
      BY <2>1
    <3> QED BY <3>1, <3>2, <2>1
  <2>3. CASE msVersion # 0
    <3> DEFINE n == x.initial * (x.duration - e)
    <3>1. amountLocked(x, e) = -((-n) \div x.duration)
      BY <1>3, <2>3, Zenon DEF amountLocked
    <3>2. -n \in Int
      BY <2>1
    <3> HIDE DEF n
    <3>3. (-n) \div x.duration \in Int
      BY <2>1, <3>2
    <3> QED BY <3>1, <3>3
  <2> QED BY <2>2, <2>3, Zenon
<1> QED BY <1>1, <1>2, <1>3, Zenon

\* A payment leaves what is locked when it is made.
MsPays(st, x) ==
  st.balance - x.balance > 0 => x.balance >= amountLocked(st, msEpoch - st.start)

\* A transaction that is done leaves the table.
LEMMA MsDone ==
  ASSUME NEW st, MsFits(st), NEW id
  PROVE  LET x == transactionDone(st, id)
         IN  MsKept(st, x) /\ id \notin DOMAIN x.pending
<1> DEFINE D == DOMAIN st.pending \ {id}
           f == [i \in D |-> st.pending[i]]
           x == [st EXCEPT !.pending = f]
<1>1. transactionDone(st, id) = x
  BY Zenon DEF transactionDone, Restrict
<1>2. st \in MsStates /\ st.pending \in MsTables
  BY Zenon DEF MsFits, MsFitsBut, MsStates
<1>3. DOMAIN st.pending \subseteq Nat /\ \A i \in DOMAIN st.pending : st.pending[i] \in MsTx
  BY <1>2, MsTable, Zenon
<1>4. f \in MsTables /\ DOMAIN f = D /\ \A i \in D : f[i] = st.pending[i]
  <2>1. f \in [D -> MsTx] /\ D \in SUBSET Nat
    BY <1>3, Zenon
  <2> QED BY <2>1, Zenon DEF MsTables
<1> HIDE DEF f
<1>5. /\ x \in MsStates /\ x.signers = st.signers /\ x.threshold = st.threshold
      /\ x.pending = f /\ x.next = st.next /\ x.balance = st.balance
  BY <1>2, <1>4, Zenon DEF MsStates
<1> HIDE DEF x
<1>6. MsFits(x)
  BY <1>4, <1>5, Zenon DEF MsFits, MsFitsBut
<1> QED BY <1>1, <1>4, <1>5, <1>6, Zenon DEF MsKept

\* What executeTransaction does: nothing while approvals are missing;
\* otherwise the transaction is done, and a payment leaves what is locked.
LEMMA MsExecutes ==
  ASSUME NEW st, MsFits(st), NEW id, NEW tx \in MsTx, msVersion \in MsVersions,
         NEW r, r = executeTransaction(st, id, tx), r.ok
  PROVE  /\ r.applied \in BOOLEAN
         /\ ~r.applied => r.st = st
         /\ r.applied =>
              /\ MsFits(r.st) /\ r.st.next = st.next
              /\ DOMAIN r.st.pending \subseteq DOMAIN st.pending /\ id \notin DOMAIN r.st.pending
              /\ Len(tx.approved) >= st.threshold
              /\ MsPays(st, r.st)
<1>0. /\ st \in MsStates /\ st.balance \in Int /\ st.threshold \in Nat
      /\ tx.call \in MsCalls /\ tx.approved \in Seq(MsAccounts) /\ Len(tx.approved) \in Nat
  BY DEF MsFits, MsFitsBut, MsStates, MsTx
<1>1. CASE Len(tx.approved) < st.threshold
  BY <1>1, Zenon DEF executeTransaction
<1>2. CASE ~(Len(tx.approved) < st.threshold)
  <2> DEFINE sent  == MsSend(st, tx.call)
             after == IF sent.ok THEN sent.st ELSE st
  <2>1. assertAvailable(st, MsValue(tx.call))
    BY <1>2, Zenon DEF executeTransaction, MsAbort
  <2>2. r = [ok |-> TRUE, applied |-> TRUE, st |-> transactionDone(after, id)]
    BY <1>2, <2>1, Zenon DEF executeTransaction
  <2>3. /\ MsFits(after) /\ after.next = st.next /\ DOMAIN after.pending \subseteq DOMAIN st.pending
        /\ MsPays(st, after)
    <3>1. CASE ~sent.ok
      <4>1. after = st
        BY <3>1, Zenon
      <4> HIDE DEF after
      <4> QED BY <4>1, <1>0 DEF MsPays
    <3>2. CASE sent.ok /\ tx.call.method # "Send"
      <4>1. MsKept(st, sent.st) /\ after = sent.st
        BY <3>2, <1>0, MsMethods, Zenon
      <4> HIDE DEF after, sent
      <4> QED BY <4>1, <1>0 DEF MsKept, MsPays
    <3>3. CASE sent.ok /\ tx.call.method = "Send"
      <4> DEFINE v == tx.call.value
                 x == [st EXCEPT !.balance = @ - v]
      <4>1. MsParameters(tx.call)
        BY <1>0, MsAssumption, Zenon
      <4>2. v \in Int /\ MsValue(tx.call) = v
        BY <3>3, <4>1, Zenon DEF MsParameters, MsValue
      <4>3. after = x
        BY <3>3, Zenon DEF MsSend, MsOk
      <4> HIDE DEF v, after
      <4>4. /\ x \in MsStates /\ x.signers = st.signers /\ x.threshold = st.threshold
            /\ x.pending = st.pending /\ x.next = st.next /\ x.balance = st.balance - v
        BY <1>0, <4>2, SMTT(40) DEF MsStates
      <4> HIDE DEF x
      <4>5. MsFits(x)
        BY <4>4, Zenon DEF MsFits, MsFitsBut
      <4>6. v > 0 => st.balance - v >= amountLocked(st, msEpoch - st.start)
        BY <2>1, <4>2 DEF assertAvailable
      <4>7. MsPays(st, x)
        BY <4>2, <4>4, <4>6, <1>0 DEF MsPays
      <4> QED BY <4>3, <4>4, <4>5, <4>7, Zenon
    <3> QED BY <3>1, <3>2, <3>3, Zenon
  <2> HIDE DEF after
  <2> DEFINE y == transactionDone(after, id)
  <2>4. MsKept(after, y) /\ id \notin DOMAIN y.pending
    BY <2>3, MsDone, Zenon
  <2>5. r.applied = TRUE /\ r.st = y
    BY <2>2
  <2> HIDE DEF y
  <2>6. MsFits(y) /\ y.next = st.next /\ y.balance = after.balance /\ DOMAIN y.pending \subseteq DOMAIN st.pending
    BY <2>3, <2>4, Zenon DEF MsKept
  <2>7. MsPays(st, y)
    BY <2>3, <2>6, Zenon DEF MsPays
  <2>8. Len(tx.approved) >= st.threshold
    BY <1>0, <1>2
  <2> QED BY <2>4, <2>5, <2>6, <2>7, <2>8, Zenon
<1> QED BY <1>1, <1>2, Zenon

\* What approveTransaction does: the caller is no approver yet; with the
\* caller the transaction is open or, if that is enough, executed.
LEMMA MsApproves ==
  ASSUME NEW st, MsFits(st), NEW id \in 0..st.next - 1, NEW tx \in MsTx, IsInjective(tx.approved),
         msVersion >= 2 => ToSet(tx.approved) \subseteq ToSet(st.signers),
         NEW caller \in MsAccounts, isSigner(st, caller), msVersion \in MsVersions,
         NEW r, r = approveTransaction(st, id, tx, caller), r.ok
  PROVE  /\ r.applied \in BOOLEAN /\ caller \notin ToSet(tx.approved)
         /\ MsFits(r.st) /\ r.st.next = st.next
         /\ DOMAIN r.st.pending \subseteq DOMAIN st.pending \cup {id}
         /\ r.applied =>
              /\ id \notin DOMAIN r.st.pending
              /\ Len(tx.approved) + 1 >= st.threshold
              /\ MsPays(st, r.st)
<1> DEFINE q == Append(tx.approved, caller)
           mine == [tx EXCEPT !.approved = q]
           kept == [i \in DOMAIN st.pending \cup {id} |-> IF i = id THEN mine ELSE st.pending[i]]
           x == [st EXCEPT !.pending = kept]
<1>1. ~\E i \in DOMAIN tx.approved : tx.approved[i] = caller
  BY Zenon DEF approveTransaction, MsAbort
<1>2. caller \notin ToSet(tx.approved)
  BY <1>1, Zenon DEF ToSet
<1>3. r = executeTransaction(x, id, mine)
  BY <1>1, Zenon DEF approveTransaction
<1>4. tx.call \in MsCalls /\ tx.approved \in Seq(MsAccounts)
  BY Zenon DEF MsTx
<1>5. /\ q \in Seq(MsAccounts) /\ IsInjective(q) /\ ToSet(q) = ToSet(tx.approved) \cup {caller}
      /\ Len(q) = Len(tx.approved) + 1
  BY <1>2, <1>4, MsAppended
<1> HIDE DEF q
<1>6. mine \in MsTx /\ mine.approved = q
  BY <1>4, <1>5, Zenon DEF MsTx
<1> HIDE DEF mine
<1>7. st \in MsStates /\ st.pending \in MsTables /\ st.next \in Nat /\ DOMAIN st.pending \subseteq 0..st.next - 1
  BY Zenon DEF MsFits, MsFitsBut, MsStates
<1>8. DOMAIN st.pending \subseteq Nat /\ \A i \in DOMAIN st.pending : st.pending[i] \in MsTx
  BY <1>7, MsTable, Zenon
<1>9. /\ kept \in MsTables /\ DOMAIN kept = DOMAIN st.pending \cup {id}
      /\ \A i \in DOMAIN kept : kept[i] = IF i = id THEN mine ELSE st.pending[i]
  <2>1. kept \in [DOMAIN st.pending \cup {id} -> MsTx] /\ DOMAIN st.pending \cup {id} \in SUBSET Nat
    BY <1>6, <1>7, <1>8
  <2> QED BY <2>1, Zenon DEF MsTables
<1> HIDE DEF kept
<1>10. /\ x \in MsStates /\ x.signers = st.signers /\ x.threshold = st.threshold /\ x.pending = kept
       /\ x.next = st.next /\ x.balance = st.balance /\ x.initial = st.initial
       /\ x.start = st.start /\ x.duration = st.duration
  BY <1>7, <1>9, Zenon DEF MsStates
<1> HIDE DEF x
<1>11. MsFits(x)
  <2>1. IsInjective(x.signers) /\ DOMAIN x.pending \subseteq 0..x.next - 1
    BY <1>7, <1>9, <1>10, Zenon DEF MsFits, MsFitsBut
  <2>2. \A i \in DOMAIN x.pending : IsInjective(x.pending[i].approved)
    BY <1>5, <1>6, <1>9, <1>10, Zenon DEF MsFits, MsFitsBut
  <2>3. ASSUME msVersion >= 2
        PROVE  /\ x.threshold \in 1..Len(x.signers) /\ Len(x.signers) <= MsSignersMax
               /\ \A i \in DOMAIN x.pending :
                    ToSet(x.pending[i].approved) \subseteq ToSet(x.signers) \cup {}
    <3>1. caller \in ToSet(st.signers)
      BY Zenon DEF isSigner, ToSet
    <3>2. ToSet(q) \subseteq ToSet(st.signers)
      BY <2>3, <3>1, <1>5, Zenon
    <3>3. ASSUME NEW i \in DOMAIN x.pending
          PROVE  ToSet(x.pending[i].approved) \subseteq ToSet(st.signers)
      <4>1. CASE i = id
        BY <4>1, <3>2, <1>6, <1>9, <1>10, Zenon
      <4>2. CASE i # id
        <5>1. i \in DOMAIN st.pending /\ x.pending[i] = st.pending[i]
          BY <4>2, <1>9, <1>10, Zenon
        <5> QED BY <5>1, <2>3, Zenon DEF MsFits, MsFitsBut
      <4> QED BY <4>1, <4>2, Zenon
    <3> QED BY <2>3, <3>3, <1>10, Zenon DEF MsFits, MsFitsBut
  <2> QED BY <2>1, <2>2, <2>3, <1>10, Zenon DEF MsFits, MsFitsBut
<1>12. /\ r.applied \in BOOLEAN
       /\ ~r.applied => r.st = x
       /\ r.applied =>
            /\ MsFits(r.st) /\ r.st.next = x.next
            /\ DOMAIN r.st.pending \subseteq DOMAIN x.pending /\ id \notin DOMAIN r.st.pending
            /\ Len(mine.approved) >= x.threshold
            /\ MsPays(x, r.st)
  BY <1>3, <1>6, <1>11, MsExecutes, Zenon
<1>13. MsPays(x, r.st) => MsPays(st, r.st)
  <2>1. \A e : amountLocked(x, e) = amountLocked(st, e)
    BY <1>10, MsLockedSame, Zenon
  <2> QED BY <2>1, <1>10, Zenon DEF MsPays
<1>14. CASE r.applied
  <2>1. MsFits(r.st) /\ r.st.next = st.next /\ DOMAIN r.st.pending \subseteq DOMAIN st.pending \cup {id}
    BY <1>9, <1>10, <1>12, <1>14, Zenon
  <2>2. id \notin DOMAIN r.st.pending /\ Len(tx.approved) + 1 >= st.threshold
    BY <1>5, <1>6, <1>10, <1>12, <1>14, Zenon
  <2>3. MsPays(st, r.st)
    BY <1>12, <1>13, <1>14, Zenon
  <2> QED BY <2>1, <2>2, <2>3, <1>2, <1>12, Zenon
<1>15. CASE ~r.applied
  <2>1. r.st = x
    BY <1>12, <1>15, Zenon
  <2> QED BY <2>1, <1>2, <1>9, <1>10, <1>11, <1>12, <1>15, Zenon
<1> QED BY <1>12, <1>14, <1>15, Zenon

-----------------------------------------------------------------------------
(* The steps                                                               *)

\* A message that came to an end keeps the invariant when the wallet it leaves
\* fits and what it executed was open or new, and approved by enough signers.
LEMMA MsCommitted ==
  ASSUME MsIInv, NEW r, NEW id, NEW by, MsCommit(r, id, by),
         MsFits(r.st), ms.next <= r.st.next, r.st.next <= MsMaxTx,
         DOMAIN r.st.pending \subseteq DOMAIN ms.pending \cup {ms.next},
         r.applied \in BOOLEAN,
         r.applied =>
           /\ id \in Nat /\ id < r.st.next /\ id \notin DOMAIN r.st.pending
           /\ id \in DOMAIN ms.pending \cup {ms.next}
           /\ by \in SUBSET MsAccounts
           /\ msVersion >= 2 => by \subseteq ToSet(ms.signers) /\ Cardinality(by) >= ms.threshold
           /\ MsPays(ms, r.st)
  PROVE  MsIInv'
<1> DEFINE e == [id |-> id, by |-> by, threshold |-> ms.threshold, signers |-> ToSet(ms.signers),
                 paid |-> ms.balance - r.st.balance, left |-> r.st.balance,
                 locked |-> amountLocked(ms, msEpoch - ms.start)]
<1>0. /\ msVersion \in {0, 2, 3} /\ msEpoch \in Nat /\ ms \in MsStates /\ r.st \in MsStates
      /\ msExecuted \in Seq(MsExecutions) /\ WalletIsSound
  BY MsAssumption DEF MsIInv, MsFits, MsFitsBut
<1>1. /\ ms' = r.st /\ msVersion' = msVersion /\ msEpoch' = msEpoch
      /\ ~r.applied => msExecuted' = msExecuted
      /\ r.applied => msExecuted' = Append(msExecuted, e)
  BY Zenon DEF MsCommit
<1>2. /\ msVersion' \in MsVersions /\ msEpoch' \in 0..MsMaxEpoch /\ ms'.next <= MsMaxTx
      /\ MsFits(ms)'
  BY <1>1, Zenon DEF MsIInv, MsFits, MsFitsBut
<1>3. msVersion >= 2 => ms'.threshold \in 1..Len(ms'.signers)
  BY <1>1, Zenon DEF MsFits, MsFitsBut
<1>4. ASSUME NEW i \in DOMAIN msExecuted
      PROVE  /\ msExecuted[i].id < r.st.next /\ msExecuted[i].id \notin DOMAIN r.st.pending
             /\ msExecuted[i].id \notin DOMAIN ms.pending \cup {ms.next}
  <2>1. msExecuted[i].id < ms.next /\ msExecuted[i].id \notin DOMAIN ms.pending
    BY Zenon DEF MsIInv
  <2>2. msExecuted[i].id \in Nat /\ ms.next \in Nat /\ r.st.next \in Nat
    <3>1. msExecuted[i] \in MsExecutions
      BY <1>0
    <3> QED BY <3>1, <1>0, Zenon DEF MsExecutions, MsStates
  <2> QED BY <2>1, <2>2
<1>5. CASE ~r.applied
  <2>1. msExecuted' = msExecuted
    BY <1>1, <1>5, Zenon
  <2>2. WalletIsSound'
    BY <2>1, <1>0, <1>1, <1>3, Zenon DEF WalletIsSound, ExecutedByQuorum, LockedIsKept
  <2> QED BY <2>1, <2>2, <1>0, <1>1, <1>2, <1>4, Zenon DEF MsIInv
<1>6. CASE r.applied
  <2>1. e \in MsExecutions
    <3>1. /\ ms.threshold \in Nat /\ ms.balance \in Int /\ r.st.balance \in Int /\ ms.initial \in Int
          /\ ms.duration \in Int /\ ms.start \in Int /\ ms.signers \in Seq(MsAccounts)
      BY <1>0, Zenon DEF MsStates
    <3>2. amountLocked(ms, msEpoch - ms.start) \in Int
      <4>1. msEpoch - ms.start \in Int
        BY <3>1, <1>0
      <4> QED BY <4>1, <3>1, <1>0, MsLockedInt, Zenon
    <3>3. ToSet(ms.signers) \subseteq MsAccounts
      BY <3>1 DEF ToSet
    <3> QED BY <3>1, <3>2, <3>3, <1>6 DEF MsExecutions
  <2>2. /\ e.id = id /\ e.by = by /\ e.threshold = ms.threshold /\ e.signers = ToSet(ms.signers)
        /\ e.paid = ms.balance - r.st.balance /\ e.left = r.st.balance
        /\ e.locked = amountLocked(ms, msEpoch - ms.start)
    BY Zenon
  <2>3. msExecuted' = Append(msExecuted, e)
    BY <1>1, <1>6, Zenon
  <2> HIDE DEF e
  <2> DEFINE n == Len(msExecuted)
  <2>4. /\ n \in Nat /\ DOMAIN msExecuted = 1..n /\ DOMAIN msExecuted' = 1..n + 1
        /\ msExecuted' \in Seq(MsExecutions)
        /\ \A i \in 1..n : msExecuted'[i] = msExecuted[i]
        /\ msExecuted'[n + 1] = e
    BY <2>1, <2>3, <1>0
  <2> HIDE DEF n
  <2>5. \A i \in 1..n + 1 : i \in 1..n \/ i = n + 1
    BY <2>4
  <2>6. ASSUME NEW i \in DOMAIN msExecuted'
        PROVE  msExecuted'[i].id < r.st.next /\ msExecuted'[i].id \notin DOMAIN r.st.pending
    BY <2>2, <2>4, <2>5, <1>4, <1>6, Zenon
  <2>7. ASSUME NEW i \in DOMAIN msExecuted', NEW j \in DOMAIN msExecuted',
               msExecuted'[i].id = msExecuted'[j].id
        PROVE  i = j
    <3>1. ASSUME NEW k \in 1..n PROVE msExecuted[k].id # e.id
      BY <2>2, <2>4, <1>4, <1>6, Zenon
    <3>2. \A k, l \in 1..n : msExecuted[k].id = msExecuted[l].id => k = l
      BY <2>4, <1>0, Zenon DEF WalletIsSound, ExecutedByQuorum
    <3> QED BY <3>1, <3>2, <2>4, <2>5, <2>7, Zenon
  <2>8. ASSUME msVersion >= 2, NEW i \in DOMAIN msExecuted'
        PROVE  /\ msExecuted'[i].by \subseteq msExecuted'[i].signers
               /\ Cardinality(msExecuted'[i].by) >= msExecuted'[i].threshold
    <3>1. CASE i \in 1..n
      <4>1. msExecuted'[i] = msExecuted[i] /\ i \in DOMAIN msExecuted
        BY <3>1, <2>4, Zenon
      <4> QED BY <4>1, <2>8, <1>0, Zenon DEF WalletIsSound, ExecutedByQuorum
    <3>2. CASE i = n + 1
      BY <3>2, <2>2, <2>4, <2>8, <1>6, Zenon
    <3> QED BY <3>1, <3>2, <2>4, <2>5, Zenon
  <2>9. ASSUME NEW i \in DOMAIN msExecuted', msExecuted'[i].paid > 0
        PROVE  msExecuted'[i].left >= msExecuted'[i].locked
    <3>1. CASE i \in 1..n
      <4>1. msExecuted'[i] = msExecuted[i] /\ i \in DOMAIN msExecuted
        BY <3>1, <2>4, Zenon
      <4> QED BY <4>1, <2>9, <1>0, Zenon DEF WalletIsSound, LockedIsKept
    <3>2. CASE i = n + 1
      BY <3>2, <2>2, <2>4, <2>9, <1>6, Zenon DEF MsPays
    <3> QED BY <3>1, <3>2, <2>4, <2>5, Zenon
  <2>10. WalletIsSound'
    BY <2>7, <2>8, <2>9, <1>1, <1>3, Zenon DEF WalletIsSound, ExecutedByQuorum, LockedIsKept
  <2> QED BY <2>4, <2>6, <2>10, <1>1, <1>2, Zenon DEF MsIInv
<1> QED BY <1>5, <1>6, Zenon

\* A proposal is approved by its proposer, which can be enough (Propose).
LEMMA ProposeKeeps ==
  ASSUME MsIInv, NEW a \in MsAccounts, NEW c \in MsCalls, Propose(a, c)
  PROVE  MsIInv'
<1> DEFINE st == [ms EXCEPT !.next = @ + 1]
           tx == [call |-> c, approved |-> <<>>]
           r == approveTransaction(st, ms.next, tx, a)
<1>1. isSigner(ms, a) /\ ms.next < MsMaxTx /\ MsCommit(r, ms.next, {a}) /\ r.ok
  BY Zenon DEF Propose, MsCommit
<1>2. msVersion \in MsVersions /\ MsFits(ms) /\ ms \in MsStates /\ ms.next \in Nat /\ MsMaxTx \in Nat
  BY MsAssumption, Zenon DEF MsIInv, MsFits, MsFitsBut, MsStates
<1>3. /\ st \in MsStates /\ st.signers = ms.signers /\ st.threshold = ms.threshold
      /\ st.pending = ms.pending /\ st.next = ms.next + 1 /\ st.balance = ms.balance
      /\ st.initial = ms.initial /\ st.start = ms.start /\ st.duration = ms.duration
  BY <1>2 DEF MsStates
<1> HIDE DEF st
<1>4. MsFits(st)
  <2>1. 0..ms.next - 1 \subseteq 0..st.next - 1
    BY <1>2, <1>3
  <2> QED BY <2>1, <1>2, <1>3, Zenon DEF MsFits, MsFitsBut
<1>5. /\ tx \in MsTx /\ IsInjective(tx.approved) /\ ToSet(tx.approved) = {} /\ Len(tx.approved) = 0
  BY DEF MsTx, IsInjective, ToSet
<1> HIDE DEF tx
<1>6. ms.next \in 0..st.next - 1 /\ isSigner(st, a)
  BY <1>1, <1>2, <1>3 DEF isSigner
<1>7. /\ r.applied \in BOOLEAN /\ MsFits(r.st) /\ r.st.next = st.next
      /\ DOMAIN r.st.pending \subseteq DOMAIN st.pending \cup {ms.next}
      /\ r.applied =>
           /\ ms.next \notin DOMAIN r.st.pending
           /\ Len(tx.approved) + 1 >= st.threshold
           /\ MsPays(st, r.st)
  BY <1>1, <1>2, <1>4, <1>5, <1>6, MsApproves
<1> HIDE DEF r
<1>8. MsPays(st, r.st) => MsPays(ms, r.st)
  <2>1. \A e : amountLocked(st, e) = amountLocked(ms, e)
    BY <1>3, MsLockedSame, Zenon
  <2> QED BY <2>1, <1>3, Zenon DEF MsPays
<1>9. Cardinality({a}) = 1 /\ {a} \subseteq ToSet(ms.signers)
  BY <1>1, FS_Singleton, Zenon DEF isSigner, ToSet
<1>10. r.applied =>
         /\ ms.next \in Nat /\ ms.next < r.st.next /\ ms.next \notin DOMAIN r.st.pending
         /\ ms.next \in DOMAIN ms.pending \cup {ms.next}
         /\ {a} \in SUBSET MsAccounts
         /\ msVersion >= 2 => {a} \subseteq ToSet(ms.signers) /\ Cardinality({a}) >= ms.threshold
         /\ MsPays(ms, r.st)
  BY <1>2, <1>3, <1>5, <1>7, <1>8, <1>9
<1>11. /\ ms.next <= r.st.next /\ r.st.next <= MsMaxTx
       /\ DOMAIN r.st.pending \subseteq DOMAIN ms.pending \cup {ms.next}
  BY <1>1, <1>2, <1>3, <1>7
<1> QED BY <1>1, <1>7, <1>10, <1>11, MsCommitted, Zenon

\* A transaction approved by enough signers before is executed with these,
\* another one with the caller (Approve).
LEMMA ApproveKeeps ==
  ASSUME MsIInv, NEW a \in MsAccounts, NEW id, Approve(a, id)
  PROVE  MsIInv'
<1> DEFINE tx == ms.pending[id]
           r == executeTransaction(ms, id, tx)
           q == approveTransaction(ms, id, tx, a)
<1>1. isSigner(ms, a) /\ id \in DOMAIN ms.pending
  BY Zenon DEF Approve
<1>2. /\ msVersion \in MsVersions /\ MsFits(ms) /\ ms \in MsStates /\ ms.next \in Nat
      /\ ms.next <= MsMaxTx /\ MsMaxTx \in Nat /\ ms.threshold \in Nat
      /\ ms.pending \in MsTables /\ DOMAIN ms.pending \subseteq 0..ms.next - 1
  BY MsAssumption, Zenon DEF MsIInv, MsFits, MsFitsBut, MsStates
<1>3. /\ tx \in MsTx /\ tx.approved \in Seq(MsAccounts) /\ IsInjective(tx.approved)
      /\ msVersion >= 2 => ToSet(tx.approved) \subseteq ToSet(ms.signers)
  <2>1. tx \in MsTx
    BY <1>1, <1>2, MsTable, Zenon
  <2> QED BY <2>1, <1>1, <1>2, Zenon DEF MsTx, MsFits, MsFitsBut
<1>4. /\ ToSet(tx.approved) \subseteq MsAccounts /\ IsFiniteSet(ToSet(tx.approved))
      /\ Cardinality(ToSet(tx.approved)) = Len(tx.approved) /\ Len(tx.approved) \in Nat
  <2>1. ToSet(tx.approved) \subseteq MsAccounts
    BY <1>3 DEF ToSet
  <2>2. Len(tx.approved) \in Nat
    BY <1>3
  <2> HIDE DEF tx
  <2> QED BY <1>3, <2>1, <2>2, MsCounted, Zenon
<1>5. id \in Nat /\ id \in 0..ms.next - 1 /\ id < ms.next
  BY <1>1, <1>2
<1>6. CASE r.ok /\ ~r.applied
  <2> DEFINE by == ToSet(tx.approved) \cup {a}
  <2>1. MsCommit(q, id, by) /\ q.ok
    BY <1>6, Zenon DEF Approve, MsCommit
  <2>2. /\ q.applied \in BOOLEAN /\ a \notin ToSet(tx.approved)
        /\ MsFits(q.st) /\ q.st.next = ms.next
        /\ DOMAIN q.st.pending \subseteq DOMAIN ms.pending \cup {id}
        /\ q.applied =>
             /\ id \notin DOMAIN q.st.pending
             /\ Len(tx.approved) + 1 >= ms.threshold
             /\ MsPays(ms, q.st)
    BY <2>1, <1>1, <1>2, <1>3, <1>5, MsApproves, Zenon
  <2> HIDE DEF q
  <2>3. Cardinality(by) = Len(tx.approved) + 1
    BY <2>2, <1>4, FS_AddElement, Zenon
  <2>4. a \in ToSet(ms.signers)
    BY <1>1, Zenon DEF isSigner, ToSet
  <2>5. by \in SUBSET MsAccounts /\ (msVersion >= 2 => by \subseteq ToSet(ms.signers))
    BY <2>4, <1>3, <1>4, Zenon
  <2> HIDE DEF by
  <2>6. q.applied =>
          /\ id \in Nat /\ id < q.st.next /\ id \notin DOMAIN q.st.pending
          /\ id \in DOMAIN ms.pending \cup {ms.next}
          /\ by \in SUBSET MsAccounts
          /\ msVersion >= 2 => by \subseteq ToSet(ms.signers) /\ Cardinality(by) >= ms.threshold
          /\ MsPays(ms, q.st)
    BY <2>2, <2>3, <2>5, <1>1, <1>5, Zenon
  <2>7. /\ ms.next <= q.st.next /\ q.st.next <= MsMaxTx
        /\ DOMAIN q.st.pending \subseteq DOMAIN ms.pending \cup {ms.next}
    BY <2>2, <1>1, <1>2
  <2> QED BY <2>1, <2>2, <2>6, <2>7, MsCommitted, Zenon
<1>7. CASE ~(r.ok /\ ~r.applied)
  <2> DEFINE by == ToSet(tx.approved)
  <2>1. MsCommit(r, id, by) /\ r.ok
    BY <1>7, Zenon DEF Approve, MsCommit
  <2>2. r.applied \in BOOLEAN
    BY <2>1, <1>2, <1>3, MsExecutes
  <2>3. r.applied
    BY <1>7, <2>1, Zenon
  <2>4. /\ MsFits(r.st) /\ r.st.next = ms.next
        /\ DOMAIN r.st.pending \subseteq DOMAIN ms.pending /\ id \notin DOMAIN r.st.pending
        /\ Len(tx.approved) >= ms.threshold
        /\ MsPays(ms, r.st)
    BY <2>1, <2>3, <1>2, <1>3, MsExecutes, Zenon
  <2> HIDE DEF r
  <2>5. /\ id \in Nat /\ id < r.st.next /\ id \notin DOMAIN r.st.pending
        /\ id \in DOMAIN ms.pending \cup {ms.next}
        /\ by \in SUBSET MsAccounts
        /\ msVersion >= 2 => by \subseteq ToSet(ms.signers) /\ Cardinality(by) >= ms.threshold
        /\ MsPays(ms, r.st)
    BY <2>4, <1>1, <1>3, <1>4, <1>5, Zenon
  <2>6. /\ ms.next <= r.st.next /\ r.st.next <= MsMaxTx
        /\ DOMAIN r.st.pending \subseteq DOMAIN ms.pending \cup {ms.next}
    BY <2>4, <1>2
  <2> HIDE DEF by
  <2> QED BY <2>1, <2>2, <2>4, <2>5, <2>6, MsCommitted, Zenon
<1> QED BY <1>6, <1>7, Zenon

\* What is not executed leaves the record as it is: a wallet that fits, with
\* the same numbers given out and no transaction opened, keeps the invariant.
LEMMA MsQuiet ==
  ASSUME MsIInv, msVersion' = msVersion, msExecuted' = msExecuted, msEpoch' \in 0..MsMaxEpoch,
         MsFits(ms'), ms'.next = ms.next, DOMAIN ms'.pending \subseteq DOMAIN ms.pending
  PROVE  MsIInv'
<1>1. MsFits(ms)'
  BY Zenon DEF MsFits, MsFitsBut
<1>2. msVersion >= 2 => ms'.threshold \in 1..Len(ms'.signers)
  BY Zenon DEF MsFits, MsFitsBut
<1>3. WalletIsSound'
  BY <1>2, Zenon DEF MsIInv, WalletIsSound, ExecutedByQuorum, LockedIsKept
<1> QED BY <1>1, <1>3, Zenon DEF MsIInv

\* A wallet as Construct makes it satisfies the invariant.
LEMMA MsInitInv == MsInit => MsIInv
<1> SUFFICES ASSUME MsInit PROVE MsIInv
  BY Zenon
<1>1. PICK t \in 1..2, d \in {0, 3} :
        (MsConstruct(MsFounders, t, 1, d, MsMaxBalance)).ok
        /\ ms = (MsConstruct(MsFounders, t, 1, d, MsMaxBalance)).st
  BY Zenon DEF MsInit
<1>2. /\ msVersion \in MsVersions /\ msVersion \in {0, 2, 3} /\ msEpoch = 0 /\ msExecuted = <<>>
      /\ MsFounders \in Seq(MsAccounts) /\ Len(MsFounders) \in Nat
      /\ MsMaxTx \in Nat /\ MsMaxEpoch \in Nat /\ MsMaxBalance \in Nat /\ MsSignersMax \in Nat
  BY MsAssumption DEF MsInit
<1>3. /\ IsInjective(MsFounders) /\ ~tooManySigners(Len(MsFounders)) /\ ~(t > Len(MsFounders))
  BY <1>1, Zenon DEF MsConstruct, MsAbort
<1> DEFINE p == [i \in {} |-> 0]
<1>4. ms = [signers |-> MsFounders, threshold |-> t, next |-> 0, pending |-> p,
            balance |-> MsMaxBalance, initial |-> IF d # 0 THEN MsMaxBalance ELSE 0,
            start |-> IF d = 0 THEN 0 ELSE startEpoch(1), duration |-> d]
  BY <1>1, Zenon DEF MsConstruct, MsAbort, MsOk
<1>5. p \in MsTables /\ DOMAIN p = {}
  <2>1. p \in [{} -> MsTx] /\ {} \in SUBSET Nat
    BY Zenon
  <2> QED BY <2>1, Zenon DEF MsTables
<1> HIDE DEF p
<1>6. startEpoch(1) \in Int
  BY <1>2 DEF startEpoch
<1>7. ms \in MsStates
  BY <1>2, <1>4, <1>5, <1>6 DEF MsStates
<1>8. /\ ms.signers = MsFounders /\ ms.threshold = t /\ ms.next = 0 /\ ms.pending = p
  BY <1>4, Zenon
<1>9. msVersion >= 2 => t \in 1..Len(MsFounders) /\ Len(MsFounders) <= MsSignersMax
  BY <1>2, <1>3 DEF tooManySigners
<1>10. MsFits(ms)
  BY <1>3, <1>5, <1>7, <1>8, <1>9, Zenon DEF MsFits, MsFitsBut
<1>11. msExecuted \in Seq(MsExecutions) /\ DOMAIN msExecuted = {}
  BY <1>2
<1>12. WalletIsSound
  BY <1>8, <1>9, <1>11, Zenon DEF WalletIsSound, ExecutedByQuorum, LockedIsKept
<1> QED BY <1>2, <1>8, <1>10, <1>11, <1>12 DEF MsIInv

\* Every step keeps the invariant.
LEMMA MsStepInv == MsIInv /\ [MsNext]_msVars => MsIInv'
<1> SUFFICES ASSUME MsIInv, [MsNext]_msVars PROVE MsIInv'
  BY Zenon
<1>0. /\ MsFits(ms) /\ ms \in MsStates /\ ms.balance \in Int /\ msEpoch \in 0..MsMaxEpoch
      /\ MsMaxEpoch \in Nat
  BY MsAssumption, Zenon DEF MsIInv, MsFits, MsFitsBut, MsStates
<1>1. CASE \E a \in MsAccounts, c \in MsCalls : Propose(a, c)
  BY <1>1, ProposeKeeps, Zenon
<1>2. CASE \E a \in MsAccounts, id \in 0..MsMaxTx - 1 : Approve(a, id)
  BY <1>2, ApproveKeeps, Zenon
<1>3. CASE \E a \in MsAccounts, id \in 0..MsMaxTx - 1 : Cancel(a, id)
  <2>1. PICK id : /\ ms' = transactionDone(ms, id)
                  /\ msVersion' = msVersion /\ msEpoch' = msEpoch /\ msExecuted' = msExecuted
    BY <1>3, Zenon DEF Cancel
  <2> DEFINE x == transactionDone(ms, id)
  <2>2. MsKept(ms, x)
    BY <1>0, MsDone, Zenon
  <2> HIDE DEF x
  <2> QED BY <2>1, <2>2, <1>0, MsQuiet, Zenon DEF MsKept, x
<1>4. CASE MsReceive
  <2> DEFINE x == [ms EXCEPT !.balance = @ + 1]
  <2>1. ms' = x /\ msVersion' = msVersion /\ msEpoch' = msEpoch /\ msExecuted' = msExecuted
    BY <1>4, Zenon DEF MsReceive
  <2>2. /\ x \in MsStates /\ x.signers = ms.signers /\ x.threshold = ms.threshold
        /\ x.pending = ms.pending /\ x.next = ms.next
    BY <1>0 DEF MsStates
  <2> HIDE DEF x
  <2>3. MsFits(x)
    BY <2>2, <1>0, Zenon DEF MsFits, MsFitsBut
  <2> QED BY <2>1, <2>2, <2>3, <1>0, MsQuiet, Zenon
<1>5. CASE MsEpochPasses
  <2>1. /\ msEpoch' \in 0..MsMaxEpoch /\ ms' = ms /\ msVersion' = msVersion
        /\ msExecuted' = msExecuted
    BY <1>5, <1>0 DEF MsEpochPasses
  <2> QED BY <2>1, <1>0, MsQuiet, Zenon
<1>6. CASE UNCHANGED msVars
  <2>1. ms' = ms /\ msVersion' = msVersion /\ msEpoch' = msEpoch /\ msExecuted' = msExecuted
    BY <1>6, Zenon DEF msVars
  <2> QED BY <2>1, <1>0, MsQuiet, Zenon
<1> QED BY <1>1, <1>2, <1>3, <1>4, <1>5, <1>6, Zenon DEF MsNext

-----------------------------------------------------------------------------
(* The theorems                                                            *)

\* The wallet has no signer twice, and open transactions have numbers that
\* were given out (the multisig actor's state in every version).
THEOREM MultisigTypeCorrect == MsSpec => []MsTypeOK
<1>1. MsIInv => MsTypeOK
  <2> SUFFICES ASSUME MsIInv PROVE MsTypeOK
    BY Zenon
  <2>1. MsFits(ms) /\ ms.next \in Nat /\ ms.next <= MsMaxTx /\ ms.signers \in Seq(MsAccounts) /\ MsMaxTx \in Nat
    BY MsAssumption, Zenon DEF MsIInv, MsFits, MsFitsBut, MsStates
  <2>2. ToSet(ms.signers) \subseteq MsAccounts
    BY <2>1 DEF ToSet
  <2> QED BY <2>1, <2>2 DEF MsIInv, MsTypeOK, MsFits, MsFitsBut
<1> QED BY <1>1, MsInitInv, MsStepInv, PTL DEF MsSpec

\* A transaction is executed once; from version 2 on by approvals of as many
\* signers as the threshold asks for; and no payment touches what is locked
\* (executeTransaction, approveTransaction, purgeApprovals, assertAvailable).
THEOREM WalletActsByItsQuorum == MsSpec => []WalletIsSound
<1>1. MsIInv => WalletIsSound
  BY Zenon DEF MsIInv
<1> QED BY <1>1, MsInitInv, MsStepInv, PTL DEF MsSpec
=============================================================================
