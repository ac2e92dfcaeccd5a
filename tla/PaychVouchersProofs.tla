------------------------ MODULE PaychVouchersProofs -------------------------
(***************************************************************************)
(* Proofs about PaychVouchers, for any finite number of lanes, any amounts *)
(* and any vouchers signed by hand: what is promised is covered, what is   *)
(* accepted can be redeemed, and the actor keeps its books.                *)
(***************************************************************************)
EXTENDS PaychVouchers, FiniteSetTheorems, WellFoundedInduction, TLAPS

-----------------------------------------------------------------------------
(***************************************************************************)
(* The largest of finitely many numbers.                                   *)
(***************************************************************************)
Top(S) == \E m \in S : \A x \in S : x <= m

\* A finite set of integers that is not empty has a largest element.
LEMMA FiniteTop ==
  ASSUME NEW S \in SUBSET Int, IsFiniteSet(S), S # {}
  PROVE  Top(S)
<1> DEFINE Bad == {A \in SUBSET S : A # {} /\ ~Top(A)}
<1>1. SUFFICES Bad = {}
  BY Zenon
<1>2. SUFFICES ASSUME Bad # {} PROVE FALSE
  BY Zenon
<1>3. Bad \subseteq FiniteSubsetsOf(S)
  BY FS_FiniteSubsetsOfFinite, Zenon
<1>4. PICK A \in Bad : \A B \in Bad : ~(<<B, A>> \in StrictSubsetOrdering(S))
  <2> HIDE DEF Bad
  <2> QED
    BY <1>2, <1>3, FS_StrictSubsetOrderingWellFounded, WFMin, Zenon
<1>5. PICK a \in A : TRUE
  BY Zenon
<1>6. ASSUME NEW B \in Bad
      PROVE  ~(B \subseteq A /\ B # A)
  BY <1>4, Zenon DEF StrictSubsetOrdering
<1>7. A \ {a} \notin Bad
  BY <1>5, <1>6, Zenon
<1>8. CASE A \ {a} = {}
  <2>1. A = {a}
    BY <1>5, <1>8, Zenon
  <2>2. a \in Int /\ a <= a
    BY <1>5
  <2> QED
    BY <2>1, <2>2, Zenon DEF Top
<1>9. CASE Top(A \ {a})
  <2>1. PICK m \in A \ {a} : \A x \in A \ {a} : x <= m
    BY <1>9, Zenon DEF Top
  <2>2. a \in Int /\ m \in Int /\ A \subseteq Int
    BY <1>5, Zenon
  <2>3. CASE a <= m
    BY <2>1, <2>2, <2>3, Zenon DEF Top
  <2>4. CASE m <= a
    <3>1. \A x \in A : x <= a
      BY <2>1, <2>2, <2>4
    <3> QED
      BY <3>1, <1>5, Zenon DEF Top
  <2> QED
    BY <2>2, <2>3, <2>4
<1> QED
  BY <1>7, <1>8, <1>9, Zenon

\* Max of a finite set is its largest element.
LEMMA MaxTop ==
  ASSUME NEW S \in SUBSET Int, IsFiniteSet(S), S # {}
  PROVE  Max(S) \in S /\ \A x \in S : x <= Max(S)
<1>1. \E m \in S : \A x \in S : m >= x
  BY FiniteTop, Zenon DEF Top
<1> QED
  BY <1>1, Zenon DEF Max

\* Max is the largest element when there is one.
LEMMA MaxIs ==
  ASSUME NEW S \in SUBSET Int, NEW m \in S, \A x \in S : x <= m
  PROVE  Max(S) = m
<1>1. \A x \in S : m >= x
  BY Zenon
<1>2. Max(S) \in S /\ \A x \in S : Max(S) >= x
  BY <1>1, Zenon DEF Max
<1>3. Max(S) \in Int /\ Max(S) >= m /\ m >= Max(S) /\ m \in Int
  BY <1>1, <1>2, Zenon
<1> QED
  BY <1>3

\* Max of two.
LEMMA MaxPair ==
  ASSUME NEW a \in Int, NEW b \in Int
  PROVE  Max({a, b}) = IF a <= b THEN b ELSE a
<1>1. CASE a <= b
  BY <1>1, MaxIs
<1>2. CASE b < a
  BY <1>2, MaxIs
<1> QED
  BY <1>1, <1>2
-----------------------------------------------------------------------------
(***************************************************************************)
(* Sums.                                                                   *)
(***************************************************************************)

\* The units of a finite function of naturals are finite.
LEMMA TotalType ==
  ASSUME NEW f, IsFiniteSet(DOMAIN f), \A x \in DOMAIN f : f[x] \in Nat
  PROVE  IsFiniteSet(Units(f)) /\ PvTotal(f) \in Nat
<1> DEFINE part(x) == {x} \X (1..f[x])
<1>1. ASSUME NEW x \in DOMAIN f
      PROVE  IsFiniteSet(part(x))
  <2>1. IsFiniteSet(1..f[x])
    BY FS_Interval
  <2>2. IsFiniteSet({x})
    BY FS_Singleton, Zenon
  <2> QED
    BY <2>1, <2>2, FS_Product, Zenon
<1>2. IsFiniteSet({part(x) : x \in DOMAIN f})
  <2>1. [x \in DOMAIN f |-> part(x)] \in Surjection(DOMAIN f, {part(x) : x \in DOMAIN f})
    BY Zenon DEF Surjection
  <2> QED
    BY <2>1, FS_Surjection, Zenon
<1>3. IsFiniteSet(UNION {part(x) : x \in DOMAIN f})
  BY <1>1, <1>2, FS_UNION, Zenon
<1> QED
  BY <1>3, FS_CardinalityType, Zenon DEF Units, PvTotal

\* Entries that are no larger, in a smaller domain, sum up to no more.
LEMMA TotalMonotone ==
  ASSUME NEW f, NEW g, IsFiniteSet(DOMAIN g), \A x \in DOMAIN g : g[x] \in Nat,
         DOMAIN f \subseteq DOMAIN g,
         \A x \in DOMAIN f : f[x] \in Nat /\ f[x] <= g[x]
  PROVE  PvTotal(f) <= PvTotal(g)
<1>1. Units(f) \subseteq Units(g)
  BY DEF Units
<1> QED
  BY <1>1, TotalType, FS_Subset, Zenon DEF PvTotal

\* Entries of zero do not count.
LEMMA TotalExtend ==
  ASSUME NEW f, NEW g, DOMAIN f \subseteq DOMAIN g,
         \A x \in DOMAIN f : g[x] = f[x],
         \A x \in DOMAIN g \ DOMAIN f : g[x] = 0
  PROVE  PvTotal(f) = PvTotal(g)
<1>1. Units(f) = Units(g)
  BY DEF Units
<1> QED
  BY <1>1, Zenon DEF PvTotal

\* Changing one entry changes the sum by as much.
LEMMA TotalUpdate ==
  ASSUME NEW D, IsFiniteSet(D), NEW f \in [D -> Nat], NEW g \in [D -> Nat], NEW x \in D,
         \A y \in D \ {x} : g[y] = f[y]
  PROVE  PvTotal(g) = PvTotal(f) - f[x] + g[x]
<1> DEFINE R == UNION {{y} \X (1..f[y]) : y \in D \ {x}}
           P(k) == {x} \X (1..k)
<1>1. Units(f) = R \cup P(f[x])
  BY Zenon DEF Units
<1>2. Units(g) = R \cup P(g[x])
  BY Zenon DEF Units
<1>3. R \subseteq Units(f) /\ IsFiniteSet(R) /\ Cardinality(R) \in Nat
  BY <1>1, TotalType, FS_Subset, FS_CardinalityType, Zenon
<1>4. ASSUME NEW k \in Nat
      PROVE  Cardinality(R \cup P(k)) = Cardinality(R) + k
  <2>1. IsFiniteSet(1..k) /\ Cardinality(1..k) = k
    <3>1. IsFiniteSet(1..k) /\ Cardinality(1..k) = IF 1 > k THEN 0 ELSE k-1+1
      BY FS_Interval, 1 \in Int, k \in Int, Zenon
    <3> QED
      BY <3>1
  <2>2. IsFiniteSet({x}) /\ Cardinality({x}) = 1
    BY FS_Singleton, Zenon
  <2>3. IsFiniteSet(P(k)) /\ Cardinality(P(k)) = k
    <3>1. IsFiniteSet(P(k)) /\ Cardinality(P(k)) = Cardinality({x}) * Cardinality(1..k)
      BY <2>1, <2>2, FS_Product, Zenon
    <3> QED
      BY <3>1, <2>1, <2>2
  <2>4. R \cap P(k) = {}
    OBVIOUS
  <2>5. Cardinality(R \cap P(k)) = 0
    BY <2>4, FS_EmptySet, Zenon
  <2> HIDE DEF R, P
  <2> QED
    BY <1>3, <2>3, <2>5, FS_Union
<1>5. f[x] \in Nat /\ g[x] \in Nat
  BY Zenon
<1> HIDE DEF R, P
<1>6. Cardinality(R \cup P(f[x])) = Cardinality(R) + f[x]
  BY <1>4, <1>5, Zenon
<1>7. Cardinality(R \cup P(g[x])) = Cardinality(R) + g[x]
  BY <1>4, <1>5, Zenon
<1> QED
  BY <1>1, <1>2, <1>3, <1>5, <1>6, <1>7 DEF PvTotal
-----------------------------------------------------------------------------
(***************************************************************************)
(* The inductive invariant.  Vouchers of a lane that the payer's node made *)
(* are worth more the later they were made; the payer's row has all of     *)
(* them, the payee's row those it accepted.  The actor's lanes, now and    *)
(* when a node last looked, were paid for with accepted vouchers.          *)
(***************************************************************************)
LaneMaps == UNION {[D -> [redeem : Nat, nonce : Nat]] : D \in SUBSET LaneIds}

MadeVouchers == {Voucher(l, n, a) : l \in MadeLanes, n \in Nat, a \in Nat}

EntriesOf(vs) == [added_nonce : Int, vouchers : SUBSET vs]

RowsOf(vs) == [next_lane : Nat, lanes : UNION {[D -> EntriesOf(vs)] : D \in SUBSET LaneIds}]

Views == [lanes : LaneMaps, balance : Nat, epoch : Nat, settling_at : Nat, exists : BOOLEAN]

Types ==
  /\ source \in DOMAIN Sources
  /\ lanes \in LaneMaps
  /\ to_send \in Nat /\ settling_at \in Nat /\ min_settling_height \in Nat
  /\ balance \in Nat /\ epoch \in Nat
  /\ made \in SUBSET MadeVouchers /\ IsFiniteSet(made)
  /\ row \in [Nodes -> RowsOf(made)]
  /\ view \in [Nodes -> Views]
  /\ received \in Nat

\* Later vouchers of a lane are worth more.
MadeInOrder ==
  \A v, w \in made : v.lane = w.lane => (v.nonce < w.nonce <=> v.amount < w.amount)

PayerHasAll == \A l \in LaneIds : Entry(row["payer"], l).vouchers = MadeOn(l)

PayeeHasSome ==
  \A l \in LaneIds :
    /\ Accepted(l) \subseteq MadeOn(l)
    /\ \A v \in Accepted(l) : v.nonce <= Entry(row["payee"], l).added_nonce

\* The lanes were paid for with accepted vouchers.
FromAccepted(ls) ==
  \A l \in DOMAIN ls : \E v \in Accepted(l) : ls[l] = [redeem |-> v.amount, nonce |-> v.nonce]

Redeems(ls) == [l \in DOMAIN ls |-> ls[l].redeem]

\* What the actor owes is what its lanes have redeemed.
LanesAddUp == FromAccepted(lanes) /\ to_send = PvTotal(Redeems(lanes))

ViewsAreOld ==
  \A n \in Nodes : FromAccepted(view[n].lanes) /\ (Exists => view[n].balance <= balance)

\* The channel stays open as long as redeemed vouchers ask.
HeldOpen ==
  /\ \A v \in redeemed : min_settling_height >= v.min_close_height /\ v.min_close_height \in Int
  /\ OpenLongEnough

VouchersIInv ==
  /\ Types
  /\ source # "manager" => made = {}
  /\ MadeInOrder /\ PayerHasAll /\ PayeeHasSome
  /\ source = "manager" => LanesAddUp /\ ViewsAreOld
  /\ PromisesCovered /\ DeltasAddUp /\ ToSendCovered /\ HeldOpen

-----------------------------------------------------------------------------
(***************************************************************************)
(* Vouchers, rows and lanes.                                               *)
(***************************************************************************)

\* The fields of a voucher that make has made.
LEMMA MadeFields ==
  ASSUME NEW v \in MadeVouchers
  PROVE  /\ v.lane \in MadeLanes /\ v.lane \in LaneIds /\ v.nonce \in Nat /\ v.amount \in Nat
         /\ v.merges = <<>> /\ v.min_close_height = 0
         /\ v = Voucher(v.lane, v.nonce, v.amount)
<1>1. PICK l \in MadeLanes, n \in Nat, a \in Nat : v = Voucher(l, n, a)
  BY DEF MadeVouchers
<1>2. l \in LaneIds
  BY VouchersAssumption, Zenon
<1>3. v.lane = l /\ v.nonce = n /\ v.amount = a /\ v.merges = <<>> /\ v.min_close_height = 0
  BY <1>1, Zenon DEF Voucher
<1> QED
  BY <1>1, <1>2, <1>3, Zenon

\* The amounts, and the nonces, of finitely many vouchers are finite sets of naturals.
LEMMA FieldsFinite ==
  ASSUME NEW vs \in SUBSET MadeVouchers, IsFiniteSet(vs)
  PROVE  /\ IsFiniteSet({v.amount : v \in vs}) /\ {v.amount : v \in vs} \subseteq Nat
         /\ IsFiniteSet({v.nonce : v \in vs}) /\ {v.nonce : v \in vs} \subseteq Nat
<1>1. [v \in vs |-> v.amount] \in Surjection(vs, {v.amount : v \in vs})
  BY Zenon DEF Surjection
<1>2. [v \in vs |-> v.nonce] \in Surjection(vs, {v.nonce : v \in vs})
  BY Zenon DEF Surjection
<1>3. IsFiniteSet({v.amount : v \in vs})
  BY <1>1, FS_Surjection, Zenon
<1>4. IsFiniteSet({v.nonce : v \in vs})
  BY <1>2, FS_Surjection, Zenon
<1> QED
  BY <1>3, <1>4, MadeFields, Zenon

\* The highest amount is that of a voucher, or 0.
LEMMA HighestIs ==
  ASSUME NEW vs \in SUBSET MadeVouchers, IsFiniteSet(vs)
  PROVE  /\ Highest(vs) \in Nat
         /\ \A v \in vs : v.amount <= Highest(vs)
         /\ Highest(vs) = 0 \/ \E v \in vs : Highest(vs) = v.amount
<1> DEFINE A == {v.amount : v \in vs} \cup {0}
<1>1. IsFiniteSet(A) /\ A \in SUBSET Int /\ A \subseteq Nat /\ A # {}
  <2>1. IsFiniteSet({v.amount : v \in vs}) /\ {v.amount : v \in vs} \subseteq Nat
    BY FieldsFinite, Zenon
  <2>2. IsFiniteSet(A)
    BY <2>1, FS_AddElement, Zenon
  <2> QED
    BY <2>1, <2>2
<1>2. Max(A) \in A /\ \A x \in A : x <= Max(A)
  <2> HIDE DEF A
  <2> QED
    BY <1>1, MaxTop, Zenon
<1>3. Highest(vs) = Max(A)
  BY Zenon DEF Highest
<1> QED
  BY <1>1, <1>2, <1>3, Zenon

\* One more voucher, higher than the others, is the highest.
LEMMA HighestAdd ==
  ASSUME NEW vs \in SUBSET MadeVouchers, IsFiniteSet(vs), NEW v \in MadeVouchers, v.amount > Highest(vs)
  PROVE  Highest(vs \cup {v}) = v.amount
<1> DEFINE A == {w.amount : w \in vs \cup {v}} \cup {0}
<1>1. v.amount \in Nat /\ Highest(vs) \in Nat
  BY MadeFields, HighestIs, Zenon
<1>2. \A w \in vs : w.amount \in Nat /\ w.amount <= Highest(vs)
  BY MadeFields, HighestIs, Zenon
<1>3. A \in SUBSET Int /\ v.amount \in A
  BY <1>1, <1>2
<1>4. \A x \in A : x <= v.amount
  BY <1>1, <1>2
<1>5. Max(A) = v.amount
  <2> HIDE DEF A
  <2> QED
    BY <1>3, <1>4, MaxIs, Zenon
<1> QED
  BY <1>5, Zenon DEF Highest

\* The entry of a lane in a row.
LEMMA EntryType ==
  ASSUME NEW vs, NEW r \in RowsOf(vs), NEW l
  PROVE  Entry(r, l) \in EntriesOf(vs)
<1>1. NewLane \in EntriesOf(vs)
  BY DEF NewLane, NoNonce, EntriesOf
<1>2. ASSUME l \in DOMAIN r.lanes PROVE r.lanes[l] \in EntriesOf(vs)
  <2>1. PICK D \in SUBSET LaneIds : r.lanes \in [D -> EntriesOf(vs)]
    BY Zenon DEF RowsOf
  <2> QED
    BY <1>2, <2>1, Zenon
<1> QED
  BY <1>1, <1>2, Zenon DEF Entry

\* Put changes the entry of one lane.
LEMMA PutEntry ==
  ASSUME NEW vs, NEW r \in RowsOf(vs), NEW l \in LaneIds, NEW e \in EntriesOf(vs)
  PROVE  /\ Put(r, l, e) \in RowsOf(vs)
         /\ Entry(Put(r, l, e), l) = e
         /\ \A k \in LaneIds \ {l} : Entry(Put(r, l, e), k) = Entry(r, k)
<1> DEFINE ls == [k \in DOMAIN r.lanes \cup {l} |-> IF k = l THEN e ELSE r.lanes[k]]
<1>1. PICK D \in SUBSET LaneIds : r.lanes \in [D -> EntriesOf(vs)]
  BY Zenon DEF RowsOf
<1>2. ls \in [D \cup {l} -> EntriesOf(vs)] /\ D \cup {l} \in SUBSET LaneIds
  BY <1>1, Zenon
<1>3. Put(r, l, e) = [next_lane |-> r.next_lane, lanes |-> ls]
  BY DEF Put, RowsOf
<1>4. Put(r, l, e) \in RowsOf(vs)
  <2> HIDE DEF ls
  <2> QED
    BY <1>2, <1>3 DEF RowsOf
<1>5. Put(r, l, e).lanes = ls
  <2> HIDE DEF ls
  <2> QED
    BY <1>3
<1> QED
  BY <1>4, <1>5, Zenon DEF Entry

\* A row of some vouchers is a row of more.
LEMMA RowsGrow ==
  ASSUME NEW vs, NEW ws, vs \subseteq ws, NEW r \in RowsOf(vs)
  PROVE  r \in RowsOf(ws)
<1>1. EntriesOf(vs) \subseteq EntriesOf(ws)
  BY Zenon DEF EntriesOf
<1>2. PICK D \in SUBSET LaneIds : r.lanes \in [D -> EntriesOf(vs)]
  BY Zenon DEF RowsOf
<1>3. r.lanes \in [D -> EntriesOf(ws)]
  BY <1>1, <1>2, Zenon
<1>4. r = [next_lane |-> r.next_lane, lanes |-> r.lanes] /\ r.next_lane \in Nat
  BY Zenon DEF RowsOf
<1> QED
  BY <1>3, <1>4, Zenon DEF RowsOf

\* What made vouchers and rows are, by the invariant.
LEMMA Facts ==
  ASSUME VouchersIInv
  PROVE  /\ made \subseteq MadeVouchers /\ IsFiniteSet(made)
         /\ \A l \in LaneIds : /\ MadeOn(l) \in SUBSET made /\ IsFiniteSet(MadeOn(l))
                               /\ Accepted(l) \in SUBSET made /\ IsFiniteSet(Accepted(l))
                               /\ Accepted(l) \subseteq MadeOn(l)
         /\ IsFiniteSet(LaneIds) /\ LaneIds \subseteq Nat /\ MadeLanes \subseteq LaneIds
<1>1. made \subseteq MadeVouchers /\ IsFiniteSet(made)
  BY Zenon DEF VouchersIInv, Types
<1>2. ASSUME NEW l \in LaneIds
      PROVE  /\ MadeOn(l) \in SUBSET made /\ IsFiniteSet(MadeOn(l))
             /\ Accepted(l) \in SUBSET made /\ IsFiniteSet(Accepted(l))
             /\ Accepted(l) \subseteq MadeOn(l)
  <2>1. MadeOn(l) \in SUBSET made
    BY Zenon DEF MadeOn
  <2>2. Accepted(l) \subseteq MadeOn(l)
    BY Zenon DEF VouchersIInv, PayeeHasSome
  <2> QED
    BY <1>1, <2>1, <2>2, FS_Subset, Zenon
<1> QED
  BY <1>1, <1>2, ActorAssumption, VouchersAssumption, Zenon

\* Which vouchers laneStates counts: all that were made, all that were accepted.
LEMMA CountedAre ==
  ASSUME VouchersIInv, NEW l \in LaneIds
  PROVE  Counted("payer", l, FALSE) = MadeOn(l) /\ Counted("payee", l, TRUE) = Accepted(l)
<1>1. Counted("payer", l, FALSE) = MadeOn(l)
  BY Zenon DEF VouchersIInv, PayerHasAll, Counted
<1>2. Counted("payee", l, TRUE) = Accepted(l)
  BY Zenon DEF VouchersIInv, PayeeHasSome, Counted, Accepted
<1> QED
  BY <1>1, <1>2, Zenon

(***************************************************************************)
(* laneStates finds the highest amount and nonce of the vouchers that a    *)
(* node has of a lane, although its view of the actor is old: what the     *)
(* view has was paid for with these vouchers.                              *)
(***************************************************************************)
Held(n, l) == IF n = "payer" THEN MadeOn(l) ELSE Accepted(l)

\* laneStates of the payer in make, and of the payee in add.
LEMMA LaneStatesAre ==
  ASSUME VouchersIInv, source = "manager", NEW n, NEW b,
         (n = "payer" /\ b = FALSE) \/ (n = "payee" /\ b = TRUE)
  PROVE  LET ls == laneStates(n, b) IN
         /\ DOMAIN ls \subseteq LaneIds
         /\ \A l \in LaneIds : /\ l \in DOMAIN ls <=> Held(n, l) # {}
                               /\ laneRedeem(ls, l) = Highest(Held(n, l))
         /\ \A l \in DOMAIN ls : ls[l].nonce \in Nat /\ \A v \in Held(n, l) : v.nonce <= ls[l].nonce
         /\ PvTotal([l \in DOMAIN ls |-> ls[l].redeem]) = PvTotal([l \in LaneIds |-> Highest(Held(n, l))])
<1> DEFINE K == [l \in LaneIds |-> Held(n, l)]
           ls == laneStates(n, b)
<1>a. /\ n \in Nodes /\ K \in [LaneIds -> SUBSET made]
      /\ \A l \in LaneIds : /\ K[l] = Held(n, l) /\ Counted(n, l, b) = K[l]
                            /\ Accepted(l) \subseteq K[l] /\ K[l] \subseteq MadeOn(l)
  BY Facts, CountedAre, Zenon DEF Held, Nodes
<1>b. [l \in LaneIds |-> Highest(Held(n, l))] = [l \in LaneIds |-> Highest(K[l])]
  BY Zenon
<1>c. ls = laneStates(n, b)
  BY Zenon
<1> HIDE DEF K, ls
<1> DEFINE vl == view[n].lanes
           known == {l \in MadeLanes : l \in DOMAIN vl \/ K[l] # {}}
<1>1. vl \in LaneMaps /\ FromAccepted(vl)
  BY <1>a, Zenon DEF VouchersIInv, Types, Views, ViewsAreOld
<1>2. DOMAIN vl \subseteq LaneIds
  BY <1>1, Zenon DEF LaneMaps
<1>3. \A l \in LaneIds : K[l] \in SUBSET MadeVouchers /\ IsFiniteSet(K[l])
  BY <1>a, Facts, FS_Subset, Zenon
<1>4. \A l \in DOMAIN vl : \E v \in K[l] : vl[l].redeem = v.amount /\ vl[l].nonce = v.nonce
  <2> SUFFICES ASSUME NEW l \in DOMAIN vl
               PROVE  \E v \in K[l] : vl[l].redeem = v.amount /\ vl[l].nonce = v.nonce
    BY Zenon
  <2>1. PICK v \in Accepted(l) : vl[l] = [redeem |-> v.amount, nonce |-> v.nonce]
    BY <1>1, Zenon DEF FromAccepted
  <2>2. v \in K[l] /\ vl[l].redeem = v.amount /\ vl[l].nonce = v.nonce
    BY <1>2, <1>a, <2>1
  <2> QED
    BY <2>2, Zenon
<1>5. \A l \in LaneIds : \A v \in K[l] : v.lane = l /\ l \in MadeLanes
  BY <1>3, <1>a, MadeFields DEF MadeOn
<1>6. \A l \in LaneIds : l \in known <=> K[l] # {}
  BY <1>2, <1>4, <1>5, Zenon
<1>7. known \subseteq LaneIds
  BY Facts, Zenon
<1>8. /\ DOMAIN ls = known
      /\ \A l \in known :
           /\ ls[l].redeem = Max({v.amount : v \in K[l]} \cup {LaneOf(vl, l).redeem})
           /\ ls[l].nonce = Max({v.nonce : v \in K[l]} \cup {LaneOf(vl, l).nonce})
  <2>1. {l \in MadeLanes : l \in DOMAIN vl \/ Counted(n, l, b) # {}} = known
    BY <1>a, Facts, Zenon
  <2>2. ls = [l \in known |->
                [redeem |-> Max({v.amount : v \in Counted(n, l, b)} \cup {s.redeem : s \in {LaneOf(vl, l)}}),
                 nonce |-> Max({v.nonce : v \in Counted(n, l, b)} \cup {s.nonce : s \in {LaneOf(vl, l)}})]]
    BY <1>c, <2>1, Zenon DEF laneStates
  <2>3. ASSUME NEW l \in known
        PROVE  /\ {s.redeem : s \in {LaneOf(vl, l)}} = {LaneOf(vl, l).redeem}
               /\ {s.nonce : s \in {LaneOf(vl, l)}} = {LaneOf(vl, l).nonce}
               /\ Counted(n, l, b) = K[l]
    BY <1>7, <1>a, Zenon
  <2> HIDE DEF known, vl
  <2> QED
    BY <2>2, <2>3, Zenon
<1>9. ASSUME NEW l \in known
      PROVE  /\ ls[l].redeem = Highest(K[l])
             /\ ls[l].nonce \in Nat /\ \A v \in K[l] : v.nonce <= ls[l].nonce
  <2> DEFINE old == LaneOf(vl, l)
  <2>1. l \in LaneIds /\ K[l] # {} /\ \A v \in K[l] : v.amount \in Nat /\ v.nonce \in Nat
    BY <1>3, <1>6, <1>7, MadeFields, Zenon
  <2>2. \/ old.redeem = 0 /\ old.nonce = 0
        \/ \E v \in K[l] : old.redeem = v.amount /\ old.nonce = v.nonce
    BY <1>4, Zenon DEF LaneOf
  <2> HIDE DEF old
  <2>3. old.redeem \in Nat /\ old.nonce \in Nat
    BY <2>1, <2>2
  <2>4. /\ Highest(K[l]) \in Nat
        /\ \A v \in K[l] : v.amount <= Highest(K[l])
        /\ Highest(K[l]) = 0 \/ \E v \in K[l] : Highest(K[l]) = v.amount
    BY <1>3, <2>1, HighestIs, Zenon
  <2>5. ls[l].redeem = Highest(K[l])
    <3> DEFINE A == {v.amount : v \in K[l]} \cup {old.redeem}
    <3>1. A \in SUBSET Int
      BY <2>1, <2>3
    <3>2. Highest(K[l]) \in A
      <4>1. ASSUME Highest(K[l]) = 0 PROVE \E v \in K[l] : v.amount = 0
        BY <2>1, <2>4, <4>1
      <4> QED
        BY <2>4, <4>1, Zenon
    <3>3. \A x \in A : x <= Highest(K[l])
      BY <2>1, <2>2, <2>4
    <3>4. Max(A) = Highest(K[l])
      <4> HIDE DEF A
      <4> QED
        BY <3>1, <3>2, <3>3, MaxIs, Zenon
    <3> QED
      BY <1>8, <3>4, Zenon DEF old
  <2>6. ls[l].nonce \in Nat /\ \A v \in K[l] : v.nonce <= ls[l].nonce
    <3> DEFINE A == {v.nonce : v \in K[l]} \cup {old.nonce}
    <3>1. A \in SUBSET Int /\ A \subseteq Nat /\ A # {}
      BY <2>1, <2>3
    <3>2. IsFiniteSet({v.nonce : v \in K[l]})
      BY <1>3, <2>1, FieldsFinite, Zenon
    <3>3. IsFiniteSet(A)
      BY <3>2, FS_AddElement, Zenon
    <3>4. Max(A) \in A /\ \A x \in A : x <= Max(A)
      <4> HIDE DEF A
      <4> QED
        BY <3>1, <3>3, MaxTop, Zenon
    <3>5. ls[l].nonce = Max(A)
      BY <1>8, Zenon DEF old
    <3> QED
      BY <3>1, <3>4, <3>5, Zenon
  <2> QED
    BY <2>5, <2>6, Zenon
<1>10. ASSUME NEW l \in LaneIds, l \notin known
       PROVE  Highest(K[l]) = 0
  <2>1. K[l] = {}
    BY <1>6, <1>10, Zenon
  <2> QED
    BY <2>1, <1>3, HighestIs, Zenon
<1> HIDE DEF known, vl
<1>11. \A l \in LaneIds : laneRedeem(ls, l) = Highest(K[l])
  BY <1>8, <1>9, <1>10, Zenon DEF laneRedeem, LaneOf
<1>12. PvTotal([l \in DOMAIN ls |-> ls[l].redeem]) = PvTotal([l \in LaneIds |-> Highest(K[l])])
  <2> DEFINE f == [l \in DOMAIN ls |-> ls[l].redeem]
             g == [l \in LaneIds |-> Highest(K[l])]
  <2>1. DOMAIN f = known /\ DOMAIN g = LaneIds
    BY <1>8, Zenon
  <2>2. \A l \in known : g[l] = f[l]
    BY <1>7, <1>8, <1>9, Zenon
  <2>3. \A l \in LaneIds \ known : g[l] = 0
    BY <1>10, Zenon
  <2> HIDE DEF f, g
  <2>4. PvTotal(f) = PvTotal(g)
    BY <2>1, <2>2, <2>3, <1>7, TotalExtend, Zenon
  <2> QED
    BY <2>4, Zenon DEF f, g
<1> QED
  BY <1>6, <1>7, <1>8, <1>9, <1>11, <1>12, <1>a, <1>b DEF ls

-----------------------------------------------------------------------------
(***************************************************************************)
(* The steps.                                                              *)
(***************************************************************************)

\* A new channel satisfies the invariant.
LEMMA InitIInv == Init => VouchersIInv
<1> SUFFICES ASSUME Init PROVE VouchersIInv
  BY Zenon
<1> USE DEF Init, ActorInit
<1>1. lanes \in LaneMaps /\ DOMAIN lanes = {}
  <2>1. lanes \in [{} -> [redeem : Nat, nonce : Nat]] /\ {} \in SUBSET LaneIds
    BY Zenon
  <2> QED
    BY <2>1, Zenon DEF LaneMaps
<1>2. NewRow \in RowsOf(made) /\ \A l : Entry(NewRow, l) = NewLane
  <2>1. NewRow.lanes \in [{} -> EntriesOf(made)] /\ {} \in SUBSET LaneIds /\ NewRow.next_lane = 0
    BY Zenon DEF NewRow
  <2>2. NewRow \in RowsOf(made)
    BY <2>1, Zenon DEF RowsOf, NewRow
  <2> QED
    BY <2>1, <2>2, Zenon DEF Entry
<1>3. Exists \in BOOLEAN
  BY Zenon DEF Exists
<1>4. Snapshot \in Views
  BY <1>1, <1>3, Zenon DEF Snapshot, Views
<1>5. Types
  BY <1>1, <1>2, <1>4, FS_EmptySet, Zenon DEF Types
<1>6. \A l \in LaneIds : MadeOn(l) = {} /\ Accepted(l) = {} /\ Entry(row["payer"], l).vouchers = {}
  BY <1>2 DEF MadeOn, Accepted, NewLane, Nodes
<1>7. MadeInOrder /\ PayerHasAll /\ PayeeHasSome
  BY <1>6, Zenon DEF MadeInOrder, PayerHasAll, PayeeHasSome
<1>8. PvTotal([l \in LaneIds |-> Highest({})]) = 0 /\ PvTotal(Redeems(lanes)) = 0
  <2>1. Highest({}) = 0
    BY HighestIs, FS_EmptySet, Zenon
  <2>2. Units([l \in LaneIds |-> Highest({})]) = {}
    BY <2>1 DEF Units
  <2>3. Units(Redeems(lanes)) = {}
    BY <1>1, Zenon DEF Units, Redeems
  <2> QED
    BY <2>2, <2>3, FS_EmptySet, Zenon DEF PvTotal
<1>9. LanesAddUp
  BY <1>1, <1>8, Zenon DEF LanesAddUp, FromAccepted
<1>10. ViewsAreOld
  BY <1>1 DEF ViewsAreOld, FromAccepted, Snapshot
<1>11. [l \in LaneIds |-> Highest(MadeOn(l))] = [l \in LaneIds |-> Highest({})]
  BY <1>6, Zenon
<1>12. [l \in LaneIds |-> Highest(Accepted(l))] = [l \in LaneIds |-> Highest({})]
  BY <1>6, Zenon
<1>13. PromisesCovered /\ DeltasAddUp
  BY <1>8, <1>11, <1>12 DEF PromisesCovered, DeltasAddUp
<1>14. ToSendCovered /\ HeldOpen
  BY DEF ToSendCovered, HeldOpen, OpenLongEnough, Exists
<1> QED
  BY <1>5, <1>7, <1>9, <1>10, <1>13, <1>14, Zenon DEF VouchersIInv

\* What the nodes know does not change with the actor alone.
LEMMA NodesUnchanged ==
  ASSUME UNCHANGED <<row, made>>
  PROVE  /\ MadeInOrder' = MadeInOrder /\ PayerHasAll' = PayerHasAll
         /\ PayeeHasSome' = PayeeHasSome
         /\ \A l : MadeOn(l)' = MadeOn(l) /\ Accepted(l)' = Accepted(l)
<1>2. MadeInOrder' = MadeInOrder
  BY Zenon DEF MadeInOrder
<1>3. PayerHasAll' = PayerHasAll
  BY Zenon DEF PayerHasAll, MadeOn
<1>4. PayeeHasSome' = PayeeHasSome
  BY Zenon DEF PayeeHasSome, MadeOn, Accepted
<1>5. \A l : MadeOn(l)' = MadeOn(l) /\ Accepted(l)' = Accepted(l)
  BY Zenon DEF MadeOn, Accepted
<1> QED
  BY <1>2, <1>3, <1>4, <1>5, Zenon

\* Sends, epochs, Settle and Collect.
LEMMA ChainStep == VouchersIInv /\ Chain => VouchersIInv'
<1> SUFFICES ASSUME VouchersIInv, Chain PROVE VouchersIInv'
  BY Zenon
<1> USE DEF VouchersIInv
<1> DEFINE ActorMoves ==
             /\ UNCHANGED <<source, lanes, to_send, min_settling_height, redeemed, row, view, made, received>>
             /\ balance' \in Nat /\ epoch' \in Nat /\ settling_at' \in Nat
             /\ Exists' => Exists /\ balance <= balance'
             /\ ToSendCovered' /\ OpenLongEnough'
<1>1. ActorMoves
  <2>1. ASSUME NEW a \in Sources[source].deposits, Send(a)
        PROVE  ActorMoves
    <3>1. a \in Nat
      BY ActorAssumption, Zenon DEF Types
    <3>2. Exists' = Exists
      BY <2>1, Zenon DEF Send, Exists
    <3>3. balance' \in Nat /\ balance <= balance' /\ to_send \in Nat
      BY <2>1, <3>1 DEF Send, Types
    <3>4. ToSendCovered'
      BY <2>1, <3>2, <3>3 DEF Send, ToSendCovered, Types
    <3>5. OpenLongEnough'
      BY <2>1, <3>2, Zenon DEF Send, OpenLongEnough, HeldOpen
    <3> QED
      BY <2>1, <3>2, <3>3, <3>4, <3>5, Zenon DEF Send, Chain, Types
  <2>2. ASSUME NextEpoch
        PROVE  ActorMoves
    <3>1. Exists' = Exists
      BY <2>2, Zenon DEF NextEpoch, Exists
    <3>2. OpenLongEnough'
      BY <2>2, <3>1 DEF NextEpoch, OpenLongEnough, HeldOpen, Types
    <3> QED
      BY <2>2, <3>1, <3>2 DEF NextEpoch, Chain, Types, ToSendCovered
  <2>3. ASSUME Settle
        PROVE  ActorMoves
    <3>1. Exists' = Exists /\ Exists
      BY <2>3, Zenon DEF Settle, Exists
    <3>2. settling_at' \in Nat /\ settling_at' >= min_settling_height
      <4>1. min_settling_height \in Nat /\ epoch + SettleDelay \in Nat
        BY ActorAssumption DEF Types
      <4> QED
        BY <2>3, <4>1, MaxPair DEF Settle
    <3>3. OpenLongEnough'
      <4>1. \A v \in redeemed : settling_at' >= v.min_close_height
        BY <3>2 DEF HeldOpen, Types
      <4>2. redeemed' = redeemed
        BY <2>3, Zenon DEF Settle
      <4> QED
        BY <3>1, <4>1, <4>2, Zenon DEF OpenLongEnough
    <3> QED
      BY <2>3, <3>1, <3>2, <3>3 DEF Settle, Chain, Types, ToSendCovered
  <2>4. ASSUME Collect
        PROVE  ActorMoves
    <3>1. ~Exists'
      BY <2>4 DEF Collect, Exists, None, Types
    <3>2. OpenLongEnough'
      BY <2>4, <3>1, Zenon DEF Collect, OpenLongEnough, HeldOpen, Types
    <3> QED
      BY <2>4, <3>1, <3>2, Zenon DEF Collect, Chain, Types, ToSendCovered
  <2> QED
    BY <2>1, <2>2, <2>3, <2>4, Zenon DEF Chain
<1>2. Types'
  BY <1>1, NodesUnchanged, Zenon DEF Types
<1>3. MadeInOrder' /\ PayerHasAll' /\ PayeeHasSome'
  BY <1>1, NodesUnchanged, Zenon
<1>4. source' = "manager" => LanesAddUp' /\ ViewsAreOld'
  BY <1>1, NodesUnchanged DEF LanesAddUp, ViewsAreOld, FromAccepted, Redeems, Types, Views
<1>5. PromisesCovered' /\ DeltasAddUp'
  <2>1. /\ [l \in LaneIds |-> Highest(MadeOn(l))]' = [l \in LaneIds |-> Highest(MadeOn(l))]
        /\ [l \in LaneIds |-> Highest(Accepted(l))]' = [l \in LaneIds |-> Highest(Accepted(l))]
    BY <1>1, Zenon DEF MadeOn, Accepted
  <2>2. PvTotal([l \in LaneIds |-> Highest(MadeOn(l))]) \in Nat
    <3>1. \A l \in LaneIds : Highest(MadeOn(l)) \in Nat
      BY Facts, HighestIs, Zenon
    <3> QED
      BY <3>1, Facts, TotalType, Zenon
  <2> QED
    BY <1>1, <2>1, <2>2 DEF PromisesCovered, DeltasAddUp, Types
<1>6. HeldOpen'
  BY <1>1, Zenon DEF HeldOpen
<1> QED
  BY <1>1, <1>2, <1>3, <1>4, <1>5, <1>6, Zenon

\* A node looks at the chain.
LEMMA SyncHeadStep ==
  ASSUME VouchersIInv, source = "manager", NEW n \in Nodes, SyncHead(n)
  PROVE  VouchersIInv'
<1> USE DEF VouchersIInv
<1>1. UNCHANGED <<source, lanes, to_send, settling_at, min_settling_height, balance, epoch, paid, redeemed,
                  row, made, received>>
  BY Zenon DEF SyncHead, actor
<1>2. view' = [view EXCEPT ![n] = Snapshot]
  BY Zenon DEF SyncHead
<1>3. Exists \in BOOLEAN /\ Exists' = Exists
  BY <1>1, Zenon DEF Exists
<1>4. Snapshot \in Views
  BY <1>3, Zenon DEF Snapshot, Views, Types
<1>5. Types'
  BY <1>1, <1>2, <1>4, NodesUnchanged, Zenon DEF Types
<1>6. \A m \in Nodes : view'[m] = IF m = n THEN Snapshot ELSE view[m]
  BY <1>2, Zenon DEF Types
<1>7. LanesAddUp'
  BY <1>1, NodesUnchanged, Zenon DEF LanesAddUp, FromAccepted, Redeems
<1>8. ViewsAreOld'
  <2> SUFFICES ASSUME NEW m \in Nodes
               PROVE  FromAccepted(view[m].lanes)' /\ (Exists' => view'[m].balance <= balance')
    BY Zenon DEF ViewsAreOld
  <2>1. CASE m = n
    <3>1. view'[m].lanes = lanes /\ view'[m].balance = balance
      BY <1>6, <2>1 DEF Snapshot
    <3> QED
      BY <1>1, <3>1, NodesUnchanged DEF FromAccepted, LanesAddUp, Types
  <2>2. CASE m # n
    BY <1>1, <1>3, <1>6, <2>2, NodesUnchanged, SMTT(40) DEF FromAccepted, ViewsAreOld
  <2> QED
    BY <2>1, <2>2, Zenon
<1>9. MadeInOrder' /\ PayerHasAll' /\ PayeeHasSome'
  BY <1>1, NodesUnchanged, Zenon
<1>10. PromisesCovered' /\ DeltasAddUp' /\ ToSendCovered' /\ HeldOpen'
  BY <1>1, <1>3, Zenon DEF PromisesCovered, DeltasAddUp, ToSendCovered, HeldOpen, OpenLongEnough, MadeOn, Accepted
<1> QED
  BY <1>1, <1>5, <1>7, <1>8, <1>9, <1>10, Zenon

\* The payer reserves a lane.
LEMMA NextLaneStep == VouchersIInv /\ nextLane => VouchersIInv'
<1> SUFFICES ASSUME VouchersIInv, nextLane PROVE VouchersIInv'
  BY Zenon
<1> USE DEF VouchersIInv
<1>1. UNCHANGED <<source, lanes, to_send, settling_at, min_settling_height, balance, epoch, paid, redeemed,
                  view, made, received>>
  BY Zenon DEF nextLane, actor
<1>2. PICK l \in Nat : row' = [row EXCEPT !["payer"].next_lane = l + 1]
  BY VouchersAssumption, ActorAssumption, Zenon DEF nextLane
<1>3. row \in [Nodes -> RowsOf(made)] /\ "payer" \in Nodes /\ "payee" \in Nodes
  BY Zenon DEF Types, Nodes
<1>4. row'["payer"].lanes = row["payer"].lanes /\ row'["payer"].next_lane = l + 1 /\ row'["payee"] = row["payee"]
  BY <1>2, <1>3, Zenon DEF RowsOf
<1>5. \A k : Entry(row'["payer"], k) = Entry(row["payer"], k) /\ Entry(row'["payee"], k) = Entry(row["payee"], k)
  BY <1>4, Zenon DEF Entry
<1>6. row' \in [Nodes -> RowsOf(made)]
  <2>1. row'["payer"] = [next_lane |-> l + 1, lanes |-> row["payer"].lanes]
    BY <1>2, <1>3, Zenon DEF RowsOf
  <2>2. row'["payer"] \in RowsOf(made)
    BY <1>3, <2>1 DEF RowsOf
  <2>3. DOMAIN row' = Nodes /\ row' = [m \in Nodes |-> row'[m]] /\ \A m \in Nodes : row'[m] \in RowsOf(made)
    BY <1>2, <1>3, <1>4, <2>2, Zenon DEF Nodes
  <2> QED
    BY <2>3, Zenon
<1>7. Types'
  BY <1>1, <1>6, Zenon DEF Types
<1>8. \A k : MadeOn(k)' = MadeOn(k) /\ Accepted(k)' = Accepted(k)
  BY <1>1, <1>5, Zenon DEF MadeOn, Accepted
<1>9. MadeInOrder' /\ PayerHasAll' /\ PayeeHasSome'
  BY <1>1, <1>5, <1>8, Zenon DEF MadeInOrder, PayerHasAll, PayeeHasSome
<1>10. source' = "manager" => LanesAddUp' /\ ViewsAreOld'
  BY <1>1, <1>8, Zenon DEF LanesAddUp, ViewsAreOld, FromAccepted, Redeems, Exists
<1>11. PromisesCovered' /\ DeltasAddUp' /\ ToSendCovered' /\ HeldOpen'
  BY <1>1, <1>8, Zenon DEF PromisesCovered, DeltasAddUp, ToSendCovered, HeldOpen, OpenLongEnough, Exists
<1> QED
  BY <1>1, <1>7, <1>9, <1>10, <1>11, Zenon

\* make: the new voucher is the newest and the highest of its lane, and the balance covers it.
LEMMA MakeStep ==
  ASSUME VouchersIInv, source = "manager", NEW l \in MadeLanes, NEW a \in Amounts, make(l, a)
  PROVE  VouchersIInv'
<1> USE DEF VouchersIInv
<1> DEFINE ls == laneStates("payer", FALSE)
           v == Voucher(l, IF l \in DOMAIN ls THEN ls[l].nonce + 1 ELSE 0, a)
           e == Entry(row["payer"], l)
           H == [k \in LaneIds |-> Highest(MadeOn(k))]
<1>1. /\ a - laneRedeem(ls, l) > 0
      /\ PvTotal([k \in DOMAIN ls |-> ls[k].redeem]) + (a - laneRedeem(ls, l)) <= view["payer"].balance
      /\ row' = [row EXCEPT !["payer"] = Put(@, l, [e EXCEPT !.vouchers = @ \cup {v}])]
      /\ made' = made \cup {v}
  BY Zenon DEF make, Affordable
<1>2. UNCHANGED <<source, lanes, to_send, settling_at, min_settling_height, balance, epoch, paid, redeemed,
                  view, received>>
  BY Zenon DEF make, actor
<1>3. l \in LaneIds /\ a \in Int /\ "payer" \in Nodes /\ "payee" \in Nodes
  BY VouchersAssumption, Zenon DEF Nodes
<1>4. /\ laneRedeem(ls, l) = Highest(MadeOn(l))
      /\ l \in DOMAIN ls <=> MadeOn(l) # {}
      /\ l \in DOMAIN ls => ls[l].nonce \in Nat /\ \A w \in MadeOn(l) : w.nonce <= ls[l].nonce
      /\ PvTotal([k \in DOMAIN ls |-> ls[k].redeem]) = PvTotal(H)
  <2>1. /\ \A k \in LaneIds : (k \in DOMAIN ls <=> Held("payer", k) # {})
                             /\ laneRedeem(ls, k) = Highest(Held("payer", k))
        /\ \A k \in DOMAIN ls : ls[k].nonce \in Nat /\ \A w \in Held("payer", k) : w.nonce <= ls[k].nonce
        /\ PvTotal([k \in DOMAIN ls |-> ls[k].redeem]) = PvTotal([k \in LaneIds |-> Highest(Held("payer", k))])
    <3> HIDE DEF VouchersIInv
    <3> QED
      BY LaneStatesAre, Zenon
  <2>2. \A k : Held("payer", k) = MadeOn(k)
    BY Zenon DEF Held
  <2>3. [k \in LaneIds |-> Highest(Held("payer", k))] = H
    BY <2>2, Zenon
  <2> HIDE DEF ls, H
  <2> QED
    BY <1>3, <2>1, <2>2, <2>3, Zenon
<1> HIDE DEF ls
<1>5. MadeOn(l) \in SUBSET MadeVouchers /\ IsFiniteSet(MadeOn(l)) /\ Highest(MadeOn(l)) \in Nat
  BY <1>3, Facts, HighestIs, Zenon
<1>6. a \in Nat /\ a > Highest(MadeOn(l))
  BY <1>1, <1>3, <1>4, <1>5
<1>7. /\ v \in MadeVouchers /\ v.lane = l /\ v.amount = a
      /\ \A w \in MadeOn(l) : w.nonce < v.nonce /\ w.amount < v.amount
  <2> DEFINE n == IF l \in DOMAIN ls THEN ls[l].nonce + 1 ELSE 0
  <2>1. n \in Nat /\ v = Voucher(l, n, a)
    BY <1>4
  <2>2. \A w \in MadeOn(l) : w.nonce \in Nat /\ w.amount \in Nat
    BY <1>5, MadeFields, Zenon
  <2>3. \A w \in MadeOn(l) : w.nonce < n
    BY <1>4, <2>2
  <2>4. \A w \in MadeOn(l) : w.amount < a
    BY <1>5, <1>6, <2>2, HighestIs
  <2> HIDE DEF n
  <2>5. v \in MadeVouchers
    BY <1>6, <2>1 DEF MadeVouchers
  <2>6. v.lane = l /\ v.amount = a /\ v.nonce = n
    BY <2>1, Zenon DEF Voucher
  <2> HIDE DEF v
  <2> QED
    BY <2>3, <2>4, <2>5, <2>6, Zenon
<1> HIDE DEF v
<1>8. made' \subseteq MadeVouchers /\ IsFiniteSet(made') /\ made \subseteq made' /\ v \in made'
  BY <1>1, <1>7, Facts, FS_AddElement, Zenon
<1>9. /\ MadeOn(l)' = MadeOn(l) \cup {v}
      /\ \A k \in LaneIds \ {l} : MadeOn(k)' = MadeOn(k)
  BY <1>1, <1>7, Zenon DEF MadeOn
<1>10. row["payer"] \in RowsOf(made') /\ row["payee"] \in RowsOf(made') /\ e \in EntriesOf(made)
  BY <1>3, <1>8, RowsGrow, EntryType, Zenon DEF Types
<1> DEFINE en == [e EXCEPT !.vouchers = @ \cup {v}]
<1>11. en \in EntriesOf(made') /\ en.vouchers = MadeOn(l) \cup {v}
  <2>1. e.vouchers = MadeOn(l)
    BY <1>3, Zenon DEF PayerHasAll
  <2> QED
    BY <1>8, <1>10, <2>1, Zenon DEF EntriesOf
<1> HIDE DEF en, e
<1>12. /\ Put(row["payer"], l, en) \in RowsOf(made')
       /\ Entry(Put(row["payer"], l, en), l) = en
       /\ \A k \in LaneIds \ {l} : Entry(Put(row["payer"], l, en), k) = Entry(row["payer"], k)
  BY <1>3, <1>10, <1>11, PutEntry
<1>13. row' \in [Nodes -> RowsOf(made')] /\ row'["payer"] = Put(row["payer"], l, en) /\ row'["payee"] = row["payee"]
  BY <1>1, <1>3, <1>10, <1>12, Zenon DEF Types, en, Nodes
<1>14. Types'
  BY <1>2, <1>8, <1>13, Zenon DEF Types
<1>15. MadeInOrder'
  <2> SUFFICES ASSUME NEW x \in made', NEW y \in made', x.lane = y.lane
               PROVE  x.nonce < y.nonce <=> x.amount < y.amount
    BY Zenon DEF MadeInOrder
  <2>1. x.nonce \in Nat /\ y.nonce \in Nat /\ x.amount \in Nat /\ y.amount \in Nat
    BY <1>8, MadeFields, Zenon
  <2>2. CASE x \in made /\ y \in made
    BY <2>2, Zenon DEF MadeInOrder
  <2>3. CASE x = v /\ y = v
    BY <2>1, <2>3
  <2>4. CASE x = v /\ y \in made
    <3>1. y \in MadeOn(l)
      BY <1>7, <2>4, Zenon DEF MadeOn
    <3> QED
      BY <1>7, <2>1, <2>4, <3>1
  <2>5. CASE x \in made /\ y = v
    <3>1. x \in MadeOn(l)
      BY <1>7, <2>5, Zenon DEF MadeOn
    <3> QED
      BY <1>7, <2>1, <2>5, <3>1, Zenon
  <2> QED
    BY <1>1, <2>2, <2>3, <2>4, <2>5, Zenon
<1>16. \A k : Accepted(k)' = Accepted(k) /\ Entry(row["payee"], k)' = Entry(row["payee"], k)
  BY <1>13, Zenon DEF Accepted
<1>17. PayerHasAll'
  <2> SUFFICES ASSUME NEW k \in LaneIds
               PROVE  Entry(row'["payer"], k).vouchers = MadeOn(k)'
    BY Zenon DEF PayerHasAll
  <2> QED
    BY <1>9, <1>11, <1>12, <1>13, Zenon DEF PayerHasAll
<1>18. PayeeHasSome'
  BY <1>9, <1>16, Zenon DEF PayeeHasSome
<1>19. LanesAddUp' /\ ViewsAreOld'
  BY <1>2, <1>16, Zenon DEF LanesAddUp, ViewsAreOld, FromAccepted, Redeems, Exists
<1>20. PromisesCovered'
  <2> DEFINE G == [k \in LaneIds |-> Highest(MadeOn(k)')]
  <2>1. H \in [LaneIds -> Nat]
    BY Facts, HighestIs, Zenon
  <2>2. Highest(MadeOn(l)') = a
    BY <1>5, <1>6, <1>7, <1>9, HighestAdd, Zenon
  <2>3. G \in [LaneIds -> Nat] /\ G[l] = a /\ \A k \in LaneIds \ {l} : G[k] = H[k]
    BY <1>3, <1>6, <1>9, <2>1, <2>2, Zenon
  <2>4. H[l] = Highest(MadeOn(l))
    BY <1>3, Zenon
  <2>5. [k \in LaneIds |-> Highest(MadeOn(k))]' = G
    BY Zenon DEF Highest
  <2> HIDE DEF G, H
  <2>6. PvTotal(G) = PvTotal(H) - H[l] + G[l] /\ PvTotal(H) \in Nat
    BY <1>3, <2>1, <2>3, Facts, TotalUpdate, TotalType
  <2>7. PvTotal(G) <= view["payer"].balance
    BY <1>1, <1>3, <1>4, <1>5, <2>3, <2>4, <2>6
  <2>8. Exists => view["payer"].balance <= balance
    BY <1>3, Zenon DEF ViewsAreOld
  <2>9. view["payer"].balance \in Nat /\ balance \in Nat /\ PvTotal(G) \in Nat
    <3>1. PvTotal(G) \in Nat
      BY <2>3, Facts, TotalType, Zenon
    <3> QED
      BY <1>3, <3>1, Zenon DEF Types, Views
  <2>10. Exists => PvTotal(G) <= balance
    BY <2>7, <2>8, <2>9
  <2>11. Exists' = Exists /\ balance' = balance
    BY <1>2, Zenon DEF Exists
  <2>12. PvTotal([k \in LaneIds |-> Highest(MadeOn(k))])' = PvTotal(G)
    BY <2>5, Zenon
  <2> QED
    BY <2>10, <2>11, <2>12, Zenon DEF PromisesCovered
<1>21. DeltasAddUp' /\ ToSendCovered' /\ HeldOpen'
  BY <1>2, <1>16, Zenon DEF DeltasAddUp, ToSendCovered, HeldOpen, OpenLongEnough, Exists
<1> QED
  BY <1>2, <1>14, <1>15, <1>17, <1>18, <1>19, <1>20, <1>21, Zenon

\* add: the accepted voucher is the newest and the highest of those the payee has of its lane.
LEMMA AddStep ==
  ASSUME VouchersIInv, NEW v \in made, NEW d, add(v, d)
  PROVE  VouchersIInv'
<1> USE DEF VouchersIInv
<1> DEFINE ls == laneStates("payee", TRUE)
           l == v.lane
           e == Entry(row["payee"], l)
           en == [added_nonce |-> v.nonce, vouchers |-> e.vouchers \cup {v}]
           H == [k \in LaneIds |-> Highest(Accepted(k))]
<1>1. /\ l \in DOMAIN ls => v.nonce > ls[l].nonce
      /\ v.amount - laneRedeem(ls, l) > 0
      /\ row' = [row EXCEPT !["payee"] = Put(@, l, en)]
      /\ received' = received + (v.amount - laneRedeem(ls, l))
  BY Zenon DEF add, check, Delta
<1>2. UNCHANGED <<source, lanes, to_send, settling_at, min_settling_height, balance, epoch, paid, redeemed,
                  view, made>>
  BY Zenon DEF add, actor
<1>3. /\ source = "manager" /\ "payer" \in Nodes /\ "payee" \in Nodes
      /\ v \in MadeVouchers /\ l \in LaneIds /\ v.nonce \in Nat /\ v.amount \in Nat
  BY Facts, MadeFields, Zenon DEF Nodes
<1>4. /\ laneRedeem(ls, l) = Highest(Accepted(l))
      /\ l \in DOMAIN ls <=> Accepted(l) # {}
      /\ l \in DOMAIN ls => ls[l].nonce \in Nat /\ \A w \in Accepted(l) : w.nonce <= ls[l].nonce
  <2>1. /\ \A k \in LaneIds : (k \in DOMAIN ls <=> Held("payee", k) # {})
                             /\ laneRedeem(ls, k) = Highest(Held("payee", k))
        /\ \A k \in DOMAIN ls : ls[k].nonce \in Nat /\ \A w \in Held("payee", k) : w.nonce <= ls[k].nonce
    <3> HIDE DEF VouchersIInv
    <3> QED
      BY <1>3, LaneStatesAre, Zenon
  <2>2. \A k : Held("payee", k) = Accepted(k)
    BY Zenon DEF Held
  <2> HIDE DEF ls, l
  <2> QED
    BY <1>3, <2>1, <2>2, Zenon
<1> HIDE DEF ls
<1>5. /\ Accepted(l) \in SUBSET MadeVouchers /\ IsFiniteSet(Accepted(l))
      /\ Highest(Accepted(l)) \in Nat /\ v.amount > Highest(Accepted(l))
  <2>1. Accepted(l) \in SUBSET MadeVouchers /\ IsFiniteSet(Accepted(l))
    BY <1>3, Facts, Zenon
  <2>2. Highest(Accepted(l)) \in Nat
    BY <2>1, HighestIs, Zenon
  <2> QED
    BY <1>1, <1>3, <1>4, <2>1, <2>2
<1>6. \A w \in Accepted(l) : w.nonce < v.nonce
  <2>1. \A w \in Accepted(l) : w.nonce \in Nat
    BY <1>5, MadeFields, Zenon
  <2> QED
    BY <1>1, <1>3, <1>4, <2>1
<1>7. e.vouchers = Accepted(l)
  BY Zenon DEF Accepted
<1>8. row["payee"] \in RowsOf(made) /\ en \in EntriesOf(made) /\ en.vouchers = Accepted(l) \cup {v} /\ en.added_nonce = v.nonce
  <2>1. Accepted(l) \in SUBSET made
    BY <1>3, Facts, Zenon
  <2> QED
    BY <1>3, <1>7, <2>1 DEF Types, EntriesOf
<1> HIDE DEF en, e
<1>9. /\ Put(row["payee"], l, en) \in RowsOf(made)
      /\ Entry(Put(row["payee"], l, en), l) = en
      /\ \A k \in LaneIds \ {l} : Entry(Put(row["payee"], l, en), k) = Entry(row["payee"], k)
  BY <1>3, <1>8, PutEntry
<1>10. /\ row' \in [Nodes -> RowsOf(made)]
       /\ row'["payee"] = Put(row["payee"], l, en) /\ row'["payer"] = row["payer"]
  BY <1>1, <1>3, <1>9, Zenon DEF Types, Nodes
<1>11. Accepted(l)' = Accepted(l) \cup {v} /\ \A k \in LaneIds \ {l} : Accepted(k)' = Accepted(k)
  <2>1. Entry(row'["payee"], l).vouchers = Accepted(l) \cup {v}
    BY <1>8, <1>9, <1>10, Zenon
  <2>2. \A k \in LaneIds \ {l} : Entry(row'["payee"], k) = Entry(row["payee"], k)
    BY <1>9, <1>10, Zenon
  <2>3. l' = l
    BY <1>2, Zenon
  <2> QED
    BY <2>1, <2>2, Zenon DEF Accepted
<1>12. Types'
  <2>1. received' \in Nat
    BY <1>1, <1>3, <1>4, <1>5 DEF Types
  <2> QED
    BY <1>2, <1>10, <2>1, Zenon DEF Types
<1>13. MadeInOrder' /\ PayerHasAll' /\ \A k : MadeOn(k)' = MadeOn(k)
  BY <1>2, <1>10, Zenon DEF MadeInOrder, PayerHasAll, MadeOn
<1>14. PayeeHasSome'
  <2> SUFFICES ASSUME NEW k \in LaneIds
               PROVE  /\ Accepted(k)' \subseteq MadeOn(k)'
                      /\ \A w \in Accepted(k)' : w.nonce <= Entry(row'["payee"], k).added_nonce
    BY Zenon DEF PayeeHasSome
  <2>1. CASE k = l
    <3>1. Accepted(k)' \subseteq MadeOn(k)'
      BY <1>3, <1>11, <1>13, <2>1 DEF PayeeHasSome, MadeOn
    <3>2. Entry(row'["payee"], k).added_nonce = v.nonce
      BY <1>8, <1>9, <1>10, <2>1, Zenon
    <3>3. \A w \in Accepted(k)' : w.nonce <= v.nonce
      <4>1. \A w \in Accepted(l) : w.nonce \in Nat
        BY <1>5, MadeFields, Zenon
      <4> QED
        BY <1>3, <1>6, <1>11, <2>1, <4>1
    <3> QED
      BY <3>1, <3>2, <3>3, Zenon
  <2>2. CASE k # l
    <3>1. Entry(row'["payee"], k) = Entry(row["payee"], k) /\ Accepted(k)' = Accepted(k)
      BY <1>9, <1>10, <1>11, <2>2, Zenon
    <3> QED
      BY <1>13, <3>1, Zenon DEF PayeeHasSome
  <2> QED
    BY <2>1, <2>2, Zenon
<1>15. \A k \in LaneIds : Accepted(k) \subseteq Accepted(k)'
  BY <1>11, Zenon
<1>16. ASSUME NEW m \in LaneMaps, FromAccepted(m)
       PROVE  \A k \in DOMAIN m : \E w \in Accepted(k)' : m[k] = [redeem |-> w.amount, nonce |-> w.nonce]
  <2>1. DOMAIN m \subseteq LaneIds
    BY Zenon DEF LaneMaps
  <2> QED
    BY <1>15, <1>16, <2>1, Zenon DEF FromAccepted
<1>17. LanesAddUp' /\ ViewsAreOld'
  <2>1. FromAccepted(lanes)'
    BY <1>2, <1>3, <1>16, Zenon DEF FromAccepted, LanesAddUp, Types
  <2>2. ASSUME NEW n \in Nodes PROVE FromAccepted(view[n].lanes)'
    <3>1. view[n].lanes \in LaneMaps /\ FromAccepted(view[n].lanes)
      BY <1>3, Zenon DEF Types, Views, ViewsAreOld
    <3>2. view'[n].lanes = view[n].lanes
      BY <1>2, Zenon
    <3>3. \A k \in DOMAIN view[n].lanes :
            \E w \in Accepted(k)' : view[n].lanes[k] = [redeem |-> w.amount, nonce |-> w.nonce]
      BY <1>16, <3>1, Zenon
    <3> QED
      BY <3>2, <3>3, Zenon DEF FromAccepted
  <2> QED
    BY <1>2, <1>3, <2>1, <2>2, Zenon DEF LanesAddUp, ViewsAreOld, Redeems, Exists
<1>18. DeltasAddUp'
  <2> DEFINE G == [k \in LaneIds |-> Highest(Accepted(k)')]
  <2>1. H \in [LaneIds -> Nat]
    BY Facts, HighestIs, Zenon
  <2>2. Highest(Accepted(l)') = v.amount
    BY <1>3, <1>5, <1>11, HighestAdd, Zenon
  <2>3. G \in [LaneIds -> Nat] /\ G[l] = v.amount /\ \A k \in LaneIds \ {l} : G[k] = H[k]
    BY <1>3, <1>11, <2>1, <2>2, Zenon
  <2>4. H[l] = Highest(Accepted(l))
    BY <1>3, Zenon
  <2>5. [k \in LaneIds |-> Highest(Accepted(k))]' = G
    BY Zenon DEF Highest
  <2>6. received = PvTotal(H)
    BY Zenon DEF DeltasAddUp
  <2> HIDE DEF G, H
  <2>7. PvTotal(G) = PvTotal(H) - H[l] + G[l] /\ PvTotal(H) \in Nat
    BY <1>3, <2>1, <2>3, Facts, TotalUpdate, TotalType
  <2>8. received' = PvTotal(G)
    <3>1. received' = received + (v.amount - laneRedeem(ls, l))
      BY <1>1, Zenon
    <3>2. laneRedeem(ls, l) = H[l]
      BY <1>4, <2>4, Zenon
    <3>3. v.amount \in Nat /\ G[l] = v.amount /\ H[l] \in Nat
      BY <1>3, <1>5, <2>1, <2>3, Zenon
    <3> QED
      BY <2>6, <2>7, <3>1, <3>2, <3>3
  <2>9. PvTotal([k \in LaneIds |-> Highest(Accepted(k))])' = PvTotal(G)
    BY <2>5, Zenon
  <2> QED
    BY <2>8, <2>9, Zenon DEF DeltasAddUp
<1>19. PromisesCovered' /\ ToSendCovered' /\ HeldOpen'
  BY <1>2, <1>13, Zenon DEF PromisesCovered, ToSendCovered, HeldOpen, OpenLongEnough, Exists
<1> QED
  BY <1>2, <1>3, <1>12, <1>13, <1>14, <1>17, <1>18, <1>19, Zenon

-----------------------------------------------------------------------------
(***************************************************************************)
(* Redeeming.                                                              *)
(***************************************************************************)
AnyShape == [lane : Nat, nonce : Nat, amount : Int, merges : Seq([lane : Nat, nonce : Nat]),
             min_close_height : Int, time_lock_min : Int, time_lock_max : Int]

\* Made vouchers have the shape of vouchers.
LEMMA MadeShape == MadeVouchers \subseteq AnyShape
<1> SUFFICES ASSUME NEW l \in MadeLanes, NEW n \in Nat, NEW a \in Nat
             PROVE  Voucher(l, n, a) \in AnyShape
  BY DEF MadeVouchers
<1>1. l \in Nat
  BY ActorAssumption, VouchersAssumption, Zenon
<1>2. <<>> \in Seq([lane : Nat, nonce : Nat])
  OBVIOUS
<1> QED
  BY <1>1, <1>2 DEF Voucher, AnyShape

\* A lane that merges raise keeps its type.
LEMMA MergedLaneType ==
  ASSUME NEW v \in AnyShape, NEW l \in DOMAIN lanes, lanes \in LaneMaps
  PROVE  MergedLane(v, l) \in [redeem : Nat, nonce : Nat]
<1> DEFINE I == {j \in DOMAIN v.merges : v.merges[j].lane = l}
           N == {v.merges[i].nonce : i \in I}
<1>1. lanes[l].redeem \in Nat /\ lanes[l].nonce \in Nat
  BY Zenon DEF LaneMaps
<1>2. v.merges \in Seq([lane : Nat, nonce : Nat])
  BY Zenon DEF AnyShape
<1>3. DOMAIN v.merges = 1..Len(v.merges) /\ Len(v.merges) \in Nat
  BY <1>2
<1>4. IsFiniteSet(DOMAIN v.merges)
  BY <1>3, FS_Interval
<1>5. IsFiniteSet(I)
  BY <1>4, FS_Subset, Zenon
<1>6. IsFiniteSet(N)
  <2>1. [i \in I |-> v.merges[i].nonce] \in Surjection(I, N)
    BY Zenon DEF Surjection
  <2> HIDE DEF I, N
  <2> QED
    BY <1>5, <2>1, FS_Surjection, Zenon
<1>7. N \subseteq Nat
  <2>1. \A i \in DOMAIN v.merges : v.merges[i] \in [lane : Nat, nonce : Nat]
    <3> DEFINE M == [lane : Nat, nonce : Nat]
               ms == v.merges
    <3>1. ms \in Seq(M) /\ DOMAIN ms = 1..Len(ms)
      BY <1>2, <1>3, Zenon
    <3> HIDE DEF M, ms
    <3>2. \A i \in DOMAIN ms : ms[i] \in M
      BY <3>1
    <3> QED
      BY <3>2, Zenon DEF M, ms
  <2>2. \A i \in DOMAIN v.merges : v.merges[i].nonce \in Nat
    BY <2>1, Zenon
  <2> QED
    BY <2>2, Zenon
<1> DEFINE A == {lanes[l].nonce} \cup N
<1>8. IsFiniteSet(A) /\ A \in SUBSET Int /\ A # {} /\ A \subseteq Nat
  <2> HIDE DEF N
  <2>1. A = N \cup {lanes[l].nonce}
    BY Zenon
  <2>2. IsFiniteSet(N \cup {lanes[l].nonce})
    BY <1>6, FS_AddElement, Zenon
  <2>3. A \subseteq Nat /\ A # {}
    BY <1>1, <1>7, Zenon
  <2> HIDE DEF A
  <2> QED
    BY <2>1, <2>2, <2>3
<1>9. MergedLane(v, l) = [redeem |-> lanes[l].redeem, nonce |-> Max(A)]
  BY Zenon DEF MergedLane, MergedNonces
<1>10. Max(A) \in Nat
  <2> HIDE DEF A
  <2> QED
    BY <1>8, MaxTop, Zenon
<1> HIDE DEF A
<1> QED
  BY <1>1, <1>9, <1>10

\* UpdateChannelState keeps the actor's types, its funds and its closing heights.
LEMMA UpdateKeeps ==
  ASSUME VouchersIInv, NEW v \in AnyShape, UpdateChannelState(v)
  PROVE  /\ lanes' \in LaneMaps /\ to_send' \in Nat /\ settling_at' \in Nat /\ min_settling_height' \in Nat
         /\ UNCHANGED <<source, balance, epoch, paid>>
         /\ v.lane \in LaneIds /\ ToSendCovered' /\ HeldOpen'
<1> USE DEF VouchersIInv
<1>1. v.lane \in LaneIds /\ v.nonce \in Nat /\ v.amount \in Nat /\ v.min_close_height \in Int
  BY DEF UpdateChannelState, calculate, checkVoucher, AnyShape
<1>2. UNCHANGED <<source, balance, epoch, paid>> /\ Exists /\ Exists'
  BY Zenon DEF UpdateChannelState, Exists
<1>3. lanes' \in LaneMaps
  <2>1. PICK D \in SUBSET LaneIds : lanes \in [D -> [redeem : Nat, nonce : Nat]]
    BY Zenon DEF Types, LaneMaps
  <2>2. \A l \in D : MergedLane(v, l) \in [redeem : Nat, nonce : Nat]
    BY <2>1, MergedLaneType, Zenon DEF Types
  <2>3. lanes' = [l \in D \cup {v.lane} |->
                    IF l = v.lane THEN [redeem |-> v.amount, nonce |-> v.nonce] ELSE MergedLane(v, l)]
    BY <2>1, Zenon DEF UpdateChannelState
  <2>4. lanes' \in [D \cup {v.lane} -> [redeem : Nat, nonce : Nat]]
    BY <1>1, <2>2, <2>3, Zenon
  <2> QED
    BY <1>1, <2>4 DEF LaneMaps
<1>4. to_send' \in 0..balance
  BY Zenon DEF UpdateChannelState, calculate
<1>5. ToSendCovered' /\ to_send' \in Nat
  BY <1>2, <1>4 DEF ToSendCovered, Types
<1>6. /\ min_settling_height' \in Nat /\ min_settling_height' >= min_settling_height
      /\ min_settling_height' >= v.min_close_height
  BY <1>1, MaxPair DEF UpdateChannelState, Closing, Types
<1>7. /\ settling_at' \in Nat /\ settling_at' >= settling_at /\ (settling_at' # 0 => settling_at # 0)
      /\ settling_at # 0 => settling_at' >= v.min_close_height
  <2>1. settling_at' = IF v.min_close_height # 0 /\ settling_at # 0
                       THEN Max({settling_at, v.min_close_height}) ELSE settling_at
    BY Zenon DEF UpdateChannelState, Closing
  <2>2. settling_at \in Nat
    BY Zenon DEF Types
  <2> QED
    BY <1>1, <2>1, <2>2, MaxPair
<1>8. redeemed' = redeemed \cup {v}
  BY Zenon DEF UpdateChannelState
<1>9. \A w \in redeemed' : min_settling_height' >= w.min_close_height /\ w.min_close_height \in Int
  BY <1>1, <1>6, <1>8 DEF HeldOpen, Types
<1>10. settling_at' # 0 => \A w \in redeemed' : settling_at' >= w.min_close_height
  BY <1>1, <1>7, <1>8 DEF HeldOpen, OpenLongEnough, Types
<1>11. HeldOpen'
  BY <1>2, <1>9, <1>10, Zenon DEF HeldOpen, OpenLongEnough
<1> QED
  BY <1>1, <1>2, <1>3, <1>5, <1>6, <1>7, <1>11, Zenon

\* Redeeming a voucher changes nothing at the nodes.
LEMMA UpdateIInv ==
  ASSUME VouchersIInv, NEW v \in AnyShape, UpdateChannelState(v), UNCHANGED <<row, view, made, received>>,
         source = "manager" => LanesAddUp'
  PROVE  VouchersIInv'
<1> USE DEF VouchersIInv
<1>1. Types'
  BY UpdateKeeps, Zenon DEF Types
<1>2. MadeInOrder' /\ PayerHasAll' /\ PayeeHasSome' /\ \A l : MadeOn(l)' = MadeOn(l) /\ Accepted(l)' = Accepted(l)
  BY NodesUnchanged, Zenon
<1>3. Exists' = Exists /\ balance' = balance /\ source' = source
  BY UpdateKeeps, Zenon DEF Exists
<1>4. source = "manager" => ViewsAreOld'
  BY <1>2, <1>3, Zenon DEF ViewsAreOld, FromAccepted
<1>5. PromisesCovered' /\ DeltasAddUp'
  BY <1>2, <1>3, Zenon DEF PromisesCovered, DeltasAddUp
<1> QED
  BY <1>1, <1>2, <1>3, <1>4, <1>5, UpdateKeeps, Zenon

\* A payer that signs what it likes.
LEMMA RedeemAnyStep ==
  ASSUME VouchersIInv, NEW v \in AnyVouchers, RedeemAny(v)
  PROVE  VouchersIInv'
<1>1. v \in AnyShape
  BY VouchersAssumption, Zenon DEF AnyShape
<1>2. UpdateChannelState(v) /\ UNCHANGED <<row, view, made, received>> /\ source # "manager"
  BY Zenon DEF RedeemAny
<1> QED
  BY <1>1, <1>2, UpdateIInv, Zenon

\* A made voucher has no merges.
LEMMA NoMerges ==
  ASSUME VouchersIInv, NEW v \in MadeVouchers
  PROVE  /\ MergesOk(v) /\ MergedRedeem(v) = 0
         /\ \A l \in DOMAIN lanes : MergedLane(v, l) = lanes[l]
<1>1. v.merges = <<>> /\ DOMAIN v.merges = {}
  BY MadeFields
<1>2. MergesOk(v)
  BY <1>1, Zenon DEF MergesOk
<1>3. MergedRedeem(v) = 0
  <2>1. Units([i \in DOMAIN v.merges |-> LaneOf(lanes, v.merges[i].lane).redeem]) = {}
    BY <1>1, Zenon DEF Units
  <2> QED
    BY <2>1, FS_EmptySet, Zenon DEF MergedRedeem, PvTotal
<1>4. ASSUME NEW l \in DOMAIN lanes
      PROVE  MergedLane(v, l) = lanes[l]
  <2>1. lanes[l] \in [redeem : Nat, nonce : Nat]
    BY DEF VouchersIInv, Types, LaneMaps
  <2>2. MergedNonces(v, l) = {}
    BY <1>1, Zenon DEF MergedNonces
  <2>3. {lanes[l].nonce} \cup MergedNonces(v, l) = {lanes[l].nonce} /\ lanes[l].nonce \in Int
    BY <2>1, <2>2
  <2>4. Max({lanes[l].nonce}) = lanes[l].nonce
    BY <2>3, MaxIs
  <2> QED
    BY <2>1, <2>3, <2>4, Zenon DEF MergedLane
<1> QED
  BY <1>2, <1>3, <1>4, Zenon

\* What the lanes have redeemed, over all lanes.
LEMMA RedeemsExtend ==
  ASSUME NEW m \in LaneMaps
  PROVE  /\ [l \in LaneIds |-> LaneOf(m, l).redeem] \in [LaneIds -> Nat]
         /\ PvTotal(Redeems(m)) = PvTotal([l \in LaneIds |-> LaneOf(m, l).redeem])
<1> DEFINE f == Redeems(m)
           g == [l \in LaneIds |-> LaneOf(m, l).redeem]
<1>1. DOMAIN m \subseteq LaneIds /\ \A l \in DOMAIN m : m[l] \in [redeem : Nat, nonce : Nat]
  BY DEF LaneMaps
<1>2. g \in [LaneIds -> Nat]
  BY <1>1, Zenon DEF LaneOf
<1>3. /\ DOMAIN f = DOMAIN m /\ DOMAIN g = LaneIds
      /\ \A l \in DOMAIN m : g[l] = f[l]
      /\ \A l \in LaneIds \ DOMAIN m : g[l] = 0
  BY <1>1, Zenon DEF LaneOf, Redeems
<1> HIDE DEF f, g
<1>4. PvTotal(f) = PvTotal(g)
  BY <1>1, <1>3, TotalExtend, Zenon
<1> QED
  BY <1>2, <1>4, Zenon DEF f, g

\* The payee redeems an accepted voucher.
LEMMA RedeemStep ==
  ASSUME VouchersIInv, NEW v \in made, Redeem(v)
  PROVE  VouchersIInv'
<1>1. v \in MadeVouchers /\ v \in AnyShape /\ source = "manager"
  BY Facts, MadeShape, Zenon DEF VouchersIInv
<1>2. UpdateChannelState(v) /\ UNCHANGED <<row, view, made, received>> /\ v \in Accepted(v.lane)
  BY Zenon DEF Redeem, Accepted
<1>3. v.lane \in LaneIds /\ v.amount \in Nat
  BY <1>1, MadeFields, Zenon
<1>4. lanes \in LaneMaps /\ to_send = PvTotal(Redeems(lanes)) /\ FromAccepted(lanes)
  BY <1>1, Zenon DEF VouchersIInv, Types, LanesAddUp
<1>5. lanes' = [l \in DOMAIN lanes \cup {v.lane} |->
                  IF l = v.lane THEN [redeem |-> v.amount, nonce |-> v.nonce] ELSE lanes[l]]
  BY <1>1, <1>2, NoMerges, Zenon DEF UpdateChannelState
<1>6. to_send' = to_send + v.amount - LaneOf(lanes, v.lane).redeem
  <2>1. to_send' = to_send + v.amount - (0 + LaneOf(lanes, v.lane).redeem)
    BY <1>1, <1>2, NoMerges, Zenon DEF UpdateChannelState, SendBalance
  <2>2. LaneOf(lanes, v.lane).redeem \in Nat
    BY <1>4, Zenon DEF LaneMaps, LaneOf
  <2> QED
    BY <2>1, <2>2
<1>7. lanes' \in LaneMaps
  BY <1>1, <1>2, UpdateKeeps, Zenon
<1>8. FromAccepted(lanes)'
  <2>1. \A l : Accepted(l)' = Accepted(l)
    BY <1>2, Zenon DEF Accepted
  <2>2. \A l \in DOMAIN lanes' : \E w \in Accepted(l) : lanes'[l] = [redeem |-> w.amount, nonce |-> w.nonce]
    BY <1>2, <1>4, <1>5, Zenon DEF FromAccepted
  <2> QED
    BY <2>1, <2>2, Zenon DEF FromAccepted
<1>9. to_send' = PvTotal(Redeems(lanes'))
  <2> DEFINE f == [l \in LaneIds |-> LaneOf(lanes, l).redeem]
             g == [l \in LaneIds |-> LaneOf(lanes', l).redeem]
  <2>1. f \in [LaneIds -> Nat] /\ PvTotal(Redeems(lanes)) = PvTotal(f)
    BY <1>4, RedeemsExtend, Zenon
  <2>2. g \in [LaneIds -> Nat] /\ PvTotal(Redeems(lanes')) = PvTotal(g)
    BY <1>7, RedeemsExtend, Zenon
  <2>3. g[v.lane] = v.amount /\ \A l \in LaneIds \ {v.lane} : g[l] = f[l]
    BY <1>3, <1>5, Zenon DEF LaneOf
  <2>4. f[v.lane] = LaneOf(lanes, v.lane).redeem
    BY <1>3, Zenon
  <2> HIDE DEF f, g
  <2>5. PvTotal(g) = PvTotal(f) - f[v.lane] + g[v.lane] /\ PvTotal(f) \in Nat /\ f[v.lane] \in Nat
    BY <1>3, <2>1, <2>2, <2>3, ActorAssumption, TotalUpdate, TotalType, Zenon
  <2> QED
    BY <1>3, <1>4, <1>6, <2>1, <2>2, <2>3, <2>4, <2>5
<1>10. LanesAddUp'
  BY <1>8, <1>9, Zenon DEF LanesAddUp, Redeems
<1> QED
  BY <1>1, <1>2, <1>10, UpdateIInv, Zenon

\* Every step keeps the invariant.
LEMMA NextIInv == VouchersIInv /\ [Next]_vars => VouchersIInv'
<1> SUFFICES ASSUME VouchersIInv, [Next]_vars PROVE VouchersIInv'
  BY Zenon
<1>1. CASE Chain
  BY <1>1, ChainStep, Zenon
<1>2. ASSUME source = "manager", NEW n \in Nodes, SyncHead(n) PROVE VouchersIInv'
  BY <1>2, SyncHeadStep, Zenon
<1>3. CASE source = "manager" /\ nextLane
  BY <1>3, NextLaneStep, Zenon
<1>4. ASSUME source = "manager", NEW l \in MadeLanes, NEW a \in Amounts, make(l, a) PROVE VouchersIInv'
  BY <1>4, MakeStep, Zenon
<1>5. ASSUME NEW v \in made, NEW d \in MinDeltas, add(v, d) PROVE VouchersIInv'
  BY <1>5, AddStep, Zenon
<1>6. ASSUME NEW v \in made, Redeem(v) PROVE VouchersIInv'
  BY <1>6, RedeemStep, Zenon
<1>7. ASSUME NEW v \in AnyVouchers, RedeemAny(v) PROVE VouchersIInv'
  BY <1>7, RedeemAnyStep, Zenon
<1>8. CASE UNCHANGED vars
  <2>1. UNCHANGED <<source, lanes, to_send, settling_at, min_settling_height, balance, epoch, paid, redeemed,
                    row, view, made, received>>
    BY <1>8, Zenon DEF vars
  <2>2. Types'
    BY <2>1, Zenon DEF VouchersIInv, Types
  <2>3. MadeInOrder' /\ PayerHasAll' /\ PayeeHasSome' /\ \A l : MadeOn(l)' = MadeOn(l) /\ Accepted(l)' = Accepted(l)
    BY <2>1, NodesUnchanged, Zenon DEF VouchersIInv
  <2>4. Exists' = Exists
    BY <2>1, Zenon DEF Exists
  <2>5. source = "manager" => LanesAddUp' /\ ViewsAreOld'
    BY <2>1, <2>3, <2>4, Zenon DEF VouchersIInv, LanesAddUp, ViewsAreOld, FromAccepted, Redeems
  <2>6. PromisesCovered' /\ DeltasAddUp' /\ ToSendCovered' /\ HeldOpen'
    BY <2>1, <2>3, <2>4, Zenon DEF VouchersIInv, PromisesCovered, DeltasAddUp, ToSendCovered, HeldOpen, OpenLongEnough
  <2> QED
    BY <2>1, <2>2, <2>3, <2>5, <2>6, Zenon DEF VouchersIInv
<1> QED
  BY <1>1, <1>2, <1>3, <1>4, <1>5, <1>6, <1>7, <1>8, Zenon DEF Next

\* The invariant says that accepted vouchers can be redeemed.
LEMMA RedeemableFromIInv == VouchersIInv => AcceptedIsRedeemable
<1> SUFFICES ASSUME VouchersIInv, Exists, NEW l \in LaneIds, NEW v \in Accepted(l),
                    l \in DOMAIN lanes => lanes[l].nonce < v.nonce
             PROVE  calculate(v)
  BY Zenon DEF AcceptedIsRedeemable
<1>1. v \in made /\ v \in MadeVouchers /\ v.lane = l /\ v.amount \in Nat /\ v.nonce \in Nat /\ source = "manager"
  BY Facts, MadeFields, Zenon DEF MadeOn, VouchersIInv
<1>2. lanes \in LaneMaps /\ to_send = PvTotal(Redeems(lanes)) /\ FromAccepted(lanes)
  BY <1>1, Zenon DEF VouchersIInv, Types, LanesAddUp
<1> DEFINE f == [k \in LaneIds |-> LaneOf(lanes, k).redeem]
           g == [f EXCEPT ![l] = v.amount]
           h == [k \in LaneIds |-> Highest(MadeOn(k))]
<1>3. f \in [LaneIds -> Nat] /\ to_send = PvTotal(f) /\ f[l] = LaneOf(lanes, l).redeem
  BY <1>2, RedeemsExtend, Zenon
<1>4. \A k \in LaneIds : /\ MadeOn(k) \in SUBSET MadeVouchers /\ IsFiniteSet(MadeOn(k))
                         /\ \A w \in Accepted(k) : w \in made /\ w.lane = k /\ w.amount \in Nat /\ w.nonce \in Nat
                                                   /\ w.amount <= Highest(MadeOn(k))
  <2>1. \A k \in LaneIds : MadeOn(k) \in SUBSET MadeVouchers /\ IsFiniteSet(MadeOn(k)) /\ Accepted(k) \subseteq MadeOn(k)
    BY Facts, Zenon
  <2>2. \A k \in LaneIds : \A w \in MadeOn(k) : w.amount <= Highest(MadeOn(k))
    BY <2>1, HighestIs, Zenon
  <2>3. \A k \in LaneIds : \A w \in MadeOn(k) : w \in made /\ w.lane = k /\ w.amount \in Nat /\ w.nonce \in Nat
    BY <2>1, MadeFields, Zenon DEF MadeOn
  <2> QED
    BY <2>1, <2>2, <2>3, Zenon
<1>5. h \in [LaneIds -> Nat]
  BY <1>4, HighestIs, Zenon
<1>6. \A k \in LaneIds : f[k] = 0 \/ \E w \in Accepted(k) : f[k] = w.amount /\ lanes[k].nonce = w.nonce /\ k \in DOMAIN lanes
  <2> SUFFICES ASSUME NEW k \in LaneIds, k \in DOMAIN lanes
               PROVE  \E w \in Accepted(k) : f[k] = w.amount /\ lanes[k].nonce = w.nonce
    BY Zenon DEF LaneOf
  <2>1. PICK w \in Accepted(k) : lanes[k] = [redeem |-> w.amount, nonce |-> w.nonce]
    BY <1>2, Zenon DEF FromAccepted
  <2>2. f[k] = w.amount /\ lanes[k].nonce = w.nonce
    BY <2>1 DEF LaneOf
  <2> QED
    BY <2>2, Zenon
<1>7. f[l] <= v.amount
  <2>1. CASE f[l] = 0
    BY <1>1, <2>1
  <2>2. ASSUME NEW w \in Accepted(l), f[l] = w.amount, lanes[l].nonce = w.nonce, l \in DOMAIN lanes
        PROVE  f[l] <= v.amount
    <3>1. w.nonce < v.nonce /\ w \in made /\ w.lane = v.lane
      BY <1>1, <1>4, <2>2, Zenon
    <3>2. w.amount < v.amount
      BY <1>1, <3>1, Zenon DEF VouchersIInv, MadeInOrder
    <3> QED
      BY <1>1, <1>4, <2>2, <3>2
  <2> QED
    BY <1>6, <2>1, <2>2, Zenon
<1>8. g \in [LaneIds -> Nat] /\ g[l] = v.amount /\ \A k \in LaneIds \ {l} : g[k] = f[k]
  BY <1>1, <1>3, Zenon
<1>9. \A k \in LaneIds : g[k] <= h[k]
  <2>1. \A k \in LaneIds : f[k] <= h[k]
    BY <1>4, <1>5, <1>6
  <2>2. v.amount <= h[l]
    BY <1>4, Zenon
  <2> HIDE DEF f, g, h
  <2> QED
    BY <1>8, <2>1, <2>2, Zenon
<1>10. PvTotal(h) <= balance
  BY Zenon DEF VouchersIInv, PromisesCovered
<1> HIDE DEF f, g, h
<1>11. PvTotal(g) = PvTotal(f) - f[l] + g[l]
  <2>1. IsFiniteSet(LaneIds) /\ f \in [LaneIds -> Nat] /\ l \in LaneIds
    BY <1>3, ActorAssumption
  <2>2. g \in [LaneIds -> Nat] /\ \A k \in LaneIds \ {l} : g[k] = f[k]
    BY <1>8
  <2> QED
    BY <2>1, <2>2, TotalUpdate, ZenonT(40)
<1>12. PvTotal(g) <= PvTotal(h)
  BY <1>5, <1>8, <1>9, ActorAssumption, TotalMonotone, Zenon
<1>13. PvTotal(f) \in Nat /\ PvTotal(g) \in Nat /\ PvTotal(h) \in Nat /\ f[l] \in Nat /\ balance \in Nat
  BY <1>3, <1>5, <1>8, ActorAssumption, TotalType, Zenon DEF VouchersIInv, Types
<1>14. SendBalance(v) = to_send + v.amount - (0 + f[l])
  BY <1>1, <1>3, NoMerges, Zenon DEF SendBalance
<1>15. SendBalance(v) \in 0..balance
  BY <1>1, <1>3, <1>7, <1>8, <1>10, <1>11, <1>12, <1>13, <1>14
<1> QED
  BY <1>1, <1>15, NoMerges, Zenon DEF calculate

\* The invariant has the types.
LEMMA TypeFromIInv == VouchersIInv => TypeOK
<1> SUFFICES ASSUME VouchersIInv PROVE TypeOK
  BY Zenon
<1>1. ActorTypeOK
  <2>1. PICK D \in SUBSET LaneIds : lanes \in [D -> [redeem : Nat, nonce : Nat]]
    BY Zenon DEF VouchersIInv, Types, LaneMaps
  <2> QED
    BY <2>1, Zenon DEF VouchersIInv, Types, ActorTypeOK
<1>2. ASSUME NEW n \in Nodes
      PROVE  /\ DOMAIN row[n].lanes \subseteq LaneIds
             /\ \A l \in DOMAIN row[n].lanes : \A v, w \in row[n].lanes[l].vouchers : v.nonce = w.nonce => v = w
  <2>1. row[n] \in RowsOf(made)
    BY Zenon DEF VouchersIInv, Types
  <2>2. PICK D \in SUBSET LaneIds : row[n].lanes \in [D -> EntriesOf(made)]
    BY <2>1, Zenon DEF RowsOf
  <2>3. ASSUME NEW l \in D, NEW v \in row[n].lanes[l].vouchers, NEW w \in row[n].lanes[l].vouchers, v.nonce = w.nonce
        PROVE  v = w
    <3>1. v \in MadeOn(l) /\ w \in MadeOn(l)
      <4>1. Entry(row[n], l) = row[n].lanes[l] /\ l \in LaneIds
        BY <2>2, Zenon DEF Entry
      <4> QED
        BY <2>3, <4>1, Facts, Zenon DEF VouchersIInv, PayerHasAll, Accepted, Nodes
    <3>2. v \in made /\ w \in made /\ v.lane = l /\ w.lane = l
      BY <3>1, Zenon DEF MadeOn
    <3>3. /\ v.nonce \in Nat /\ w.nonce \in Nat /\ v.amount \in Nat /\ w.amount \in Nat
          /\ v = Voucher(v.lane, v.nonce, v.amount) /\ w = Voucher(w.lane, w.nonce, w.amount)
      BY <3>2, Facts, MadeFields, Zenon
    <3>4. ~(v.amount < w.amount) /\ ~(w.amount < v.amount)
      BY <2>3, <3>2, <3>3 DEF VouchersIInv, MadeInOrder
    <3>5. v.amount = w.amount
      BY <3>3, <3>4
    <3> QED
      BY <2>3, <3>2, <3>3, <3>5, Zenon
  <2> QED
    BY <2>2, <2>3, Zenon
<1> QED
  BY <1>1, <1>2, Zenon DEF TypeOK, VouchersIInv, Types

-----------------------------------------------------------------------------
(***************************************************************************)
(* The actor, the stored rows and the views of both nodes keep their       *)
(* types, and a row never has two vouchers of a lane with one nonce        *)
(* (payment_channel_actor.cpp, paych/vouchers.cpp).                        *)
(***************************************************************************)
THEOREM VouchersTypeCorrect == Spec => []TypeOK
<1>1. Init => VouchersIInv
  BY InitIInv, Zenon
<1>2. VouchersIInv /\ [Next]_vars => VouchersIInv'
  BY NextIInv, Zenon
<1>3. VouchersIInv => TypeOK
  BY TypeFromIInv, Zenon
<1> QED
  BY <1>1, <1>2, <1>3, PTL DEF Spec

(***************************************************************************)
(* For any finite number of lanes and any amounts: what a payer's node has *)
(* promised is covered by the balance although it looks at an older state  *)
(* of the actor, what a payee's node has accepted can be redeemed and adds *)
(* up to what add returned, and for any vouchers, merges included, the     *)
(* actor can always pay what it owes and stays open as long as redeemed    *)
(* vouchers ask (paych/vouchers.cpp, payment_channel_actor.cpp).           *)
(***************************************************************************)
THEOREM VouchersSound == Spec => []VouchersAreSound
<1>1. Init => VouchersIInv
  BY InitIInv, Zenon
<1>2. VouchersIInv /\ [Next]_vars => VouchersIInv'
  BY NextIInv, Zenon
<1>3. VouchersIInv => VouchersAreSound
  BY RedeemableFromIInv, Zenon DEF VouchersIInv, VouchersAreSound, HeldOpen
<1> QED
  BY <1>1, <1>2, <1>3, PTL DEF Spec
=============================================================================
