--------------------------- MODULE PaychVouchers ----------------------------
(***************************************************************************)
(* Payment channel vouchers: the actor of a channel, then the two ends     *)
(* that make, accept and redeem vouchers.                                  *)
(***************************************************************************)
EXTENDS Integers, Sequences, FiniteSets, FiniteSetsExt

(***************************************************************************)
(* The payment channel actor                                               *)
(* (core/vm/actor/builtin/v0/payment_channel/payment_channel_actor.cpp;    *)
(* the later versions export the same methods).                            *)
(*                                                                         *)
(* A message that fails leaves the actor as it was, so each method is one  *)
(* action whose guard is the conjunction of what it requires.  The payer's *)
(* signature stands for the set of vouchers redeemed from; the secret and  *)
(* the extra call, which can only refuse a voucher, are left out.          *)
(***************************************************************************)

CONSTANTS
  LaneIds,       \* lanes up to kLaneLimit
  SettleDelay,   \* kSettleDelay
  Sources        \* where vouchers come from, by name, each with the amounts that plain
                 \* sends may add (deposits) and the bounds max_balance and max_epoch

VARIABLES
  source,               \* the name of the source, which stays the same
  lanes,                \* state->lanes: LaneId to LaneState, as far as set
  to_send,
  settling_at, min_settling_height,
  balance,              \* the actor's balance
  epoch,
  paid,                 \* what Collect sent to the two parties, None before
  redeemed              \* history: the vouchers UpdateChannelState accepted

ASSUME ActorAssumption ==
  /\ IsFiniteSet(LaneIds) /\ LaneIds \subseteq Nat
  /\ SettleDelay \in Nat
  /\ \A s \in DOMAIN Sources : Sources[s].deposits \subseteq Nat

actor == <<source, lanes, to_send, settling_at, min_settling_height, balance, epoch, paid, redeemed>>

None == [to |-> -1, from |-> -1]

Exists == paid = None

ActorInit ==
  /\ source \in DOMAIN Sources
  /\ lanes = [l \in {} |-> [redeem |-> 0, nonce |-> 0]]
  /\ to_send = 0
  /\ settling_at = 0 /\ min_settling_height = 0
  /\ balance = 0
  /\ epoch = 1
  /\ paid = None
  /\ redeemed = {}

\* A message that only sends funds to the channel.
Send(amount) ==
  /\ Exists
  /\ balance + amount <= Sources[source].max_balance
  /\ balance' = balance + amount
  /\ UNCHANGED <<source, lanes, to_send, settling_at, min_settling_height, epoch, paid, redeemed>>

NextEpoch ==
  /\ epoch < Sources[source].max_epoch
  /\ epoch' = epoch + 1
  /\ UNCHANGED <<source, lanes, to_send, settling_at, min_settling_height, balance, paid, redeemed>>

checkVoucher(v) ==
  /\ v.amount >= 0
  /\ epoch >= v.time_lock_min
  /\ v.time_lock_max = 0 \/ epoch <= v.time_lock_max

LaneOf(ls, l) == IF l \in DOMAIN ls THEN ls[l] ELSE [redeem |-> 0, nonce |-> 0]

(***************************************************************************)
(* A sum over lanes or merges, counted in units: entry x of f has f[x] of  *)
(* them.                                                                   *)
(***************************************************************************)
Units(f) == UNION {{x} \X (1..f[x]) : x \in DOMAIN f}

PvTotal(f) == Cardinality(Units(f))

(***************************************************************************)
(* The loop over voucher.merges: each merge gives another known lane a     *)
(* newer nonce, and what was redeemed from that lane is taken off the      *)
(* voucher, twice when the lane is merged twice.                           *)
(***************************************************************************)
MergesOk(v) ==
  \A i \in DOMAIN v.merges :
    LET m == v.merges[i] IN
    /\ m.lane # v.lane /\ m.lane \in DOMAIN lanes
    /\ lanes[m.lane].nonce < m.nonce
    /\ \A j \in DOMAIN v.merges : j < i /\ v.merges[j].lane = m.lane => v.merges[j].nonce < m.nonce

MergedNonces(v, l) == {v.merges[i].nonce : i \in {j \in DOMAIN v.merges : v.merges[j].lane = l}}

MergedLane(v, l) == [redeem |-> lanes[l].redeem, nonce |-> Max({lanes[l].nonce} \cup MergedNonces(v, l))]

MergedRedeem(v) == PvTotal([i \in DOMAIN v.merges |-> LaneOf(lanes, v.merges[i].lane).redeem])

SendBalance(v) == to_send + v.amount - (MergedRedeem(v) + LaneOf(lanes, v.lane).redeem)

\* Mutant: the new total is not compared with the balance.
calculateOverdraft(v) ==
  /\ v.lane \in LaneIds
  /\ v.lane \in DOMAIN lanes => lanes[v.lane].nonce < v.nonce
  /\ MergesOk(v)
  /\ SendBalance(v) >= 0

\* Mutant: the new total may be negative.
calculateNegative(v) ==
  /\ v.lane \in LaneIds
  /\ v.lane \in DOMAIN lanes => lanes[v.lane].nonce < v.nonce
  /\ MergesOk(v)
  /\ SendBalance(v) <= balance

\* What calculate requires of a voucher.
calculate(v) ==
  /\ v.lane \in LaneIds
  /\ v.lane \in DOMAIN lanes => lanes[v.lane].nonce < v.nonce
  /\ MergesOk(v)
  /\ SendBalance(v) \in 0..balance

\* Mutant: a settling channel is not kept open longer.
ClosingUnchanged(v) ==
  /\ settling_at' = settling_at
  /\ min_settling_height' = Max({min_settling_height, v.min_close_height})

Closing(v) ==
  /\ settling_at' = IF v.min_close_height # 0 /\ settling_at # 0
                    THEN Max({settling_at, v.min_close_height}) ELSE settling_at
  /\ min_settling_height' = Max({min_settling_height, v.min_close_height})

UpdateChannelState(v) ==
  /\ Exists
  /\ checkVoucher(v)
  /\ calculate(v)
  /\ to_send' = SendBalance(v)
  /\ lanes' = [l \in DOMAIN lanes \cup {v.lane} |->
                 IF l = v.lane THEN [redeem |-> v.amount, nonce |-> v.nonce] ELSE MergedLane(v, l)]
  /\ Closing(v)
  /\ redeemed' = redeemed \cup {v}
  /\ UNCHANGED <<source, balance, epoch, paid>>

Settle ==
  /\ Exists
  /\ settling_at = 0
  /\ settling_at' = Max({min_settling_height, epoch + SettleDelay})
  /\ UNCHANGED <<source, lanes, to_send, min_settling_height, balance, epoch, paid, redeemed>>

\* The payee gets to_send; deleteActor gives the payer the rest.
Collect ==
  /\ Exists
  /\ settling_at # 0 /\ epoch >= settling_at
  /\ to_send <= balance
  /\ paid' = [to |-> to_send, from |-> balance - to_send]
  /\ balance' = 0
  /\ UNCHANGED <<source, lanes, to_send, settling_at, min_settling_height, epoch, redeemed>>
-----------------------------------------------------------------------------
\* The actor's state is well-formed; amounts are never negative.
ActorTypeOK ==
  /\ DOMAIN lanes \subseteq LaneIds
  /\ \A l \in DOMAIN lanes : lanes[l].redeem \in Nat /\ lanes[l].nonce \in Nat
  /\ to_send \in Nat /\ settling_at \in Nat /\ min_settling_height \in Nat
  /\ balance \in Nat /\ epoch \in Nat

(***************************************************************************)
(* What the payee is to get is covered by the balance until Collect, so    *)
(* that sendFunds in Collect cannot fail; merged lanes and vouchers of a   *)
(* smaller amount lower it, but never below zero.                          *)
(***************************************************************************)
ToSendCovered == Exists => to_send \in 0..balance

(***************************************************************************)
(* The channel is open at least until the epoch each redeemed voucher asks *)
(* for, in whatever order Settle and UpdateChannelState came.              *)
(***************************************************************************)
OpenLongEnough ==
  /\ settling_at # 0 => \A v \in redeemed : settling_at >= v.min_close_height
  /\ ~Exists => epoch >= settling_at

-----------------------------------------------------------------------------
(***************************************************************************)
(* The payment vouchers of one channel (core/paych/vouchers.cpp): the      *)
(* payer's node makes vouchers, the payee's node accepts them in any       *)
(* order, late or twice, and redeems them from the actor.                  *)
(*                                                                         *)
(* The source "manager" is this code; the source "any" is a payer that     *)
(* signs any vouchers, and a payee that redeems them without add.          *)
(*                                                                         *)
(* Both nodes read the actor at their own chain head, which can be behind; *)
(* PaychVouchers::mutex makes each call one action.                        *)
(***************************************************************************)

CONSTANTS
  AnyVouchers,  \* vouchers of a payer that signs what it likes
  MadeLanes,    \* lanes the payer's node uses
  Amounts,      \* amounts the payer makes vouchers for
  MinDeltas,    \* min_delta the payee asks for
  MaxVouchers   \* bound on vouchers made

ASSUME VouchersAssumption ==
  /\ AnyVouchers \subseteq [lane : Nat, nonce : Nat, amount : Int, merges : Seq([lane : Nat, nonce : Nat]),
                            min_close_height : Int, time_lock_min : Int, time_lock_max : Int]
  /\ MadeLanes \subseteq LaneIds
  /\ Amounts \subseteq Int

VARIABLES
  row,       \* per node, the stored Row: next_lane and the vouchers by lane
  view,      \* per node, the actor at the chain head it knows
  made,      \* vouchers the payer has sent
  received   \* history: sum of the deltas add returned

vars == <<source, lanes, to_send, settling_at, min_settling_height, balance, epoch, paid, redeemed,
          row, view, made, received>>

Nodes == {"payer", "payee"}

NoNonce == -1

\* LaneVouchers: added_nonce and the vouchers, here without order.
NewLane == [added_nonce |-> NoNonce, vouchers |-> {}]

NewRow == [next_lane |-> 0, lanes |-> [l \in {} |-> NewLane]]

Snapshot == [lanes |-> lanes, balance |-> balance, epoch |-> epoch, settling_at |-> settling_at, exists |-> Exists]

Voucher(l, n, a) ==
  [lane |-> l, nonce |-> n, amount |-> a, merges |-> <<>>,
   min_close_height |-> 0, time_lock_min |-> 0, time_lock_max |-> 0]

Init ==
  /\ ActorInit
  /\ row = [n \in Nodes |-> NewRow]
  /\ view = [n \in Nodes |-> Snapshot]
  /\ made = {}
  /\ received = 0

\* loadCtx: the actor is known and not settled.
loadCtx(n) ==
  /\ view[n].exists
  /\ view[n].settling_at = 0 \/ view[n].epoch < view[n].settling_at

\* findVoucher: the lane's entry in the row, made when there is none.
Entry(r, l) == IF l \in DOMAIN r.lanes THEN r.lanes[l] ELSE NewLane

Put(r, l, e) == [r EXCEPT !.lanes = [k \in DOMAIN r.lanes \cup {l} |-> IF k = l THEN e ELSE r.lanes[k]]]

(***************************************************************************)
(* laneStates: the actor's lanes raised by the vouchers in the row; when   *)
(* accepting, only by those that were added.                               *)
(***************************************************************************)
Counted(n, l, accepting) ==
  LET e == Entry(row[n], l) IN {v \in e.vouchers : accepting => v.nonce <= e.added_nonce}

laneStates(n, accepting) ==
  LET known == {l \in MadeLanes : l \in DOMAIN view[n].lanes \/ Counted(n, l, accepting) # {}} IN
  [l \in known |->
     LET vs == Counted(n, l, accepting)
         old == {LaneOf(view[n].lanes, l)} IN
     [redeem |-> Max({v.amount : v \in vs} \cup {s.redeem : s \in old}),
      nonce |-> Max({v.nonce : v \in vs} \cup {s.nonce : s \in old})]]

laneRedeem(ls, l) == LaneOf(ls, l).redeem

\* Mutant: other lanes are not counted.
AffordableAlone(n, ls, delta) == delta <= view[n].balance

Affordable(n, ls, delta) == PvTotal([l \in DOMAIN ls |-> ls[l].redeem]) + delta <= view[n].balance

FreshLane(r) == Max({r.next_lane} \cup {l + 1 : l \in DOMAIN r.lanes})

nextLane ==
  LET l == FreshLane(row["payer"]) IN
  /\ loadCtx("payer")
  /\ l \in MadeLanes
  /\ row' = [row EXCEPT !["payer"].next_lane = l + 1]
  /\ UNCHANGED <<actor, view, made, received>>

\* make: the voucher's nonce follows the lane's; a new lane begins with 0.
make(l, amount) ==
  LET ls == laneStates("payer", FALSE)
      delta == amount - laneRedeem(ls, l)
      v == Voucher(l, IF l \in DOMAIN ls THEN ls[l].nonce + 1 ELSE 0, amount)
      e == Entry(row["payer"], l)
  IN /\ loadCtx("payer")
     /\ Cardinality(made) < MaxVouchers
     /\ delta > 0
     /\ Affordable("payer", ls, delta)
     /\ row' = [row EXCEPT !["payer"] = Put(@, l, [e EXCEPT !.vouchers = @ \cup {v}])]
     /\ made' = made \cup {v}
     /\ UNCHANGED <<actor, view, received>>

\* Mutant: what the lane has paid for already is not taken off.
DeltaWhole(v, ls) == v.amount

Delta(v, ls) == v.amount - laneRedeem(ls, v.lane)

\* check: the part of PaychVouchers::check that can refuse the payer's vouchers.
check(v, ls) ==
  /\ v.lane \in DOMAIN ls => v.nonce > ls[v.lane].nonce
  /\ Delta(v, ls) > 0

\* A voucher added before is answered with 0.
Added(v) ==
  LET e == Entry(row["payee"], v.lane) IN
  v.nonce <= e.added_nonce /\ \E w \in e.vouchers : w.nonce = v.nonce

add(v, min_delta) ==
  LET ls == laneStates("payee", TRUE)
      e == Entry(row["payee"], v.lane)
  IN /\ loadCtx("payee")
     /\ ~Added(v)
     /\ check(v, ls)
     /\ Delta(v, ls) >= min_delta
     /\ Affordable("payee", ls, Delta(v, ls))
     /\ row' = [row EXCEPT !["payee"] = Put(@, v.lane, [added_nonce |-> v.nonce, vouchers |-> e.vouchers \cup {v}])]
     /\ received' = received + Delta(v, ls)
     /\ UNCHANGED <<actor, view, made>>

\* A node's chain head moves on.
SyncHead(n) ==
  /\ view' = [view EXCEPT ![n] = Snapshot]
  /\ UNCHANGED <<actor, row, made, received>>

\* The payee redeems vouchers it has accepted.
Redeem(v) ==
  /\ v \in Entry(row["payee"], v.lane).vouchers
  /\ UpdateChannelState(v)
  /\ UNCHANGED <<row, view, made, received>>

Chain ==
  /\ (\E a \in Sources[source].deposits : Send(a)) \/ NextEpoch \/ Settle \/ Collect
  /\ UNCHANGED <<row, view, made, received>>

RedeemAny(v) ==
  /\ source = "any"
  /\ UpdateChannelState(v)
  /\ UNCHANGED <<row, view, made, received>>

Next ==
  \/ Chain
  \/ source = "manager" /\ \E n \in Nodes : SyncHead(n)
  \/ source = "manager" /\ nextLane
  \/ source = "manager" /\ \E l \in MadeLanes, a \in Amounts : make(l, a)
  \/ \E v \in made : (\E d \in MinDeltas : add(v, d)) \/ Redeem(v)
  \/ \E v \in AnyVouchers : RedeemAny(v)

Spec == Init /\ [][Next]_vars
-----------------------------------------------------------------------------
MadeOn(l) == {v \in made : v.lane = l}

Accepted(l) == Entry(row["payee"], l).vouchers

\* What the newest of some vouchers of a lane pays in all.
Highest(vs) == Max({v.amount : v \in vs} \cup {0})

\* The actor, the rows and the nodes' views are well-formed.
TypeOK ==
  /\ ActorTypeOK
  /\ \A n \in Nodes :
       /\ DOMAIN row[n].lanes \subseteq LaneIds
       /\ \A l \in DOMAIN row[n].lanes : \A v, w \in row[n].lanes[l].vouchers : v.nonce = w.nonce => v = w
  /\ received \in Nat

(***************************************************************************)
(* The payer never promises more than the channel holds: over all lanes,   *)
(* the highest vouchers made fit into the balance until Collect, although  *)
(* the payer looks at an older state of the actor.                         *)
(***************************************************************************)
PromisesCovered == Exists => PvTotal([l \in LaneIds |-> Highest(MadeOn(l))]) <= balance

(***************************************************************************)
(* Every voucher the payee accepted can still be redeemed, unless a later  *)
(* one of its lane was: whatever is redeemed first, calculate finds enough *)
(* balance.                                                                *)
(***************************************************************************)
AcceptedIsRedeemable ==
  Exists =>
    \A l \in LaneIds : \A v \in Accepted(l) :
      (l \in DOMAIN lanes => lanes[l].nonce < v.nonce) => calculate(v)

(***************************************************************************)
(* The deltas add returned are what the accepted vouchers are worth: one   *)
(* that comes twice or out of order is never paid for twice.               *)
(***************************************************************************)
DeltasAddUp == received = PvTotal([l \in LaneIds |-> Highest(Accepted(l))])

(***************************************************************************)
(* Vouchers that a payer's node made are covered, those that a payee's     *)
(* node accepted can be redeemed and add up to what it reported            *)
(* (paych/vouchers.cpp); the actor never promises more than it has and     *)
(* stays open as long as a redeemed voucher asks                           *)
(* (payment_channel_actor.cpp).                                            *)
(***************************************************************************)
VouchersAreSound ==
  /\ PromisesCovered /\ AcceptedIsRedeemable /\ DeltasAddUp
  /\ ToSendCovered /\ OpenLongEnough
=============================================================================
