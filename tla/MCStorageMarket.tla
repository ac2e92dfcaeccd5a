-------------------------- MODULE MCStorageMarket ---------------------------
(***************************************************************************)
(* Deals of the storage market, and the transfers that carry their data: a *)
(* behaviour runs the market with a setting, graphsync, or data transfer,  *)
(* as part says.                                                           *)
(***************************************************************************)
EXTENDS StorageMarket, Transfers, TLC

CONSTANTS MarketParts, d1, d2, c1, c2

VARIABLE part

TwoCids == d1 :> c1 @@ d2 :> c2

\* Two proposals, one of each kind of transfer, and one import.
TwoDeals ==
  [cid |-> TwoCids, transfer |-> d1 :> "manual" @@ d2 :> "graphsync", imports |-> 1, restarts |-> 0, losses |-> FALSE]

\* A proposal received twice.
SameTwice ==
  [cid |-> d1 :> c1 @@ d2 :> c1, transfer |-> d1 :> "graphsync" @@ d2 :> "graphsync",
   imports |-> 0, restarts |-> 0, losses |-> TRUE]

\* One deal, two imports and a restart of the provider.
OneDeal(type) == [cid |-> TwoCids, transfer |-> d1 :> type, imports |-> 2, restarts |-> 1, losses |-> TRUE]

MCSettings == {TwoDeals, SameTwice} \cup {OneDeal(type) : type \in {"manual", "graphsync", "other"}}

ManualSettings ==
  {[cid |-> TwoCids, transfer |-> d1 :> "manual" @@ d2 :> "manual", imports |-> 2, restarts |-> 0, losses |-> FALSE]}

DealsInit ==
  /\ part \in MarketParts
  /\ Init /\ GsInit /\ DtInit
  /\ part # "market" => setting = CHOOSE s \in Settings : TRUE

DealsNext ==
  \/ part = "market" /\ Next /\ UNCHANGED <<part, gsVars, dtVars>>
  \/ part = "graphsync" /\ GsNext /\ UNCHANGED <<part, vars, dtVars>>
  \/ part = "transfer" /\ DtNext /\ UNCHANGED <<part, vars, gsVars>>

DealsSpec == DealsInit /\ [][DealsNext]_<<part, vars, gsVars, dtVars>>

\* The market alone, with the fairness of its two machines.
FairDealsSpec == DealsSpec /\ Fairness

\* Types of the deals at both ends and of the requests and channels.
DealsTypeOK == TypeOK /\ GsTypeOK /\ DtTypeOK
=============================================================================
