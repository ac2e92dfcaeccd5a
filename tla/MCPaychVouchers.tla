-------------------------- MODULE MCPaychVouchers ---------------------------
(***************************************************************************)
(* Payment for data: the vouchers of a payment channel, and the retrieval  *)
(* market that pays with them.  A behaviour runs the one that part names.  *)
(***************************************************************************)
EXTENDS PaychVouchers, Retrieval

VARIABLE part

(***************************************************************************)
(* Up to three vouchers that the payer's node makes on two lanes; or six   *)
(* signed by hand: newer vouchers of a smaller amount, merges of one lane  *)
(* and of two, one that is valid late, and some that keep the channel open.*)
(***************************************************************************)
MCSources ==
  [manager |-> [deposits |-> {2}, max_balance |-> 4, max_epoch |-> 3],
   any |-> [deposits |-> {2, 3}, max_balance |-> 7, max_epoch |-> 6]]

V(l, n, a, merges, close, tmin) ==
  [lane |-> l, nonce |-> n, amount |-> a, merges |-> merges,
   min_close_height |-> close, time_lock_min |-> tmin, time_lock_max |-> 0]

M(l, n) == [lane |-> l, nonce |-> n]

MCAnyVouchers ==
  {V(0, 0, 2, <<>>, 0, 0), V(0, 1, 1, <<>>, 4, 0), V(1, 0, 3, <<>>, 0, 2),
   V(1, 2, 4, <<M(0, 2)>>, 0, 0), V(2, 1, 1, <<M(0, 1), M(0, 3)>>, 5, 0),
   V(2, 2, 5, <<M(0, 4), M(1, 3)>>, 0, 0)}

(***************************************************************************)
(* Three asks of the provider: with paid intervals that grow, with a price *)
(* for unsealing too, and with one payment at the end.  A payload of five  *)
(* blocks.                                                                 *)
(***************************************************************************)
MCAsks ==
  <<[price |-> 1, interval |-> 2, increase |-> 1, unseal |-> 0],
    [price |-> 1, interval |-> 2, increase |-> 1, unseal |-> 1],
    [price |-> 2, interval |-> 0, increase |-> 0, unseal |-> 0]>>
MCBlocks == <<1, 2, 1, 2, 3>>

PaymentsInit ==
  /\ part \in {"vouchers", "retrieval"}
  /\ Init /\ RtInit
  /\ part = "retrieval" => source = "manager"

PaymentsNext ==
  \/ part = "vouchers" /\ Next /\ UNCHANGED <<part, rtVars>>
  \/ part = "retrieval" /\ RtNext /\ UNCHANGED <<part, vars>>

PaymentsSpec == PaymentsInit /\ [][PaymentsNext]_<<part, vars, rtVars>>

\* Types of the channel, the vouchers of both ends, and a retrieval deal.
PaymentsTypeOK == TypeOK /\ RtTypeOK
=============================================================================
