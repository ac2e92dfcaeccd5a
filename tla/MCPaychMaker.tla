---------------------------- MODULE MCPaychMaker ----------------------------
(***************************************************************************)
(* The maker of payment channels and the message waiter that tells it what *)
(* became of its messages.  They share no state: a behaviour runs the one  *)
(* that part names.                                                        *)
(***************************************************************************)
EXTENDS MsgWaiter, PaychMaker, TLC

CONSTANTS
  g, a1, a2, a3, a4, b2, b4, b5, b6, c2, c3, mA, mB, mX, w1, w2, w3, s1,
  p1, p2, p3

VARIABLE part

(***************************************************************************)
(* Three branches above a1.  mA is executed by a3 on one, by b5, higher,   *)
(* on another; on the third mB takes its nonce and mA is never executed.   *)
(*                                                                         *)
(*   g -- a1 --- a2(mA) -- a3 --- a4                                       *)
(*           |-- b2 ------ b4(mA) -- b5 --- b6   (a null round below b4)   *)
(*           `-- c2(mB) -- c3                                              *)
(***************************************************************************)
MCTipsets == {g, a1, a2, a3, a4, b2, b4, b5, b6, c2, c3}
MCParent == a1 :> g @@ a2 :> a1 @@ a3 :> a2 @@ a4 :> a3 @@ b2 :> a1 @@ b4 :> b2
            @@ b5 :> b4 @@ b6 :> b5 @@ c2 :> a1 @@ c3 :> c2
MCHeight == g :> 0 @@ a1 :> 1 @@ a2 :> 2 @@ a3 :> 3 @@ a4 :> 4 @@ b2 :> 2 @@ b4 :> 4
            @@ b5 :> 5 @@ b6 :> 6 @@ c2 :> 2 @@ c3 :> 3
MCMsgs == [t \in MCTipsets |-> CASE t \in {a2, b4} -> {mA} [] t = c2 -> {mB} [] OTHER -> {}]
MCMessages == {mA, mB, mX}
MCNonce == [k \in MCMessages |-> 0]
MCRequests == {w1, w2, w3, s1}
MCMsg == w1 :> mA @@ w2 :> mA @@ w3 :> mX @@ s1 :> mA
MCConfidence == w1 :> 1 @@ w2 :> 2 @@ w3 :> 0
MCLookback == w1 :> -1 @@ w2 :> 3 @@ w3 :> -1 @@ s1 :> -1

(***************************************************************************)
(* Three callers: the third asks for more than the second, so that funds a *)
(* restart left unused are reused in part, in full, or have to be topped   *)
(* up; the first only asks for the channel.                                *)
(***************************************************************************)
MCAmount == p1 :> 0 @@ p2 :> 2 @@ p3 :> 4

PaychInit == part \in {"waiter", "maker"} /\ WaiterInit /\ MakerInit

PaychNext ==
  \/ part = "waiter" /\ WaiterNext /\ UNCHANGED <<part, makerVars>>
  \/ part = "maker" /\ MakerNext /\ UNCHANGED <<part, waiterVars>>

\* Each part's own fairness; when a part starts, nothing it is fair to is enabled.
PaychSpec ==
  /\ PaychInit /\ [][PaychNext]_<<part, waiterVars, makerVars>>
  /\ WaiterFairness /\ MakerFairness

\* Types of the waiter's maps and of the queue of callers and its row.
PaychTypeOK == WaiterTypeOK /\ MakerTypeOK
=============================================================================
