----------------------------- MODULE MCSealing ------------------------------
(***************************************************************************)
(* The situations of the runs.                                             *)
(***************************************************************************)
EXTENDS Sealing

Quiet == [proven |-> FALSE, batch |-> TRUE, operations |-> {}, force |-> {}, faults |-> 0]

Pledge == [Quiet EXCEPT !.operations = {"pledge"}, !.faults = 2]
WithDeals == [Quiet EXCEPT !.operations = {"deals"}, !.faults = 2]
Single == [Pledge EXCEPT !.batch = FALSE]
Forced == [Quiet EXCEPT !.operations = {"pledge", "remove"}, !.force = {"kPreCommit1"}, !.faults = 2]
Upgrade == [Quiet EXCEPT !.proven = TRUE, !.operations = {"upgrade"}, !.faults = 3]

MCSettings == {Pledge, WithDeals, Single, Forced, Upgrade}

LiveSettings == {[Quiet EXCEPT !.operations = {"pledge", "deals"}, !.faults = 1]}

UpgradeSettings == {[Upgrade EXCEPT !.faults = 2]}
=============================================================================
