----------------------------- MODULE MCEngines ------------------------------
(***************************************************************************)
(* Three engines of the miner that share no state: the locks of the sector *)
(* index, the scheduler of sealing work and the generic state machine.  A  *)
(* behaviour runs the one that part names; the others stay as they start.  *)
(***************************************************************************)
EXTENDS IndexLock, Scheduler, Fsm, TLC

CONSTANTS
  EngineParts,
  l1, l2, l3, l4, l5, l6, s1, s2, f1, f2,
  k1, k2, p, id, w1, w2,
  a, b

VARIABLE part

(***************************************************************************)
(* Six Lock objects: on sector s1 a writer, a reader, a reader of one file *)
(* that writes another, and a storageTryLock that conflicts with all of    *)
(* them; a reader of another sector; a Lock on no file.                    *)
(***************************************************************************)
MCLocks == {l1, l2, l3, l4, l5, l6}
MCSector == [l \in MCLocks |-> IF l = l5 THEN s2 ELSE s1]
MCRead == l1 :> {} @@ l2 :> {f1} @@ l3 :> {f1} @@ l4 :> {f2} @@ l5 :> {f1} @@ l6 :> {}
MCWrite == l1 :> {f1} @@ l2 :> {} @@ l3 :> {f2} @@ l4 :> {f1} @@ l5 :> {} @@ l6 :> {}
MCWaits == {l1, l2, l3, l5}

(***************************************************************************)
(* k1 and k2 are two schedules of one work; p is work without an id that   *)
(* prepares first and is too large for w2.                                 *)
(***************************************************************************)
MCRequests == {k1, k2, p}
MCWorkId == k1 :> id @@ k2 :> id @@ p :> NoId
MCNeed == k1 :> 1 @@ k2 :> 1 @@ p :> 2
MCWorkers == {w1, w2}
MCCapacity == w1 :> 2 @@ w2 :> 1
MCSel == k1 :> MCWorkers @@ k2 :> MCWorkers @@ p :> MCWorkers

(***************************************************************************)
(* Two entities.  a gets START, STOP and START in any order; b gets FORCE, *)
(* which any state accepts and whose callback calls force().               *)
(***************************************************************************)
MCSends == 1..4
MCEntityOf == <<a, a, a, b>>
MCEventOf == <<"START", "STOP", "START", "FORCE">>
MCRules ==
  {[event |-> "START", from |-> "READY", to |-> "WORKING"],
   [event |-> "START", from |-> "WORKING", to |-> "WORKING"],
   [event |-> "STOP", from |-> "WORKING", to |-> "STOPPED"],
   [event |-> "FORCE", from |-> AnyState, to |-> ForceState]}

EnginesInit ==
  /\ part \in EngineParts
  /\ LockInit /\ SchedInit /\ FsmInit
  /\ part # "fsm" => discard_event

EnginesNext ==
  \/ part = "lock" /\ LockNext /\ UNCHANGED <<part, schedVars, fsmVars>>
  \/ part = "sched" /\ SchedNext /\ UNCHANGED <<part, lockVars, fsmVars>>
  \/ part = "fsm" /\ FsmNext /\ UNCHANGED <<part, lockVars, schedVars>>

enginesVars == <<part, lockVars, schedVars, fsmVars>>

(***************************************************************************)
(* Each engine's own fairness; that of an engine that does not run asks    *)
(* for nothing, as nothing of it is enabled when it starts.                *)
(***************************************************************************)
EnginesSpec ==
  /\ EnginesInit /\ [][EnginesNext]_enginesVars
  /\ LockFairness /\ SchedFairness /\ FsmFairness

\* Types of the lock entries, the scheduler's tables and the machine's queues.
EnginesTypeOK == LockTypeOK /\ SchedTypeOK /\ FsmTypeOK
=============================================================================
