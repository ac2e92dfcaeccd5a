---------------------------- MODULE MCMinerSide -----------------------------
(***************************************************************************)
(* What a storage miner runs beside the sealing machine: the stores and    *)
(* workers that hold the sector files, the unsealed file and the runs it   *)
(* is made of, the precommit batcher, the packing of pieces, chain events, *)
(* mining and window proofs.  They share no state: a behaviour runs the    *)
(* one that part names, and the others stay as they start.                 *)
(***************************************************************************)
EXTENDS SectorManager, SectorFile, SectorIntake, ChainEvents, Mining

CONSTANTS MinerParts, a1, a2, a3

VARIABLE part

(***************************************************************************)
(* A miner with a path to seal and a path to store, a worker with a path   *)
(* to seal; the worker alone can do PreCommit1.                            *)
(***************************************************************************)
MCNodeOf == [ms |-> "miner", mt |-> "miner", ws |-> "worker"]
MCWeight == [ms |-> 1, mt |-> 1, ws |-> 1]
MCCapacity == [ms |-> 400, mt |-> 300, ws |-> 300]
MCTasks ==
  [miner |-> {"AddPiece", "PreCommit2", "Commit1", "Commit2", "Finalize", "Fetch", "ReadUnsealed",
              "Unseal", "ReplicaUpdate", "ProveUpdate1", "ProveUpdate2"},
   worker |-> {"PreCommit1", "PreCommit2", "Unseal", "Fetch", "Finalize", "ReplicaUpdate"}]

MCPieceSize == a1 :> 1 @@ a2 :> 2 @@ a3 :> 1

(***************************************************************************)
(*   g -- 1 -- 2 ------- 4 -- 5                                            *)
(*          `- 12 - 13 ------ 15        heights are the last digits        *)
(***************************************************************************)
MCEvTipsets == {0, 1, 2, 4, 5, 12, 13, 15}
MCEvParent == 1 :> 0 @@ 2 :> 1 @@ 4 :> 2 @@ 5 :> 4 @@ 12 :> 1 @@ 13 :> 12 @@ 15 :> 13
MCEvHeight == [t \in MCEvTipsets |-> t % 10]
MCEvRequests == {[height |-> 2, confidence |-> 1], [height |-> 3, confidence |-> 0], [height |-> 2, confidence |-> 2]}

(***************************************************************************)
(* Two branches with null rounds.  The miner has a fee debt in one tipset  *)
(* and a consensus fault in another; its second sector is terminated.      *)
(***************************************************************************)
MCBkTipsets == 1..6
MCBkParent == <<1, 1, 2, 3, 2, 5>>
MCBkHeight == <<0, 1, 2, 4, 3, 4>>
MCBkWinCounts == <<1, 1, 1, 1, 2, 2>>
MCBkState ==
  [t \in MCBkTipsets |->
     [worker |-> "w", power |-> 3, raw |-> 3, total |-> 8, miners |-> 1, claim |-> TRUE,
      debt |-> IF t = 3 THEN 1 ELSE 0, faultUntil |-> IF t = 6 THEN 9 ELSE -1,
      sectors |-> {[id |-> i, terminated |-> i = 2, unproven |-> i = 3 /\ t < 2, faulty |-> FALSE] : i \in 1..3},
      nonces |-> ("a" :> MCBkHeight[t] @@ "b" :> 0)]]
MCBkSelect ==
  [t \in MCBkTipsets |->
     <<[from |-> "a", nonce |-> MCBkHeight[t], gas |-> 2, bls |-> TRUE],
       [from |-> "b", nonce |-> 0, gas |-> 1, bls |-> FALSE],
       [from |-> "a", nonce |-> MCBkHeight[t] + 1, gas |-> 2, bls |-> TRUE]>>]

\* Four deadlines: one faulty sector, one that recovers, an empty deadline.
Part(live, faulty, recovering) == [live |-> live, faulty |-> faulty, recovering |-> recovering]
MCPartitions ==
  0 :> <<Part({1, 2}, {2}, {})>> @@ 1 :> <<Part({3}, {}, {}), Part({4}, {4}, {4})>>
  @@ 2 :> <<>> @@ 3 :> <<Part({5}, {}, {})>>
MCBad == {{}, {1, 2, 3}}

MinerInit ==
  /\ part \in MinerParts
  /\ SmInit /\ SfInit /\ RlInit /\ BatcherInit /\ PackInit /\ EvInit /\ MnInit /\ WpInit
  /\ part # "stores" => smDone = {} /\ smRestarts = 0
  /\ part # "window" => wpBad = {}

MinerNext ==
  \/ part = "stores" /\ SmNext
     /\ UNCHANGED <<part, sfVars, rlVars, batcherVars, packVars, evVars, mnVars, wpVars>>
  \/ part = "file" /\ SfNext
     /\ UNCHANGED <<part, smVars, rlVars, batcherVars, packVars, evVars, mnVars, wpVars>>
  \/ part = "runs" /\ RlNext
     /\ UNCHANGED <<part, smVars, sfVars, batcherVars, packVars, evVars, mnVars, wpVars>>
  \/ part = "batch" /\ BatcherNext
     /\ UNCHANGED <<part, smVars, sfVars, rlVars, packVars, evVars, mnVars, wpVars>>
  \/ part = "pack" /\ PackNext
     /\ UNCHANGED <<part, smVars, sfVars, rlVars, batcherVars, evVars, mnVars, wpVars>>
  \/ part = "events" /\ EvNext
     /\ UNCHANGED <<part, smVars, sfVars, rlVars, batcherVars, packVars, mnVars, wpVars>>
  \/ part = "mine" /\ MnNext
     /\ UNCHANGED <<part, smVars, sfVars, rlVars, batcherVars, packVars, evVars, wpVars>>
  \/ part = "window" /\ WpNext
     /\ UNCHANGED <<part, smVars, sfVars, rlVars, batcherVars, packVars, evVars, mnVars>>

MinerSpec ==
  MinerInit /\ [][MinerNext]_<<part, smVars, sfVars, rlVars, batcherVars, packVars, evVars, mnVars, wpVars>>
-----------------------------------------------------------------------------
\* Types of every component's state.
MinerTypeOK ==
  CASE part = "stores" -> SmTypeOK [] part = "file" -> SfTypeOK [] part = "runs" -> RlTypeOK
    [] part = "batch" -> BatcherTypeOK [] part = "pack" -> PackTypeOK [] part = "events" -> EvTypeOK
    [] part = "mine" -> MnTypeOK [] part = "window" -> WpTypeOK

(***************************************************************************)
(* Sector files are kept: the last copy of a file is not removed, space    *)
(* reserved for a file is given back, what is on a disk is declared to the *)
(* index, and a finalized sector is where it can be proved (the manager,   *)
(* its workers and their stores).  The unsealed file holds what its        *)
(* trailer says is allocated, and the runs of the trailer are sets.        *)
(***************************************************************************)
SectorFilesAreKept ==
  /\ part = "stores" => CopyRemains /\ NothingStaysReserved /\ FilesAreDeclared /\ FinalizedIsProvable
  /\ part = "file" => SectorFileSound
  /\ part = "runs" => RunsAreSets

(***************************************************************************)
(* A piece is where its owner was told and no thread of the packing waits  *)
(* for ever; the ring of tipsets holds the chain, and height handlers run  *)
(* at their height on it (SealingImpl, TipsetCacheImpl and EventsImpl).    *)
(***************************************************************************)
SectorsAreServed ==
  /\ part = "pack" => PieceIsWhereTold /\ NobodyHangs
  /\ part = "events" => CacheIsChain /\ HeightsAreReported /\ RanOnChain

(***************************************************************************)
(* A block that Mining submits passes the validator and is the only one of *)
(* its round; a window proof that was sent is accepted on the chain it is  *)
(* for (Mining, BlockProducer, WindowPoStScheduler).                       *)
(***************************************************************************)
ProofsAreAccepted ==
  /\ part = "mine" => MinedIsValid /\ OneBlockPerRound
  /\ part = "window" => PostsHoldOnChain
=============================================================================
