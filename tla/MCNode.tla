------------------------------- MODULE MCNode -------------------------------
(***************************************************************************)
(* The parts of a node: the sync job and its branches, the blocksync,      *)
(* hello and peer protocols, the file of the main chain and the tipset     *)
(* cache, the message pool, the block stores, and the JSON api and its     *)
(* link.  A behaviour runs the one that part names, and the others stay as *)
(* they start.                                                             *)
(***************************************************************************)
EXTENDS ChainSync, Mpool, BlockStores, JsonRpc

CONSTANTS NodeParts

VARIABLE part

(***************************************************************************)
(* Tipsets, with their blocks and, left to right, their heights:           *)
(*   1 {g} -- 2 {a} ---- (null) -- 5 {x}, 6 {y}, 7 {x, y}                  *)
(*        `-- 3 {b} -- 4 {c}                                               *)
(* The lower branch is the heavier one.                                    *)
(***************************************************************************)
MCHeight == <<0, 1, 1, 2, 3, 3, 3>>
MCParent == <<1, 1, 1, 3, 2, 2, 2>>
MCBlocksOf == <<{"g"}, {"a"}, {"b"}, {"c"}, {"x"}, {"y"}, {"x", "y"}>>
MCMiner == [b \in {"g", "a", "b", "c", "x", "y"} |-> IF b = "y" THEN "n" ELSE "m"]
MCWeight == <<1, 2, 5, 6, 3, 3, 4>>
MCKeys == <<<<"g">>, <<"a">>, <<"b">>, <<"c">>, <<"x">>, <<"y">>, <<"x", "y">>>>

(***************************************************************************)
(* Messages of two senders in a chain that forks after its genesis.        *)
(***************************************************************************)
MpKind(cap, premium, limit, value) ==
  [cap |-> cap, premium |-> premium, limit |-> limit, value |-> value, cost |-> 1]
MpMsg(from, n, kind) == [from |-> from, nonce |-> n, bls |-> from = 1] @@ kind
MCMpHeight == <<0, 1, 2, 2>>
MCMpParent == <<1, 1, 2, 1>>
MCMpMessagesOf ==
  <<<<>>, <<MpMsg(1, 0, MpKind(5, 3, 3, 1))>>, <<MpMsg(2, 0, MpKind(7, 6, 5, 0))>>,
    <<MpMsg(1, 0, MpKind(6, 3, 2, 0))>>>>
MCMpBlocks == <<1, 1, 2, 1>>
MCMpFee == <<1, 1, 1, 2>>
MCMpNextFee == <<1, 2, 1, 1>>
MCMpBalance == <<60, 60>>
MCMpGossip ==
  {MpMsg(1, 1, MpKind(0, 1, 1, 0)), MpMsg(1, 2, MpKind(7, 5, 1, 0)), MpMsg(2, 0, MpKind(7, 6, 5, 0))}
MCMpKinds == {MpKind(0, 0, 3, 1)}
MCBlockProbabilities == <<<<1, 2>>, <<1, 4>>>>
MCMpFeeGrowth == <<5, 2>>

MCCiCar == <<-1, 3>>

(***************************************************************************)
(* A chain of five tipsets.  A state refers to the init actor, which none  *)
(* of them changes, to an account and to another actor.                    *)
(***************************************************************************)
MCCoParent == <<1, 1, 2, 3, 4>>
MCCoHeight == <<0, 1, 2, 3, 4>>
MCCoLinks ==
  [b \in {<<"state", t>> : t \in 0..5} \union {<<"init", 0>>} |->
     IF b[1] = "state" THEN {<<"account", b[2]>>, <<"init", 0>>, <<"other", b[2]>>} ELSE {<<"init", 1>>}]
MCCoKind == [b \in {"account", "init", "other"} \X (0..5) |-> b[1]]

\* The types that cross unharmed; the README lists the other four.
MCJsTypes ==
  SelectSeq(jsonTypes, LAMBDA t : t \notin {DealScheduleJson, DealInfoJson, PieceJson, ApiSectorInfoJson})

RpMethod(chan, perm, there, params) == [chan |-> chan, perm |-> perm, there |-> there, params |-> params]
MCRpMethods ==
  [get |-> RpMethod(FALSE, "read", TRUE, TRUE), sub |-> RpMethod(TRUE, "read", TRUE, TRUE),
   bad |-> RpMethod(FALSE, "write", TRUE, TRUE), gone |-> RpMethod(FALSE, "read", FALSE, TRUE)]
MCRpTokens == [w |-> {"read", "write"}, x |-> {}]

NodeInit ==
  /\ part \in NodeParts
  /\ SyInit /\ (part # "sync" => sy.head = SyGenesis)
  /\ PpInit /\ CfInit /\ TcInit /\ MpInit /\ CiInit /\ CoInit
  /\ BsInit /\ (part # "blocksync" => bsClient.headers = {} /\ bsServer.lacks = {})
  /\ IF part = "json" THEN JsInit
     ELSE JsInit /\ jsType = 1 /\ jsValue = CHOOSE v \in Samples(JsTypes[1]) : TRUE
  /\ RpInit /\ (part # "rpc" => rpServer.perms = RpDefault)

NodeNext ==
  \/ part = "sync" /\ SyNext
     /\ UNCHANGED <<part, bsVars, ppVars, cfVars, tcVars, mpVars, ciVars, coVars, jsVars, rpVars>>
  \/ part = "blocksync" /\ BsNext
     /\ UNCHANGED <<part, syVars, ppVars, cfVars, tcVars, mpVars, ciVars, coVars, jsVars, rpVars>>
  \/ part = "peers" /\ PpNext
     /\ UNCHANGED <<part, syVars, bsVars, cfVars, tcVars, mpVars, ciVars, coVars, jsVars, rpVars>>
  \/ part = "file" /\ CfNext
     /\ UNCHANGED <<part, syVars, bsVars, ppVars, tcVars, mpVars, ciVars, coVars, jsVars, rpVars>>
  \/ part = "cache" /\ TcNext
     /\ UNCHANGED <<part, syVars, bsVars, ppVars, cfVars, mpVars, ciVars, coVars, jsVars, rpVars>>
  \/ part = "mpool" /\ MpNext
     /\ UNCHANGED <<part, syVars, bsVars, ppVars, cfVars, tcVars, ciVars, coVars, jsVars, rpVars>>
  \/ part = "index" /\ CiNext
     /\ UNCHANGED <<part, syVars, bsVars, ppVars, cfVars, tcVars, mpVars, coVars, jsVars, rpVars>>
  \/ part = "compact" /\ CoNext
     /\ UNCHANGED <<part, syVars, bsVars, ppVars, cfVars, tcVars, mpVars, ciVars, jsVars, rpVars>>
  \/ part = "json" /\ JsNext
     /\ UNCHANGED <<part, syVars, bsVars, ppVars, cfVars, tcVars, mpVars, ciVars, coVars, rpVars>>
  \/ part = "rpc" /\ RpNext
     /\ UNCHANGED <<part, syVars, bsVars, ppVars, cfVars, tcVars, mpVars, ciVars, coVars, jsVars>>

NodeSpec ==
  NodeInit /\ [][NodeNext]_<<part, syVars, bsVars, ppVars, cfVars, tcVars, mpVars, ciVars, coVars, jsVars, rpVars>>
-----------------------------------------------------------------------------
\* Types of every component's state.
NodeTypeOK ==
  CASE part = "sync" -> SyTypeOK [] part = "blocksync" -> BsTypeOK [] part = "peers" -> PpTypeOK
    [] part = "file" -> CfTypeOK [] part = "cache" -> TcTypeOK [] part = "mpool" -> MpTypeOK
    [] part = "index" -> CiTypeOK [] part = "compact" -> CoTypeOK [] part = "json" -> JsTypeOK
    [] part = "rpc" -> RpTypeOK

(***************************************************************************)
(* The sync job's main branch is linked, its branches are sound and the    *)
(* head follows what was interpreted (SyncJob, TipsetBranch and Lazy); the *)
(* chain file holds the main chain and the cache of loaded tipsets is the  *)
(* list it says it is (file.cpp, TsLoadCache); what a block store was      *)
(* given is found through its index (CidsIpld), and the compacter keeps    *)
(* what the node needs (CompacterIpld).                                    *)
(***************************************************************************)
ChainIsKept ==
  /\ part = "sync" => MainIsLinked /\ BranchesAreSound /\ CatchesUp
  /\ part = "file" => FilesHoldChain
  /\ part = "cache" => CacheIsList
  /\ part = "index" => StoreIsIndexed
  /\ part = "compact" => NeededIsKept

(***************************************************************************)
(* A message pushed locally is kept until the chain has it, and what is    *)
(* selected for a block can be executed in it (MessagePool).               *)
(***************************************************************************)
MessagesAreServed == part = "mpool" => PushedIsKept /\ SelectionIsExecutable

(***************************************************************************)
(* A blocksync request ends with a whole answer, a hello ends, a call of   *)
(* the api is answered (BlocksyncRequest, SayHello, the rpc client), and   *)
(* what it carries decodes from its JSON to itself (api/rpc/json.hpp).     *)
(***************************************************************************)
PeersAreAnswered ==
  /\ part = "blocksync" => ResultIsWhole
  /\ part = "peers" => HellosEnd
  /\ part = "rpc" => CallersAreAnswered
  /\ part = "json" => JsonKeepsValues
=============================================================================
