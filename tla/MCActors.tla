------------------------------ MODULE MCActors ------------------------------
(***************************************************************************)
(* The interpreter with the runtime that messages run in, the builtin      *)
(* actors, the trees their states are made of and the CBOR that is stored. *)
(* A behaviour runs the one that part names, and the others stay as they   *)
(* start.                                                                  *)
(***************************************************************************)
EXTENDS Interpreter, AdtTrees, Cbor, Multisig, MarketActor, PowerActor, MinerActor

CONSTANTS ActorParts

VARIABLE part

(***************************************************************************)
(* Two accounts, a multisig and a miner, with methods that commit, send,   *)
(* abort and delete; blocks that repeat messages, run out of gas, name     *)
(* actors that are not there or pay for more than the sender has.          *)
(***************************************************************************)
MCVmPrice ==
  [message |-> 1, storage |-> 1, invoke |-> 2, transfer |-> 1, send |-> 1, discount |-> 1, get |-> 1,
   put |-> 1, create |-> 2]
ItSend(to, value, method, must) ==
  [op |-> "send", to |-> to, value |-> value, method |-> method, must |-> must]
ItCommit(value) == [op |-> "commit", value |-> value]
MCVmPrograms ==
  [AddLockedFund |-> <<ItCommit(5)>>, Tick |-> <<ItCommit(6)>>,
   SubmitWindowedPoSt |-> <<ItCommit(7), [op |-> "return", size |-> 1]>>,
   TryPay |-> <<ItSend(<<"key", "n">>, 1, "Send", FALSE), ItSend(<<"id", 101>>, 1, "Boom", FALSE), ItCommit(8)>>,
   Boom |-> <<ItCommit(9), ItSend(<<"id", 100>>, 1, "Send", TRUE), [op |-> "abort", code |-> "assert"]>>,
   Quit |-> <<[op |-> "delete", to |-> <<"id", 100>>]>>,
   PayThenFail |-> <<ItSend(<<"id", 101>>, 0, "Quit", TRUE), ItSend(<<"id", 101>>, 0, "Quit", TRUE)>>]
ItActor(code, head, balance) == [code |-> code, head |-> head, nonce |-> 0, balance |-> balance]
MCItGenesis ==
  0 :> ItActor("system", <<>>, 0)
  @@ 1 :> ItActor("init", <<"init", <<"key", "a">> :> 100 @@ <<"key", "b">> :> 103, 104>>, 0)
  @@ 2 :> ItActor("reward", <<"reward", 0>>, 20)
  @@ 3 :> ItActor("cron", <<"cron", <<<<"id", 102>>, <<"id", 101>>>>>>, 0)
  @@ 99 :> ItActor("account", <<"account", <<"key", "burnt">>>>, 0)
  @@ 100 :> ItActor("account", <<"account", <<"key", "a">>>>, 90)
  @@ 101 :> ItActor("multisig", <<"value", 0>>, 4) @@ 102 :> ItActor("miner", <<"value", 0>>, 3)
  @@ 103 :> ItActor("account", <<"account", <<"key", "b">>>>, 30)
ItMessage(from, n, to, value, method, params, limit, cap, premium) ==
  [from |-> from, nonce |-> n, to |-> to, value |-> value, method |-> method, params |-> params,
   limit |-> limit, cap |-> cap, premium |-> premium, size |-> 1]
MCItMessages ==
  LET a == <<"key", "a">>
      b == <<"key", "b">>
  IN [a0pay |-> ItMessage(a, 0, <<"id", 101>>, 2, "TryPay", <<>>, 35, 2, 1),
      a0new |-> ItMessage(<<"id", 100>>, 0, <<"key", "n">>, 1, "Send", <<>>, 14, 2, 1),
      a1boom |-> ItMessage(a, 1, <<"id", 101>>, 1, "Boom", <<>>, 20, 1, 0),
      a1quit |-> ItMessage(a, 1, <<"id", 101>>, 0, "PayThenFail", <<>>, 25, 1, 1),
      a1exec |-> ItMessage(a, 1, <<"id", 1>>, 2, "Exec", [code |-> "multisig", start |-> <<ItCommit(1)>>], 30, 1, 1),
      b0post |-> ItMessage(b, 0, <<"id", 102>>, 0, "SubmitWindowedPoSt", <<>>, 8, 2, 2),
      b0quit |-> ItMessage(b, 0, <<"id", 101>>, 0, "Quit", <<>>, 6, 1, 0),
      b1low |-> ItMessage(b, 1, a, 50, "Send", <<>>, 9, 1, 1)]
ItBlock(miner, ticket, cid, bls, secp) ==
  [miner |-> miner, ticket |-> ticket, cid |-> cid, bls |-> bls, secp |-> secp]
MCItBlocks ==
  {ItBlock(<<"id", 102>>, 2, 1, <<"a0pay">>, <<"b0post", "b1low">>),
   ItBlock(<<"id", 104>>, 1, 2, <<"a0pay", "a1boom">>, <<>>),
   ItBlock(<<"id", 102>>, 1, 3, <<"a0new", "a1exec">>, <<"b0quit">>),
   ItBlock(<<"id", 104>>, 2, 4, <<"b0quit">>, <<"a1quit">>),
   ItBlock(<<"key", "zz">>, 1, 5, <<"a0pay", "b0quit">>, <<>>)}

\* Keys whose hashes part at every level, and only at the last one.
MCHmHash ==
  <<<<0, 0, 0, 0, 0, 0>>, <<0, 0, 0, 0, 0, 1>>, <<0, 0, 0, 0, 1, 0>>, <<0, 0, 0, 1, 0, 0>>,
    <<0, 0, 1, 0, 0, 0>>, <<1, 0, 0, 0, 0, 0>>>>

MCMsFounders == <<"a", "b">>
MCMsCalls ==
  {[method |-> "Send", value |-> 2], [method |-> "AddSigner", signer |-> "c", change |-> TRUE],
   [method |-> "RemoveSigner", signer |-> "a", change |-> TRUE],
   [method |-> "RemoveSigner", signer |-> "b", change |-> FALSE],
   [method |-> "SwapSigner", from |-> "a", to |-> "c"],
   [method |-> "ChangeThreshold", threshold |-> 2],
   [method |-> "LockBalance", start |-> 1, duration |-> 2, amount |-> 2]}

MkProposal(client, verified, start, end) ==
  [client |-> client, provider |-> "m", verified |-> verified, start |-> start, end |-> end, price |-> 1,
   pcoll |-> 1, ccoll |-> 1, size |-> 2, signed |-> TRUE, label_fits |-> TRUE]
MCMkMiners == [m |-> [owner |-> "o", worker |-> "w", control |-> {"k"}]]
MCMkBatches ==
  {<<MkProposal("c", FALSE, 1, 5)>>, <<MkProposal("c", TRUE, 2, 4), MkProposal("d", FALSE, 1, 3)>>}
MCMkPower == [raw |-> 2, qa |-> 2, baseline |-> 2]

MCRwSimple == [e \in 0..10 |-> IF e < 4 THEN 8 - 2 * e ELSE 1]
MCRwSupply(theta) == (20 * theta) \div (theta + 40)
\* Before network version 7, actor version 2 differs in miner_count alone.
MCPwVersions == {[actor |-> 0, network7 |-> FALSE], [actor |-> 2, network7 |-> TRUE]}
MCPwDeltas == {<<2, 3>>, <<-2, -3>>}

MCSectorPower == <<1, 2, 4>>
MCSectorPledge == <<1, 2, 1>>
MCSectorExpiration == <<4, 7, 8>>

MCMiVersions ==
  {[actor |-> 0, early |-> TRUE, n7 |-> FALSE], [actor |-> 0, early |-> FALSE, n7 |-> FALSE],
   [actor |-> 2, early |-> FALSE, n7 |-> FALSE], [actor |-> 3, early |-> FALSE, n7 |-> TRUE]}
MCMiVest == [delay |-> 0, period |-> 3, step |-> 1, quantization |-> 2]

mkOwnVars == <<mkVersion, mk, mkEpoch, mkBalance, mkBurnt, mkDied>>
pwOwnVars == <<pwVersion, pw, pwEpoch, pwInit>>
allVars == <<part, itVars, hmVars, amVars, cbVars, msVars, mkVars, pwVars, dlVars, miVars>>

\* Of a part that does not run, one initial state is enough.
ActorsInit ==
  /\ part \in ActorParts
  /\ ItInit
  /\ HmInit /\ (part # "hamt" => hmV3)
  /\ AmInit /\ (part # "amt" => amV3)
  /\ IF part = "cbor" THEN CbInit ELSE CbInit /\ cbCase = 1 /\ cbVariant = 0
  /\ MsInit /\ (part # "multisig" => msVersion = 0 /\ ms.threshold = 1 /\ ms.duration = 0)
  /\ IF part = "verified" THEN VrInit /\ MkEmpty ELSE MkInit
  /\ part # "market" => mkVersion = 0
  /\ PwInit /\ (part # "power" => pwVersion.actor = 0)
  /\ DlInit /\ (part # "deadline" => dlVersion = 0)
  /\ MiInit /\ (part # "miner" => miVersion.early /\ miEpoch = 0 /\ miBalance = 0 /\ mi.start = 1)

ActorsNext ==
  \/ part = "vm" /\ ItNext /\ UNCHANGED <<part, hmVars, amVars, cbVars, msVars, mkVars, pwVars, dlVars, miVars>>
  \/ part = "hamt" /\ HmNext /\ UNCHANGED <<part, itVars, amVars, cbVars, msVars, mkVars, pwVars, dlVars, miVars>>
  \/ part = "amt" /\ AmNext /\ UNCHANGED <<part, itVars, hmVars, cbVars, msVars, mkVars, pwVars, dlVars, miVars>>
  \/ part = "cbor" /\ CbNext /\ UNCHANGED <<part, itVars, hmVars, amVars, msVars, mkVars, pwVars, dlVars, miVars>>
  \/ part = "multisig" /\ MsNext /\ UNCHANGED <<part, itVars, hmVars, amVars, cbVars, mkVars, pwVars, dlVars, miVars>>
  \/ part = "verified" /\ VrNext
     /\ UNCHANGED <<part, itVars, hmVars, amVars, cbVars, msVars, mkOwnVars, pwVars, dlVars, miVars>>
  \/ part = "market" /\ MkNext /\ UNCHANGED <<part, itVars, hmVars, amVars, cbVars, msVars, pwVars, dlVars, miVars>>
  \/ part = "reward" /\ RwNext
     /\ UNCHANGED <<part, itVars, hmVars, amVars, cbVars, msVars, mkVars, pwOwnVars, dlVars, miVars>>
  \/ part = "power" /\ PwNext /\ UNCHANGED <<part, itVars, hmVars, amVars, cbVars, msVars, mkVars, dlVars, miVars>>
  \/ part = "deadline" /\ DlNext /\ UNCHANGED <<part, itVars, hmVars, amVars, cbVars, msVars, mkVars, pwVars, miVars>>
  \/ part = "miner" /\ MiNext /\ UNCHANGED <<part, itVars, hmVars, amVars, cbVars, msVars, mkVars, pwVars, dlVars>>

ActorsSpec == ActorsInit /\ [][ActorsNext]_allVars
-----------------------------------------------------------------------------
\* Types of every component's state.
ActorsTypeOK ==
  CASE part = "vm" -> ItTypeOK [] part = "hamt" -> HmTypeOK [] part = "amt" -> AmTypeOK
    [] part = "cbor" -> CbTypeOK [] part = "multisig" -> MsTypeOK [] part = "verified" -> VrTypeOK
    [] part = "market" -> MkTypeOK [] part = "reward" -> RwTypeOK [] part = "power" -> PwTypeOK
    [] part = "deadline" -> DlTypeOK [] part = "miner" -> MiTypeOK

(***************************************************************************)
(* No tokens appear or vanish while tipsets run, a block pays each message *)
(* once, and messages run in order and within their gas (Interpreter,      *)
(* Env, RuntimeImpl).                                                      *)
(***************************************************************************)
ExecutionIsSound == part = "vm" => FundsConserved /\ PaidOnce /\ GasAndOrder

(***************************************************************************)
(* A HAMT is the map and an AMT the array that the calls describe, in      *)
(* memory and once flushed (storage/hamt, storage/amt); a stored value is  *)
(* read back as it was, and a stream as what was written (codec/cbor,      *)
(* CborStream).                                                            *)
(***************************************************************************)
StoredIsRead ==
  /\ part = "hamt" => HamtIsMap
  /\ part = "amt" => AmtIsArray
  /\ part = "cbor" => CborKeepsValues

(***************************************************************************)
(* The sums that the builtin actors keep: data cap is neither made nor     *)
(* lost (verified registry), escrow covers what is owed and every deal has *)
(* its next update (market), rewards add up to the tokens of the actor     *)
(* (reward), the power of the network is that of the claims and no cron    *)
(* event is stranded (power); a deadline's sums are those of its           *)
(* partitions and the power it reported that of its active sectors, and a  *)
(* miner's funds add up and its deadlines are aligned (miner).             *)
(***************************************************************************)
ActorsAddUp ==
  /\ part \in {"verified", "market"} => DataCapConserved
  /\ part = "market" => EscrowIsOwed /\ DealsAreScheduled
  /\ part \in {"reward", "power"} => RewardsAreAccounted
  /\ part = "power" => PowerIsClaimed /\ CronEventsAreReached
  /\ part = "deadline" => DlSafety
  /\ part = "miner" => MinerSafety
=============================================================================
