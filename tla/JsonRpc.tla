------------------------------ MODULE JsonRpc -------------------------------
(***************************************************************************)
(* The API over a web socket: its JSON encoding, the types it carries, and *)
(* the link between a client and the server.                               *)
(***************************************************************************)
EXTENDS Integers, Sequences, SequencesExt, FiniteSets, TLC, ActorBase

(***************************************************************************)
(* The JSON form of the structures that cross the RPC interface:           *)
(* codec/json (one jsEncode and one jsDecode per kind of type, and the parser  *)
(* that turns numbers into strings).  A C++ type is a record with its      *)
(* kind; the values of a leaf type are small integers, and a string is the *)
(* pair of the notation it is written in and the value it stands for.      *)
(***************************************************************************)

\* JSON values, as rapidjson holds them.
JNull == [t |-> "null"]
JNum(n) == [t |-> "num", n |-> n]
JBool(b) == [t |-> "bool", b |-> b]
JStr(notation, v) == [t |-> "str", s |-> <<notation, v>>]
JArr(elements) == [t |-> "arr", e |-> elements]
JObj(members) == [t |-> "obj", m |-> members]

\* The kinds of C++ types the codec knows.
JsNum == [kind |-> "num"]
Flag == [kind |-> "flag"]
JsBytes == [kind |-> "bytes"]
JsText == [kind |-> "text", as |-> "text"]
BigNum == [kind |-> "text", as |-> "decimal"]
JsOpt(t) == [kind |-> "opt", of |-> t]
List(t) == [kind |-> "list", of |-> t]
MapOf(t) == [kind |-> "map", of |-> t]
SetOf(t) == [kind |-> "set", of |-> t]
SetAsMap(t) == [kind |-> "asmap", of |-> t]
JsTuple(ts) == [kind |-> "tuple", of |-> ts]
EnumText(n) == [kind |-> "enum", as |-> "text", size |-> n]
EnumNum(n) == [kind |-> "enum", as |-> "num", size |-> n]

\* A structure: its members, each under the key it is written with; the keys
\* written besides (derived, or constant); the members that are read, each with
\* the last key read into it; the keys whose absence is accepted; the members
\* the encoding leaves out; whether the decoder does more than raise.
Struct(members) ==
    [kind |-> "struct", members |-> members, derived |-> {}, lacks |-> {}, lost |-> <<>>,
     reads |-> [k \in DOMAIN members |-> k], decodable |-> TRUE]
JsPlus(t, keys) == [t EXCEPT !.derived = keys]
Losing(t, members) == [t EXCEPT !.lost = members]
MayLack(t, keys) == [t EXCEPT !.lacks = keys]
Reading(t, reads) == [t EXCEPT !.reads = reads]
EncodeOnly(t) == [t EXCEPT !.decodable = FALSE]

\* CIDs: number 9 is the one that is not a CBOR Blake2b-256 CID.
NotBlake == 9
JsCid == [kind |-> "cid", blake |-> FALSE]
JsCbCid == [kind |-> "cid", blake |-> TRUE]

JRaise(error) == [error |-> error]
JDone(v) == [error |-> "", v |-> v]
Failed(r) == r.error # ""
\* A failure among results, or the values of all of them.
Gather(results) ==
    IF \E i \in DOMAIN results : Failed(results[i])
    THEN results[CHOOSE i \in DOMAIN results : Failed(results[i])]
    ELSE JDone([i \in DOMAIN results |-> results[i].v])

\* What kDefaultT gives: the value a member has before it is decoded.
RECURSIVE kDefaultT(_)
kDefaultT(t) ==
    CASE t.kind \in {"opt", "list"} -> <<>>
      [] t.kind \in {"set", "asmap"} -> {}
      [] t.kind = "map" -> <<>>
      [] t.kind = "flag" -> FALSE
      [] t.kind = "tuple" -> [i \in DOMAIN t.of |-> kDefaultT(t.of[i])]
      [] t.kind = "struct" -> [k \in DOMAIN t.members |-> kDefaultT(t.members[k])] @@
                              [k \in DOMAIN t.lost |-> kDefaultT(t.lost[k])]
      [] t.kind = "parents" -> [genesis |-> FALSE, cids |-> <<>>]
      [] t.kind = "response" -> [id |-> <<>>, failed |-> FALSE, result |-> 0]
      [] OTHER -> 0

-----------------------------------------------------------------------------
(* Encoding.                                                               *)

encodeCid(v) == JObj(("/" :> JStr("cid", v)))
\* A MinerInfo's peer id: no bytes are written as null.
encodeOrNull(v) == IF v = 0 THEN JNull ELSE JStr("base58", v)
\* The block before the mainnet genesis is named by a CID that is not Blake.
jsEncodeParents(v) == JArr(IF v.genesis THEN <<encodeCid(NotBlake)>>
                         ELSE [i \in DOMAIN v.cids |-> encodeCid(v.cids[i])])
encodeResponse(v) ==
    JObj([jsonrpc |-> JStr("text", 2), id |-> IF v.id = <<>> THEN JNull ELSE JNum(v.id[1])] @@
         IF v.failed THEN ("error" :> JObj([code |-> JNum(v.result), message |-> JStr("text", v.result)]))
         ELSE ("result" :> JNum(v.result)))

RECURSIVE jsEncode(_, _)
encodeOptional(t, v) == IF v = <<>> THEN JNull ELSE jsEncode(t.of, v[1])
encodeList(t, v) == JArr([i \in DOMAIN v |-> jsEncode(t.of, v[i])])
jsEncodeMap(t, v) == JObj([k \in DOMAIN v |-> jsEncode(t.of, v[k])])
jsEncodeTuple(t, v) == JArr([i \in DOMAIN v |-> jsEncode(t.of[i], v[i])])
encodeSetAsMap(t, v) == JObj([k \in v |-> JObj(<<>>)])
encodeStruct(t, v) ==
    JObj([k \in DOMAIN t.members |-> jsEncode(t.members[k], v[k])] @@
         [k \in t.derived |-> JStr("derived", k)])
jsEncode(t, v) ==
    CASE t.kind = "num" -> JNum(v)
      [] t.kind = "flag" -> JBool(v)
      [] t.kind = "bytes" -> JStr("base64", v)
      [] t.kind = "text" -> JStr(t.as, v)
      [] t.kind = "enum" -> IF t.as = "num" THEN JNum(v) ELSE JStr("text", v)
      [] t.kind = "cid" -> encodeCid(v)
      [] t.kind = "opt" -> encodeOptional(t, v)
      [] t.kind = "list" -> encodeList(t, v)
      [] t.kind = "set" -> encodeList(t, SetToSortSeq(v, <))
      [] t.kind = "map" -> jsEncodeMap(t, v)
      [] t.kind = "asmap" -> encodeSetAsMap(t, v)
      [] t.kind = "tuple" -> jsEncodeTuple(t, v)
      [] t.kind = "struct" -> encodeStruct(t, v)
      [] t.kind = "orNull" -> encodeOrNull(v)
      [] t.kind = "parents" -> jsEncodeParents(v)
      [] t.kind = "response" -> encodeResponse(v)

\* format and parse: parsing keeps every number as the string of its digits.
RECURSIVE parse(_)
parse(j) ==
    CASE j.t = "num" -> JStr("decimal", j.n)
      [] j.t = "arr" -> JArr([i \in DOMAIN j.e |-> parse(j.e[i])])
      [] j.t = "obj" -> JObj([k \in DOMAIN j.m |-> parse(j.m[k])])
      [] OTHER -> j

-----------------------------------------------------------------------------
(* Decoding.                                                               *)

\* A string read in a notation: what it stands for in another one is a failure
\* of the library that reads it.
AsString(j, notation) ==
    IF j.t # "str" THEN JRaise("kWrongType")
    ELSE IF j.s[1] # notation THEN JRaise("notation") ELSE JDone(j.s[2])
decodeInt(j) == IF j.t = "num" THEN JDone(j.n) ELSE AsString(j, "decimal")
jsDecodeBool(j) == IF j.t = "bool" THEN JDone(j.b) ELSE JRaise("kWrongType")
decodeBase64(j) == IF j.t = "null" THEN JDone(0) ELSE AsString(j, "base64")
decodeEnum(t, j) ==
    LET r == IF t.as = "num" THEN decodeInt(j) ELSE AsString(j, "text")
    IN  IF ~Failed(r) /\ r.v \notin 0 .. t.size - 1 THEN JRaise("kWrongEnum") ELSE r

\* The value under a key.
Get(j, key) ==
    IF j.t # "obj" THEN JRaise("kWrongType")
    ELSE IF key \notin DOMAIN j.m THEN JRaise("kOutOfRange") ELSE JDone(j.m[key])
GetLenient(j, key) ==
    IF j.t # "obj" THEN JRaise("kWrongType")
    ELSE IF key \notin DOMAIN j.m THEN JDone(JNull) ELSE JDone(j.m[key])

decodeCid(t, j) ==
    LET s == Get(j, "/")
        r == IF Failed(s) THEN s ELSE AsString(s.v, "cid")
    IN  IF ~Failed(r) /\ t.blake /\ r.v = NotBlake THEN JRaise("kWrongType") ELSE r
decodeOrNull(j) == IF j.t = "null" THEN JDone(0) ELSE AsString(j, "base58")
jsDecodeParents(j) ==
    IF j.t = "null" THEN JDone([genesis |-> FALSE, cids |-> <<>>])
    ELSE IF j.t # "arr" THEN JRaise("kWrongType")
    ELSE LET cids == Gather([i \in DOMAIN j.e |-> decodeCid(JsCid, j.e[i])])
         IN  IF Failed(cids) THEN cids
             ELSE IF cids.v = <<NotBlake>> THEN JDone([genesis |-> TRUE, cids |-> <<>>])
             ELSE IF NotBlake \in Range(cids.v) THEN JRaise("kWrongType")
             ELSE JDone([genesis |-> FALSE, cids |-> cids.v])
decodeError(j) ==
    LET code == Get(j, "code")
        message == Get(j, "message")
    IN  IF Failed(code) THEN code ELSE IF Failed(message) THEN message
        ELSE Gather(<<decodeInt(code.v), AsString(message.v, "text")>>)
decodeResponse(j) ==
    LET id == Get(j, "id")
        n == IF Failed(id) \/ id.v = JNull THEN JDone(0) ELSE decodeInt(id.v)
        error == decodeError(Get(j, "error").v)
    IN  IF Failed(id) THEN id ELSE IF Failed(n) THEN n
        ELSE LET kept == [id |-> IF id.v = JNull THEN <<>> ELSE <<n.v>>, failed |-> FALSE, result |-> 0]
             IN  IF "error" \in DOMAIN j.m
                 THEN IF Failed(error) THEN error
                      ELSE JDone([kept EXCEPT !.failed = TRUE, !.result = error.v[1]])
                 ELSE IF "result" \in DOMAIN j.m
                      THEN JDone([kept EXCEPT !.result = j.m["result"].s[2]])
                      ELSE JDone(kept)

RECURSIVE jsDecode(_, _)
decodeOptional(t, j) ==
    IF j.t = "null" THEN JDone(<<>>)
    ELSE LET r == jsDecode(t.of, j) IN IF Failed(r) THEN r ELSE JDone(<<r.v>>)
jsDecodeList(t, j) ==
    IF j.t = "null" THEN JDone(<<>>)
    ELSE IF j.t # "arr" THEN JRaise("kWrongType")
    ELSE Gather([i \in DOMAIN j.e |-> jsDecode(t.of, j.e[i])])
decodeSet(t, j) == LET r == jsDecodeList(t, j) IN IF Failed(r) THEN r ELSE JDone(Range(r.v))
decodeMap(t, j) == Gather([k \in DOMAIN j.m |-> jsDecode(t.of, j.m[k])])
decodeSetAsMap(j) == JDone(DOMAIN j.m)
jsDecodeTuple(t, j) ==
    IF j.t # "arr" THEN JRaise("kWrongType")
    ELSE IF Len(j.e) > Len(t.of) THEN JRaise("kWrongLength")
    ELSE IF Len(j.e) < Len(t.of) THEN JRaise("kOutOfRange")
    ELSE Gather([i \in DOMAIN t.of |-> jsDecode(t.of[i], j.e[i])])
\* As decodeStruct, of a Get that takes an absent key for null.
decodeStructLenient(t, j) ==
    LET value(k) == GetLenient(j, k)
        member(k) == IF Failed(value(k)) THEN value(k) ELSE jsDecode(t.members[k], value(k).v)
        read == Gather([k \in DOMAIN t.members |-> member(k)])
    IN  IF ~t.decodable THEN JRaise("kWrongType") ELSE IF Failed(read) THEN read
        ELSE JDone([m \in DOMAIN t.reads |-> read.v[t.reads[m]]] @@ kDefaultT(t))
decodeStruct(t, j) ==
    LET value(k) == IF k \in t.lacks THEN GetLenient(j, k) ELSE Get(j, k)
        member(k) == IF Failed(value(k)) THEN value(k) ELSE jsDecode(t.members[k], value(k).v)
        read == Gather([k \in DOMAIN t.members |-> member(k)])
    IN  IF ~t.decodable THEN JRaise("kWrongType") ELSE IF Failed(read) THEN read
        ELSE JDone([m \in DOMAIN t.reads |-> read.v[t.reads[m]]] @@ kDefaultT(t))
jsDecode(t, j) ==
    CASE t.kind = "num" -> decodeInt(j)
      [] t.kind = "flag" -> jsDecodeBool(j)
      [] t.kind = "bytes" -> decodeBase64(j)
      [] t.kind = "text" -> AsString(j, t.as)
      [] t.kind = "enum" -> decodeEnum(t, j)
      [] t.kind = "cid" -> decodeCid(t, j)
      [] t.kind = "opt" -> decodeOptional(t, j)
      [] t.kind = "list" -> jsDecodeList(t, j)
      [] t.kind = "set" -> decodeSet(t, j)
      [] t.kind = "map" -> decodeMap(t, j)
      [] t.kind = "asmap" -> decodeSetAsMap(j)
      [] t.kind = "tuple" -> jsDecodeTuple(t, j)
      [] t.kind = "struct" -> decodeStruct(t, j)
      [] t.kind = "orNull" -> decodeOrNull(j)
      [] t.kind = "parents" -> jsDecodeParents(j)
      [] t.kind = "response" -> decodeResponse(j)

-----------------------------------------------------------------------------
(***************************************************************************)
(* The structures of the RPC interface and their JSON keys                 *)
(* (api/rpc/json.hpp).  Each definition lists the keys a structure is      *)
(* written with, with the type of the member under each: it stands for the *)
(* JSON_ENCODE and the JSON_DECODE of the structure, and says where the    *)
(* two differ.  Then one value crosses the interface: it is encoded,       *)
(* formatted and parsed, possibly by a peer that leaves a key out, and     *)
(* decoded.                                                                *)
(***************************************************************************)

CONSTANT JsTypes        \* the types whose values cross in this instance, a sequence

-----------------------------------------------------------------------------
(* Leaves written through a string of their own.                           *)

cpp_intJson == BigNum
MultiaddressJson == [kind |-> "text", as |-> "multiaddr"]
PeerIdJson == [kind |-> "text", as |-> "base58"]
CIDJson == JsCid
CbCidJson == JsCbCid
BlockParentCbCidsJson == [kind |-> "parents"]
RleBitsetJson == List(JsNum)
TaskTypeJson == JsText
AddressJson == [kind |-> "text", as |-> "address"]
SectorFileTypeJson == JsNum
RegisteredSealProofJson == JsNum
RegisteredPoStProofJson == JsNum
PaddedPieceSizeJson == JsNum
UnpaddedPieceSizeJson == JsNum
DomainSeparationTagJson == JsNum
CallErrorCodeJson == JsNum
SealingStateJson == JsNum
NetworkVersionJson == JsNum
StorageDealStatusJson == JsNum
AcquireModeJson == EnumText(2)
PathTypeJson == EnumText(2)
ArrayJson == JsCid
ChanJson == JsNum

PeerInfoJson == Struct([ID |-> PeerIdJson, Addrs |-> List(MultiaddressJson)])

-----------------------------------------------------------------------------
(* primitives                                                              *)

PoStProofJson == Struct([PoStProof |-> RegisteredPoStProofJson, ProofBytes |-> JsBytes])
SectorIdJson == Struct([Miner |-> JsNum, Number |-> JsNum])
ExtendedSectorInfoJson ==
    Struct([SealProof |-> RegisteredSealProofJson, SectorKey |-> JsOpt(JsCid), SectorNumber |-> JsNum,
            SealedCID |-> JsCid])
SectorRefJson == Struct([ID |-> SectorIdJson, ProofType |-> RegisteredSealProofJson])
PieceInfoJson == Struct([Size |-> PaddedPieceSizeJson, PieceCID |-> JsCid])
MetaPieceDataJson == Struct([Type |-> JsText, Info |-> PieceInfoJson])

TicketJson == Struct([VRFProof |-> JsBytes])
ElectionProofJson == Struct([WinCount |-> JsNum, VRFProof |-> JsBytes])
BeaconEntryJson == Struct([Round |-> JsNum, Data |-> JsBytes])
\* Only the two known signature types are read.
SignatureJson == Struct([Type |-> EnumNum(2), Data |-> JsBytes])
BlockHeaderJson ==
    Struct([Miner |-> AddressJson, Ticket |-> JsOpt(TicketJson), ElectionProof |-> ElectionProofJson,
            BeaconEntries |-> List(BeaconEntryJson), WinPoStProof |-> List(PoStProofJson),
            Parents |-> BlockParentCbCidsJson, ParentWeight |-> BigNum, Height |-> JsNum,
            ParentStateRoot |-> JsCid, ParentMessageReceipts |-> JsCid, Messages |-> JsCid,
            BLSAggregate |-> JsOpt(SignatureJson), Timestamp |-> JsNum, BlockSig |-> JsOpt(SignatureJson),
            ForkSignaling |-> JsNum, ParentBaseFee |-> BigNum])

UnsignedMessageJson ==
    Struct([Version |-> JsNum, To |-> AddressJson, From |-> AddressJson, Nonce |-> JsNum, Value |-> BigNum,
            GasLimit |-> JsNum, GasFeeCap |-> BigNum, GasPremium |-> BigNum, Method |-> JsNum, Params |-> JsBytes])
\* The CID is written from the message, and not read.
SignedMessageJson ==
    JsPlus(Struct([Message |-> UnsignedMessageJson, Signature |-> SignatureJson]), {"CID"})

BlockTemplateJson ==
    Struct([Miner |-> AddressJson, Parents |-> List(JsCbCid), Ticket |-> JsOpt(TicketJson),
            Eproof |-> ElectionProofJson, BeaconValues |-> List(BeaconEntryJson),
            Messages |-> List(SignedMessageJson), Epoch |-> JsNum, Timestamp |-> JsNum,
            WinningPoStProof |-> List(PoStProofJson)])
BlockWithCidsJson == Struct([Header |-> BlockHeaderJson, BlsMessages |-> List(JsCid), SecpkMessages |-> List(JsCid)])

TipsetKeyJson == List(JsCbCid)
\* The key and the height are computed again from the blocks.
TipsetCPtrJson == JsPlus(Struct([Blocks |-> List(BlockHeaderJson)]), {"Cids", "Height"})
HeadChangeJson == Struct([Type |-> EnumText(3), Val |-> TipsetCPtrJson])
SealedAndUnsealedCIDJson == Struct([Sealed |-> JsCid, Unsealed |-> JsCid])

-----------------------------------------------------------------------------
(* sector_storage, mpool                                                   *)

FsStatJson == Struct([Capacity |-> JsNum, Available |-> JsNum, FSAvailable |-> JsNum, Reserved |-> JsNum])
StoragePathJson ==
    Struct([ID |-> JsText, Weight |-> JsNum, LocalPath |-> JsText, CanSeal |-> Flag, CanStore |-> Flag])
LocalStorageMetaJson == Struct([ID |-> JsText, Weight |-> JsNum, CanSeal |-> Flag, CanStore |-> Flag])
WorkerResourcesJson ==
    Struct([MemPhysical |-> JsNum, MemSwap |-> JsNum, MemUsed |-> JsNum, CPUs |-> JsNum, GPUs |-> List(JsText)])
WorkerInfoJson == Struct([Hostname |-> JsText, Resources |-> WorkerResourcesJson])
LocalPathJson == Struct([Path |-> JsText])
StorageConfigJson == Struct([StoragePaths |-> List(LocalPathJson)])
\* The error of a report is not written.
HealthReportJson == Losing(Struct([Stat |-> FsStatJson]), [error |-> JsText])
StorageInfoJson ==
    Struct([ID |-> JsText, URLs |-> List(JsText), Weight |-> JsNum, CanSeal |-> Flag, CanStore |-> Flag])
SectorStorageInfoJson ==
    Struct([ID |-> JsText, URLs |-> List(JsText), Weight |-> JsNum, CanSeal |-> Flag, CanStore |-> Flag,
            Primary |-> Flag])
CallErrorJson == Struct([Code |-> CallErrorCodeJson, Message |-> JsText])
CallIdJson == Struct([Sector |-> SectorIdJson, ID |-> JsText])
RangeJson == Struct([Offset |-> UnpaddedPieceSizeJson, Size |-> UnpaddedPieceSizeJson])
MpoolUpdateJson == Struct([Type |-> JsNum, Message |-> SignedMessageJson])

-----------------------------------------------------------------------------
(* The actors' types.                                                      *)

\* The version of the proposal and its label are not written.
DealProposalUniversalJson ==
    Losing(Struct([PieceCID |-> JsCid, PieceSize |-> PaddedPieceSizeJson, VerifiedDeal |-> Flag,
                   Client |-> AddressJson, Provider |-> AddressJson, StartEpoch |-> JsNum, EndEpoch |-> JsNum,
                   StoragePricePerEpoch |-> BigNum, ProviderCollateral |-> BigNum,
                   ClientCollateral |-> BigNum]),
           [actor_version |-> JsNum, label |-> JsText])
DealProposalJson ==
    Losing(Struct([PieceCID |-> JsCid, PieceSize |-> PaddedPieceSizeJson, VerifiedDeal |-> Flag,
                   Client |-> AddressJson, Provider |-> AddressJson, StartEpoch |-> JsNum, EndEpoch |-> JsNum,
                   StoragePricePerEpoch |-> BigNum, ProviderCollateral |-> BigNum,
                   ClientCollateral |-> BigNum]),
           [label |-> JsText])
DealStateJson == Struct([SectorStartEpoch |-> JsNum, LastUpdatedEpoch |-> JsNum, SlashEpoch |-> JsNum])

\* The schedule's start is read into its end, and then overwritten.
DealScheduleJson ==
    Reading(Struct([StartEpoch |-> JsNum, EndEpoch |-> JsNum]), [EndEpoch |-> "EndEpoch"])
DealInfoJson ==
    Struct([PublishCid |-> JsOpt(JsCid), DealID |-> JsNum, DealProposal |-> JsOpt(DealProposalUniversalJson),
            DealSchedule |-> DealScheduleJson, KeepUnsealed |-> Flag])
PieceJson == Struct([Piece |-> PieceInfoJson, DealInfo |-> JsOpt(DealInfoJson)])
PreSealSectorJson ==
    Struct([CommR |-> JsCid, CommD |-> JsCid, SectorID |-> JsNum, Deal |-> DealProposalUniversalJson,
            ProofType |-> RegisteredSealProofJson])
MinerJson ==
    Struct([ID |-> AddressJson, Owner |-> AddressJson, Worker |-> AddressJson, PeerId |-> PeerIdJson,
            MarketBalance |-> BigNum, PowerBalance |-> BigNum, SectorSize |-> JsNum,
            Sectors |-> List(PreSealSectorJson)])

\* The capacity sector a precommit replaces is not written.
SectorPreCommitInfoJson ==
    Losing(Struct([SealProof |-> RegisteredSealProofJson, SectorNumber |-> JsNum, SealedCID |-> JsCid,
                   SealRandEpoch |-> JsNum, DealIDs |-> List(JsNum), Expiration |-> JsNum]),
           [replace_capacity |-> Flag, replace_deadline |-> JsNum, replace_partition |-> JsNum, replace_sector |-> JsNum])
SectorPreCommitOnChainInfoJson ==
    Struct([Info |-> SectorPreCommitInfoJson, PreCommitDeposit |-> BigNum, PreCommitEpoch |-> JsNum,
            DealWeight |-> BigNum, VerifiedDealWeight |-> BigNum])
DeadlineInfoJson ==
    Struct([CurrentEpoch |-> JsNum, PeriodStart |-> JsNum, Index |-> JsNum, Open |-> JsNum, Close |-> JsNum,
            Challenge |-> JsNum, FaultCutoff |-> JsNum, WPoStPeriodDeadlines |-> JsNum,
            WPoStProvingPeriod |-> JsNum, WPoStChallengeWindow |-> JsNum, WPoStChallengeLookback |-> JsNum,
            FaultDeclarationCutoff |-> JsNum])
\* What a sector replaced, and its key after an update, are not written.
SectorOnChainInfoJson ==
    Losing(Struct([SectorNumber |-> JsNum, SealProof |-> RegisteredSealProofJson, SealedCID |-> JsCid,
                   DealIDs |-> List(JsNum), Activation |-> JsNum, Expiration |-> JsNum, DealWeight |-> BigNum,
                   VerifiedDealWeight |-> BigNum, InitialPledge |-> BigNum,
                   ExpectedDayReward |-> BigNum, ExpectedStoragePledge |-> BigNum]),
           [replaced_sector_age |-> JsNum, replaced_day_reward |-> BigNum, sector_key_cid |-> JsOpt(JsCid)])

MergeJson == Struct([Lane |-> JsNum, Nonce |-> JsNum])
ModularVerificationParameterJson == Struct([Actor |-> AddressJson, Method |-> JsNum, Params |-> JsBytes])
SignedVoucherJson ==
    Struct([ChannelAddr |-> AddressJson, TimeLockMin |-> JsNum, TimeLockMax |-> JsNum, SecretPreimage |-> JsBytes,
            Extra |-> JsOpt(ModularVerificationParameterJson), Lane |-> JsNum, Nonce |-> JsNum,
            Amount |-> BigNum, MinSettleHeight |-> JsNum, Merges |-> List(MergeJson),
            Signature |-> JsOpt(SignatureJson)])
ClaimJson == Struct([RawBytePower |-> BigNum, QualityAdjPower |-> BigNum])
ActorJson == Struct([Code |-> JsCid, Head |-> JsCid, Nonce |-> JsNum, Balance |-> BigNum])
MessageReceiptJson == Struct([ExitCode |-> JsNum, Return |-> JsBytes, GasUsed |-> JsNum])
ExecutionResultJson == Struct([Msg |-> UnsignedMessageJson, MsgRct |-> MessageReceiptJson, Error |-> JsText])

-----------------------------------------------------------------------------
(* The markets and data transfer.                                          *)

\* The selector of a retrieval is not written.
DealProposalParamsJson ==
    Losing(Struct([Piece |-> JsOpt(JsCid), PricePerByte |-> BigNum, PaymentInterval |-> JsNum,
                   PaymentIntervalIncrease |-> JsNum, UnsealPrice |-> BigNum]),
           [selector |-> JsOpt(JsBytes)])
DealProposalV1_0_0Json == Struct([PayloadCID |-> JsCid, ID |-> JsNum, Params |-> DealProposalParamsJson])
RetrievalDealJson ==
    Losing(Struct([Proposal |-> DealProposalV1_0_0Json, Accepted |-> Flag, AllBlocks |-> Flag,
                   Client |-> AddressJson, Provider |-> AddressJson, TotalFunds |-> BigNum]),
           [state |-> JsNum, lane_id |-> JsNum, payment_channel_address |-> AddressJson])
RetrievalAskJson ==
    Struct([PricePerByte |-> BigNum, UnsealPrice |-> BigNum, PaymentInterval |-> JsNum,
            PaymentIntervalIncrease |-> JsNum])
RetrievalPeerJson == Struct([Address |-> AddressJson, ID |-> PeerIdJson, PieceCID |-> JsOpt(JsCid)])

\* The size of the block a transfer starts from is not written.
DataRefJson ==
    Losing(Struct([TransferType |-> JsText, Root |-> JsCid, PieceCid |-> JsOpt(JsCid), PieceSize |-> UnpaddedPieceSizeJson]),
           [raw_block_size |-> JsNum])
MinerDealJson ==
    Struct([Proposal |-> DealProposalUniversalJson, ClientSignature |-> SignatureJson, ProposalCid |-> JsCid,
            AddFundsCid |-> JsOpt(JsCid), PublishCid |-> JsOpt(JsCid), Client |-> PeerInfoJson,
            State |-> StorageDealStatusJson, PiecePath |-> JsText, MetadataPath |-> JsText,
            FastRetrieval |-> Flag, Message |-> JsText, Ref |-> DataRefJson, DealId |-> JsNum])
ImportJson == Struct([StoreId |-> JsNum, Error |-> JsText, Root |-> JsCid, Source |-> JsText, FilePath |-> JsText])
StorageDealJson == Struct([Proposal |-> DealProposalUniversalJson, State |-> DealStateJson])
\* The price of verified deals and the largest piece are not written.
StorageAskJson ==
    Losing(Struct([Price |-> BigNum, MinPieceSize |-> PaddedPieceSizeJson, Miner |-> AddressJson,
                   Timestamp |-> JsNum, Expiry |-> JsNum, SeqNo |-> JsNum]),
           [verified_price |-> BigNum, max_piece_size |-> JsNum])
SignedStorageAskV1_1_0Json == Struct([Ask |-> StorageAskJson, Signature |-> SignatureJson])
ChannelIdJson == Struct([Initiator |-> PeerIdJson, Responder |-> PeerIdJson, ID |-> JsNum])

-----------------------------------------------------------------------------
(* api                                                                     *)

\* A request may come without an id; params is any document.
RequestJson ==
    MayLack(JsPlus(Struct([id |-> JsOpt(JsNum), method |-> JsText, params |-> MapOf(JsText)]), {"jsonrpc"}), {"id"})
ResponseJson == [kind |-> "response"]
ResponseErrorJson == Struct([code |-> JsNum, message |-> JsText])
\* Any other type of key is an error, written or read.
KeyInfoJson == Struct([Type |-> EnumText(2), PrivateKey |-> JsBytes])
LedgerKeyInfoJson == Struct([Address |-> AddressJson, Path |-> List(JsNum)])
\* No peer id is null.
MinerInfoJson ==
    Struct([Owner |-> AddressJson, Worker |-> AddressJson, ControlAddresses |-> List(AddressJson),
            PeerId |-> [kind |-> "orNull"], Multiaddrs |-> List(MultiaddressJson),
            WindowPoStProofType |-> RegisteredPoStProofJson, SectorSize |-> JsNum,
            WindowPoStPartitionSectors |-> JsNum])
MessageSendSpecJson == Struct([MaxFee |-> BigNum])
MsgWaitJson ==
    Struct([Message |-> JsCid, Receipt |-> MessageReceiptJson, TipSet |-> TipsetKeyJson, Height |-> JsNum])
MinerPowerJson == Struct([MinerPower |-> ClaimJson, TotalPower |-> ClaimJson])
MarketBalanceJson == Struct([Escrow |-> BigNum, Locked |-> BigNum])
BlockMessagesJson ==
    Struct([BlsMessages |-> List(UnsignedMessageJson), SecpkMessages |-> List(SignedMessageJson),
            Cids |-> List(JsCid)])
CidMessageJson == Struct([Cid |-> JsCid, Message |-> UnsignedMessageJson])
\* Whether a sector was made to hold deals is not written.
ApiSectorInfoJson ==
    Losing(Struct([SectorID |-> JsNum, State |-> SealingStateJson, CommD |-> JsOpt(JsCid), CommR |-> JsOpt(JsCid),
                   Proof |-> JsBytes, Deals |-> List(JsNum), Pieces |-> List(PieceJson), Ticket |-> JsBytes,
                   Seed |-> JsBytes, PreCommitMsg |-> JsOpt(JsCid), CommitMsg |-> JsOpt(JsCid), Retries |-> JsNum,
                   ToUpgrade |-> Flag, SealProof |-> RegisteredSealProofJson, Activation |-> JsNum,
                   Expiration |-> JsNum, DealWeight |-> BigNum, VerifiedDealWeight |-> BigNum,
                   InitialPledge |-> BigNum, OnTime |-> JsNum, Early |-> JsNum]),
           [sector_type |-> JsNum])
PartitionJson ==
    Struct([AllSectors |-> RleBitsetJson, FaultySectors |-> RleBitsetJson,
            RecoveringSectors |-> RleBitsetJson, LiveSectors |-> RleBitsetJson,
            ActiveSectors |-> RleBitsetJson])
DeadlineJson == Struct([PostSubmissions |-> RleBitsetJson])
AddChannelInfoJson == Struct([Channel |-> AddressJson, ChannelMessage |-> JsCid])
SectorExpirationJson == Struct([OnTime |-> JsNum, Early |-> JsNum])
DealCollateralBoundsJson == Struct([Min |-> BigNum, Max |-> BigNum])
StartDealParamsJson ==
    Struct([Data |-> DataRefJson, Wallet |-> AddressJson, Miner |-> AddressJson, EpochPrice |-> BigNum,
            MinBlocksDuration |-> JsNum, ProviderCollateral |-> BigNum, DealStartEpoch |-> JsNum,
            FastRetrieval |-> Flag, VerifiedDeal |-> Flag])
InvocResultJson == Struct([Msg |-> UnsignedMessageJson, MsgRct |-> MessageReceiptJson, Error |-> JsText])
\* An object of a state is shown as JSON, which does not say what it was.
IpldObjectJson == EncodeOnly(Struct([Cid |-> JsCid, Obj |-> MapOf(JsText)]))
ActorStateJson == EncodeOnly(Struct([Balance |-> BigNum, State |-> IpldObjectJson]))
VersionResultJson == Struct([Version |-> JsText, APIVersion |-> JsNum, BlockDelay |-> JsNum])
MiningBaseInfoJson ==
    Struct([MinerPower |-> BigNum, NetworkPower |-> BigNum, Sectors |-> List(ExtendedSectorInfoJson),
            WorkerKey |-> AddressJson, SectorSize |-> JsNum, PrevBeaconEntry |-> BeaconEntryJson,
            BeaconEntries |-> List(BeaconEntryJson), EligibleForMining |-> Flag])
SectorLocationJson == Struct([Deadline |-> JsNum, Partition |-> JsNum])
QueryOfferJson ==
    Struct([Err |-> JsText, Root |-> JsCid, Piece |-> JsOpt(JsCid), Size |-> JsNum, MinPrice |-> BigNum,
            UnsealPrice |-> BigNum, PaymentInterval |-> JsNum, PaymentIntervalIncrease |-> JsNum,
            Miner |-> AddressJson, MinerPeer |-> RetrievalPeerJson])
FileRefJson == Struct([Path |-> JsText, IsCAR |-> Flag])
DatatransferChannelJson ==
    Struct([TransferID |-> JsNum, Status |-> JsNum, BaseCID |-> JsCid, IsInitiator |-> Flag, IsSender |-> Flag,
            Voucher |-> JsText, Message |-> JsText, OtherPeer |-> PeerIdJson, Transferred |-> JsNum])
\* The time is written as a constant, and read as zero.
StorageMarketDealInfoJson ==
    Losing(JsPlus(Struct([ProposalCid |-> JsCid, State |-> StorageDealStatusJson, Message |-> JsText,
                        Provider |-> AddressJson, DataRef |-> DataRefJson, PieceCID |-> JsCid, Size |-> JsNum,
                        PricePerEpoch |-> BigNum, Duration |-> JsNum, DealID |-> JsNum, Verified |-> Flag,
                        TransferChannelID |-> ChannelIdJson, DataTransfer |-> DatatransferChannelJson]),
                {"CreationTime"}),
           [creation_time |-> JsNum])
ImportResJson == Struct([Root |-> JsCid, ImportID |-> JsNum])
RetrievalOrderJson ==
    Struct([Root |-> JsCid, Piece |-> JsOpt(JsCid), Size |-> JsNum, LocalStore |-> JsOpt(JsNum), Total |-> BigNum,
            UnsealPrice |-> BigNum, PaymentInterval |-> JsNum, PaymentIntervalIncrease |-> JsNum,
            Client |-> AddressJson, Miner |-> AddressJson, MinerPeer |-> JsOpt(RetrievalPeerJson)])

\* What the methods pass besides: the deals of the market, a worker's tasks,
\* the ids of closed channels and the parameters of a call.
MarketDealMapJson == MapOf(StorageDealJson)
TaskTypesJson == SetAsMap(TaskTypeJson)
ParamsJson == JsTuple(<<AddressJson, JsOpt(JsNum), TipsetKeyJson>>)
SectorNumbersJson == SetOf(JsNum)

-----------------------------------------------------------------------------
(* The types that cross, by the namespaces of json.hpp and in its order.   *)

libp2pTypes == <<cpp_intJson, MultiaddressJson, PeerIdJson, PeerInfoJson>>
cidTypes == <<CIDJson, CbCidJson, BlockParentCbCidsJson>>
primitivesTypes ==
    <<RleBitsetJson, TaskTypeJson, AddressJson, SectorFileTypeJson, RegisteredSealProofJson,
      RegisteredPoStProofJson, PoStProofJson, SectorIdJson, ExtendedSectorInfoJson, SectorRefJson>>
blockTypes ==
    <<PaddedPieceSizeJson, UnpaddedPieceSizeJson, PieceInfoJson, MetaPieceDataJson, TicketJson,
      ElectionProofJson, BlockHeaderJson, BlockTemplateJson, BlockWithCidsJson>>
tipsetTypes ==
    <<TipsetKeyJson, TipsetCPtrJson, HeadChangeJson, SealedAndUnsealedCIDJson, DomainSeparationTagJson,
      SignatureJson>>
sectorStorageTypes ==
    <<AcquireModeJson, PathTypeJson, HealthReportJson, StorageInfoJson, SectorStorageInfoJson,
      CallErrorCodeJson, CallErrorJson, CallIdJson, RangeJson>>
miningTypes ==
    <<ArrayJson, MpoolUpdateJson, BeaconEntryJson, DealScheduleJson, DealInfoJson, PieceJson, SealingStateJson>>
minerTypes ==
    <<PreSealSectorJson, MinerJson, SectorPreCommitOnChainInfoJson, DeadlineInfoJson, SectorOnChainInfoJson,
      SectorPreCommitInfoJson>>
marketTypes ==
    <<DealStateJson, DealProposalUniversalJson, DealProposalJson, SignedVoucherJson,
      ModularVerificationParameterJson, MergeJson>>
vmTypes ==
    <<ClaimJson, NetworkVersionJson, ActorJson, MessageReceiptJson, ExecutionResultJson,
      UnsignedMessageJson, SignedMessageJson>>
retrievalTypes ==
    <<RetrievalDealJson, RetrievalAskJson, DealProposalV1_0_0Json, DealProposalParamsJson, RetrievalPeerJson>>
storageTypes ==
    <<MinerDealJson, ImportJson, StorageDealJson, StorageDealStatusJson, DataRefJson, StorageAskJson,
      SignedStorageAskV1_1_0Json, ChannelIdJson>>
rpcTypes ==
    <<RequestJson, ResponseJson, ResponseErrorJson, KeyInfoJson, LedgerKeyInfoJson, MinerInfoJson>>
stateTypes ==
    <<MessageSendSpecJson, MsgWaitJson, MinerPowerJson, MarketBalanceJson, BlockMessagesJson, CidMessageJson,
      ApiSectorInfoJson, PartitionJson>>
dealTypes ==
    <<DeadlineJson, AddChannelInfoJson, SectorExpirationJson, DealCollateralBoundsJson, StartDealParamsJson,
      ChanJson, InvocResultJson>>
nodeTypes ==
    <<IpldObjectJson, ActorStateJson, VersionResultJson, MiningBaseInfoJson, SectorLocationJson,
      QueryOfferJson, FileRefJson, DatatransferChannelJson>>
clientTypes == <<StorageMarketDealInfoJson, ImportResJson, RetrievalOrderJson>>
\* Of json_types.hpp and json_storage.hpp, and what the methods pass besides.
workerTypes == <<FsStatJson, StoragePathJson, LocalStorageMetaJson, WorkerResourcesJson, WorkerInfoJson>>
configTypes == <<LocalPathJson, StorageConfigJson>>
methodTypes == <<MarketDealMapJson, TaskTypesJson, ParamsJson, SectorNumbersJson>>

jsonTypes ==
    libp2pTypes \o cidTypes \o primitivesTypes \o blockTypes \o tipsetTypes \o sectorStorageTypes \o
    miningTypes \o minerTypes \o marketTypes \o vmTypes \o retrievalTypes \o storageTypes \o rpcTypes \o
    stateTypes \o dealTypes \o nodeTypes \o clientTypes \o workerTypes \o configTypes \o methodTypes

-----------------------------------------------------------------------------
(* One value crosses.                                                      *)

VARIABLES jsType, jsValue,   \* what is sent: the place of its type in JsTypes, and the value
          jsStage,           \* "value", "sent", "read"
          jsDoc,             \* the document on its way
          jsDropped,         \* the key the peer left out, or ""
          jsResult           \* what the receiver decoded
jsVars == <<jsType, jsValue, jsStage, jsDoc, jsDropped, jsResult>>

\* Some values of a type: every member takes each of its values in turn.
RECURSIVE Samples(_)
SamplesOf(members) ==
    LET base == [k \in DOMAIN members |-> CHOOSE v \in Samples(members[k]) : TRUE]
    IN  {base} \cup UNION {{[base EXCEPT ![k] = v] : v \in Samples(members[k])} : k \in DOMAIN members}
Samples(t) ==
    CASE t.kind = "flag" -> BOOLEAN
      [] t.kind = "enum" -> 0 .. t.size - 1
      [] t.kind = "cid" -> IF t.blake THEN {1, 2} ELSE {1, NotBlake}
      [] t.kind = "opt" -> {<<>>} \cup {<<v>> : v \in Samples(t.of)}
      [] t.kind = "list" -> {<<>>} \cup {<<v>> : v \in Samples(t.of)} \cup
                            {<<CHOOSE first \in Samples(t.of) : TRUE, v>> : v \in Samples(t.of)}
      [] t.kind \in {"set", "asmap"} -> SUBSET {1, 2}
      [] t.kind = "map" -> {<<>>} \cup [{"a"} -> Samples(t.of)] \cup [{"a", "b"} -> {CHOOSE v \in Samples(t.of) : TRUE}]
      [] t.kind \in {"tuple"} -> SamplesOf(t.of)
      [] t.kind = "struct" -> SamplesOf(t.members @@ t.lost)
      [] t.kind = "parents" -> {[genesis |-> TRUE, cids |-> <<>>]} \cup
                               {[genesis |-> FALSE, cids |-> c] : c \in {<<>>, <<1>>, <<2, 1>>}}
      [] t.kind = "response" -> [id : {<<>>, <<1>>}, failed : BOOLEAN, result : {1, 2}]
      [] OTHER -> {0, 1, 2}

JsInit ==
    /\ jsType \in DOMAIN JsTypes
    /\ jsValue \in Samples(JsTypes[jsType])
    /\ jsStage = "value" /\ jsDoc = JNull /\ jsDropped = "" /\ jsResult = JDone(0)

\* jsEncode(v), then format: the answer or the request leaves.
JsSend ==
    /\ jsStage = "value"
    /\ jsStage' = "sent"
    /\ jsDoc' = jsEncode(JsTypes[jsType], jsValue)
    /\ UNCHANGED <<jsType, jsValue, jsDropped, jsResult>>

\* A peer of another version does not know one of the keys.
JsDrop ==
    /\ jsStage = "sent" /\ jsDropped = "" /\ JsTypes[jsType].kind = "struct"
    /\ \E k \in DOMAIN jsDoc.m :
          /\ jsDropped' = k
          /\ jsDoc' = [jsDoc EXCEPT !.m = [q \in DOMAIN @ \ {k} |-> @[q]]]
    /\ UNCHANGED <<jsType, jsValue, jsStage, jsResult>>

\* parse, then jsDecode<T>.
JsReceive ==
    /\ jsStage = "sent"
    /\ jsStage' = "read"
    /\ jsResult' = jsDecode(JsTypes[jsType], parse(jsDoc))
    /\ UNCHANGED <<jsType, jsValue, jsDoc, jsDropped>>

JsNext == JsSend \/ JsDrop \/ JsReceive
JsSpec == JsInit /\ [][JsNext]_jsVars

\* What should arrive: the value, with the members that are not written as
\* they are by default.
RECURSIVE Carried(_, _)
Carried(t, v) ==
    CASE t.kind \in {"opt", "list", "map"} -> [i \in DOMAIN v |-> Carried(t.of, v[i])]
      [] t.kind = "struct" -> [k \in DOMAIN t.members |-> Carried(t.members[k], v[k])] @@
                              [k \in DOMAIN t.lost |-> kDefaultT(t.lost[k])]
      [] OTHER -> v

\* Whatever crosses the RPC interface arrives as it was sent, member by member
\* (save the members json.hpp never writes, which arrive as defaults), although
\* parsing has turned its numbers into strings; and a document that lacks a key
\* its decoder reads is refused, never read as a default (Get, json.hpp).
JsonKeepsValues ==
    LET t == JsTypes[jsType]
        sent == Carried(t, jsValue)
    IN  jsStage = "read" =>
        IF t.kind # "struct" THEN jsResult = JDone(sent)
        ELSE IF ~t.decodable THEN jsResult = JRaise("kWrongType")
        ELSE IF jsDropped = "" \/ jsDropped \in t.derived THEN jsResult = JDone(sent)
        ELSE IF jsDropped \in t.lacks THEN jsResult = JDone([sent EXCEPT ![jsDropped] = <<>>])
        ELSE jsResult = JRaise("kOutOfRange")

JsTypeOK ==
    /\ jsType \in DOMAIN JsTypes
    /\ jsStage \in {"value", "sent", "read"}
    /\ jsResult.error \in {"", "kWrongType", "kOutOfRange", "kWrongEnum", "kWrongLength"}

-----------------------------------------------------------------------------
(***************************************************************************)
(* The JSON-RPC link over one websocket: the client (wsc.cpp, with its io  *)
(* thread and its channel thread), the server's session (ws.cpp), the RPC  *)
(* table that wraps an API (make.hpp) and the channels of values that a    *)
(* method may return (adt/channel.hpp).                                    *)
(*                                                                         *)
(* A handler that runs under the client's mutex, or on the session's       *)
(* executor, is one step.  Values are numbered in the order in which the   *)
(* API wrote them.                                                         *)
(***************************************************************************)

CONSTANTS RpMethods,        \* method -> [chan, perm, there, params]
          RpTokens,         \* token -> permissions it grants, {} if invalid
          RpDefault,        \* kDefaultPermission
          RpQuietLoss,      \* the connection breaks after the last call, and is seen
                            \* to be lost with no write or delivery under way
          RpMaxCalls,       \* bound: calls
          RpMaxValues       \* bound: values written to a channel

ASSUME RpcAssumption ==
  /\ \A m \in DOMAIN RpMethods : RpMethods[m].perm \in STRING
  /\ RpMaxCalls \in Nat /\ RpMaxValues \in Nat

VARIABLES rpClient, rpServer, rpNet, rpTold
rpVars == <<rpClient, rpServer, rpNet, rpTold>>
\* rpTold: call -> what its caller was told, in order; a channel's reader is
\* told its values, then Ended.

NoCb == [none |-> TRUE]

\* What a caller may be told besides a value: the end of its channel, an error,
\* a result.
Ended == -1
Error == -2
Result == -3

-----------------------------------------------------------------------------
(* Channels: a queue until somebody reads, then a handler, then closed.    *)

NewChannel == [at |-> "queue", values |-> <<>>, ended |-> FALSE]

channelCanWrite(ch) == ch.at = "handler" \/ (ch.at = "queue" /\ ~ch.ended)

\* write, closeWrite and closeRead: the channel they leave, and what they give
\* to the handler.  The handlers of this module never ask to stop.
channelWrite(ch, v) ==
  IF ch.at = "queue"
  THEN [ch |-> IF ch.ended THEN ch ELSE [ch EXCEPT !.values = Append(@, v)], given |-> <<>>]
  ELSE [ch |-> ch, given |-> IF ch.at = "handler" THEN <<v>> ELSE <<>>]

channelCloseWrite(ch) ==
  CASE ch.at = "queue"   -> [ch |-> [ch EXCEPT !.ended = TRUE], given |-> <<>>]
    [] ch.at = "handler" -> [ch |-> [ch EXCEPT !.at = "closed"], given |-> <<Ended>>]
    [] OTHER             -> [ch |-> ch, given |-> <<>>]

channelCloseRead(ch) ==
  [ ch |-> [ch EXCEPT !.at = "closed"],
    given |-> IF ch.at = "handler" THEN <<Ended>> ELSE <<>> ]

channelRead(ch) ==
  [ ch |-> [ch EXCEPT !.at = IF ch.ended THEN "closed" ELSE "handler", !.values = <<>>],
    given |-> ch.values \o (IF ch.ended THEN <<Ended>> ELSE <<>>) ]

-----------------------------------------------------------------------------
(* The server. *)

\* The token of an upgrade request: of its header, else of its URL; a header
\* of another scheme is refused ({}).
getToken(request) ==
  CASE request.header = "empty" -> {""}
    [] request.header = "other" -> {}
    [] OTHER -> {request.token}

getPermissions(token) == IF token = "" THEN RpDefault ELSE RpTokens[token]

\* HttpSession::onRead: the permissions of the session, {} if it is refused.
onUpgrade(request) ==
  UNION {getPermissions(token) : token \in getToken(request)}

\* SocketSession::_write posts to the executor.
svWrite(s, msg, cb) == [s EXCEPT !.posts = Append(@, [msg |-> msg, cb |-> cb])]

\* A closing message waits for the session's timer.  Setting the timer again
\* ends the wait of the one before it.
svSend(s, method, id, value) ==
  LET msg == [kind |-> method, id |-> id, value |-> value]
  IN IF method = "close"
     THEN IF s.timer = <<>> THEN [s EXCEPT !.timer = <<msg>>]
          ELSE [svWrite(s, s.timer[1], NoCb) EXCEPT !.timer = <<msg>>]
     ELSE svWrite(s, msg, [none |-> FALSE, chan |-> id])

\* What the handler of channel id does with the values it is given.
onChannel(s, id, given) ==
  LET give(t, v) == IF v = Ended THEN svSend(t, "close", id, 0)
                    ELSE svSend(t, "val", id, v)
  IN FoldLeft(give, s, given)

respond(s, id, kind, value) ==
  svWrite(s, [kind |-> kind, id |-> id, value |-> value], NoCb)

\* setup: permission, parameters, then the method and its callback.
rpInvoke(s, req) ==
  LET m == RpMethods[req.method]
      id == s.nextChan
  IN CASE m.perm \notin s.perms -> {respond(s, req.id, "error", 0)}
       [] m.perm \in s.perms /\ ~m.params -> {respond(s, req.id, "error", 0)}
       [] OTHER ->
          {respond(s, req.id, "error", 0)} \union
          (IF ~m.chan THEN {respond(s, req.id, "result", 0)}
           ELSE {LET read == channelRead(ch)
                     told == respond([s EXCEPT !.nextChan = @ + 1], req.id, "chan", id)
                 IN onChannel([told EXCEPT !.chans = With(@, id, read.ch)], id, read.given)
                 : ch \in {NewChannel, channelWrite(NewChannel, 1).ch}})

handleJSONRpcRequest(s, req) ==
  IF ~RpMethods[req.method].there THEN {respond(s, req.id, "error", 0)}
  ELSE rpInvoke(s, req)

svFlush(s) ==
  IF ~s.writing /\ s.pending # <<>> THEN [s EXCEPT !.writing = TRUE] ELSE s

\* The completion of a write.  A failed one drops what is pending, and only
\* its own callback learns of it.
svWritten(s, ok) ==
  LET cb == s.pending[1].cb
      done == IF ok THEN svFlush([s EXCEPT !.writing = FALSE, !.pending = Tail(@)])
              ELSE [s EXCEPT !.writing = FALSE, !.pending = <<>>]
  IN IF ok \/ cb.none THEN done
     ELSE LET r == channelCloseRead(done.chans[cb.chan])
          IN onChannel([done EXCEPT !.chans[cb.chan] = r.ch], cb.chan, r.given)

-----------------------------------------------------------------------------
(* The client. *)

clFlush(c) ==
  IF ~c.writing /\ c.queue # <<>> THEN [c EXCEPT !.writing = TRUE] ELSE c

clCall(c, method) ==
  clFlush([c EXCEPT !.next = @ + 1,
                    !.queue = Append(@, [id |-> c.next, method |-> method]),
                    !.results = @ \union {c.next}])

Tell(told, call, what) == With(told, call, Append(GetOr(told, call, <<>>), what))

\* A mutation: channels are forgotten without their readers being told.
closedChansNone(c) == {}

\* _error: every waiting callback gets the error, every channel is closed
\* whose callback is not out for a delivery.
closedChans(c) == {id \in DOMAIN c.chans : c.chans[id].here}

clError(c) ==
  [c EXCEPT !.queue = <<>>, !.results = {}, !.chans = Empty]

errorTold(c, told) ==
  LET tellCall(call, t) == Tell(t, call, Error)
      tellChan(id, t) == Tell(t, c.chans[id].call, Ended)
  IN FoldSet(tellChan, FoldSet(tellCall, told, c.results), closedChans(c))

\* A mutation: the callback of an answered request is kept.
clResponseKeeping(c, msg) ==
  [c EXCEPT !.chans = IF msg.kind = "chan"
                      THEN With(@, msg.value, [call |-> msg.id, here |-> TRUE]) ELSE @]

\* A response: the callback of its request, once.
clResponse(c, msg) ==
  IF msg.id \notin c.results THEN c
  ELSE [c EXCEPT !.results = @ \ {msg.id},
                 !.chans = IF msg.kind = "chan"
                           THEN With(@, msg.value, [call |-> msg.id, here |-> TRUE]) ELSE @]

responseTold(c, msg, told) ==
  IF msg.id \notin c.results THEN told
  ELSE CASE msg.kind = "chan"   -> told
         [] msg.kind = "result" -> Tell(told, msg.id, Result)
         [] OTHER -> Tell(told, msg.id, Error)

-----------------------------------------------------------------------------
(* Steps of the client. *)

RpCall(method) ==
  /\ rpClient.next < RpMaxCalls
  /\ rpClient' = clCall(rpClient, method)
  /\ UNCHANGED <<rpServer, rpNet, rpTold>>

ClientWrites ==
  /\ rpClient.writing /\ ~rpNet.broken
  /\ rpNet' = [rpNet EXCEPT !.up = Append(@, rpClient.queue[1])]
  /\ rpClient' = clFlush([rpClient EXCEPT !.writing = FALSE, !.queue = Tail(@)])
  /\ UNCHANGED <<rpServer, rpTold>>

\* No callback is out for a delivery when the loss is noticed.
Quiet == RpQuietLoss => rpClient.busy = <<>>

\* After a failed write "writing" stays set.
ClientWriteFails ==
  /\ rpClient.writing /\ rpNet.broken /\ ~rpClient.failed
  /\ Quiet
  /\ rpClient' = [clError(rpClient) EXCEPT !.failed = TRUE]
  /\ rpTold' = errorTold(rpClient, rpTold)
  /\ UNCHANGED <<rpServer, rpNet>>

ClientReadFails ==
  /\ rpNet.broken /\ rpClient.reading /\ rpNet.down = <<>>
  /\ Quiet /\ (RpQuietLoss => ~rpClient.writing \/ rpClient.failed)
  /\ rpClient' = [clError(rpClient) EXCEPT !.reading = FALSE]
  /\ rpTold' = errorTold(rpClient, rpTold)
  /\ UNCHANGED <<rpServer, rpNet>>

\* _onread: a response is handled here, a channel's message on its own thread.
ClientReads ==
  /\ rpClient.reading /\ rpNet.down # <<>>
  /\ LET msg == rpNet.down[1]
     IN IF msg.kind \in {"val", "close"}
        THEN rpClient' = [rpClient EXCEPT !.jobs = Append(@, msg)] /\ UNCHANGED rpTold
        ELSE /\ rpClient' = clResponse(rpClient, msg)
             /\ rpTold' = responseTold(rpClient, msg, rpTold)
  /\ rpNet' = [rpNet EXCEPT !.down = Tail(@)]
  /\ UNCHANGED rpServer

\* The channel thread takes the callback out, calls it without the mutex, and
\* puts it back if the channel is still there.
ChannelTakes ==
  /\ rpClient.busy = <<>> /\ rpClient.jobs # <<>>
  /\ LET job == rpClient.jobs[1]
     IN rpClient' = IF job.id \in DOMAIN rpClient.chans
                    THEN [rpClient EXCEPT !.jobs = Tail(@), !.chans[job.id].here = FALSE,
                            !.busy = <<[job EXCEPT !.value = <<@, rpClient.chans[job.id].call>>]>>]
                    ELSE [rpClient EXCEPT !.jobs = Tail(@)]
  /\ UNCHANGED <<rpServer, rpNet, rpTold>>

ChannelDelivers ==
  /\ rpClient.busy # <<>>
  /\ LET job == rpClient.busy[1]
         c == [rpClient EXCEPT !.busy = <<>>]
     IN /\ rpClient' = CASE job.kind = "close" -> [c EXCEPT !.chans = Without(@, job.id)]
                         [] job.kind # "close" /\ job.id \in DOMAIN c.chans ->
                              [c EXCEPT !.chans[job.id].here = TRUE]
                         [] OTHER -> c
        /\ rpTold' = Tell(rpTold, job.value[2],
                          IF job.kind = "close" THEN Ended ELSE job.value[1])
  /\ UNCHANGED <<rpServer, rpNet>>

-----------------------------------------------------------------------------
(* Steps of the server. *)

ServerReads ==
  /\ rpNet.up # <<>> /\ ~rpNet.broken
  /\ rpServer' \in handleJSONRpcRequest(rpServer, rpNet.up[1])
  /\ rpNet' = [rpNet EXCEPT !.up = Tail(@)]
  /\ UNCHANGED <<rpClient, rpTold>>

ServerPost ==
  /\ rpServer.posts # <<>>
  /\ rpServer' = svFlush([rpServer EXCEPT !.posts = Tail(@),
                                          !.pending = Append(@, rpServer.posts[1])])
  /\ UNCHANGED <<rpClient, rpNet, rpTold>>

ServerWrites ==
  /\ rpServer.writing
  /\ rpServer' = svWritten(rpServer, ~rpNet.broken)
  /\ rpNet' = IF rpNet.broken THEN rpNet
              ELSE [rpNet EXCEPT !.down = Append(@, rpServer.pending[1].msg)]
  /\ UNCHANGED <<rpClient, rpTold>>

ServerTimer ==
  /\ rpServer.timer # <<>>
  /\ rpServer' = svWrite([rpServer EXCEPT !.timer = <<>>], rpServer.timer[1], NoCb)
  /\ UNCHANGED <<rpClient, rpNet, rpTold>>

\* The API writes to a channel of the session, or ends it.
ApiWrites(id) ==
  /\ rpServer.wrote < RpMaxValues /\ channelCanWrite(rpServer.chans[id])
  /\ LET w == channelWrite(rpServer.chans[id], 2 + rpServer.wrote)
     IN rpServer' = onChannel([rpServer EXCEPT !.chans[id] = w.ch, !.wrote = @ + 1], id, w.given)
  /\ UNCHANGED <<rpClient, rpNet, rpTold>>

ApiEnds(id) ==
  /\ channelCanWrite(rpServer.chans[id])
  /\ LET w == channelCloseWrite(rpServer.chans[id])
     IN rpServer' = onChannel([rpServer EXCEPT !.chans[id] = w.ch], id, w.given)
  /\ UNCHANGED <<rpClient, rpNet, rpTold>>

Break ==
  /\ ~rpNet.broken
  /\ RpQuietLoss => rpClient.next = RpMaxCalls
  /\ rpNet' = [rpNet EXCEPT !.broken = TRUE, !.up = <<>>]
  /\ UNCHANGED <<rpClient, rpServer, rpTold>>

-----------------------------------------------------------------------------
RpInit ==
  /\ \E request \in [header : {"Bearer", "empty", "other", "none"},
                      token : DOMAIN RpTokens \union {""}] :
       /\ onUpgrade(request) # {}
       /\ rpServer = [ perms |-> onUpgrade(request), posts |-> <<>>, pending |-> <<>>,
                       writing |-> FALSE, timer |-> <<>>, nextChan |-> 0,
                       chans |-> Empty, wrote |-> 0 ]
  /\ rpClient = [ writing |-> FALSE, queue |-> <<>>, results |-> {}, chans |-> Empty,
                  next |-> 0, jobs |-> <<>>, busy |-> <<>>, reading |-> TRUE,
                  failed |-> FALSE ]
  /\ rpNet = [up |-> <<>>, down |-> <<>>, broken |-> FALSE]
  /\ rpTold = Empty

RpNext ==
  \/ \E m \in DOMAIN RpMethods : RpCall(m)
  \/ ClientWrites \/ ClientWriteFails \/ ClientReadFails \/ ClientReads
  \/ ChannelTakes \/ ChannelDelivers
  \/ ServerReads \/ ServerPost \/ ServerWrites \/ ServerTimer
  \/ \E id \in DOMAIN rpServer.chans : ApiWrites(id) \/ ApiEnds(id)
  \/ Break

RpSpec == RpInit /\ [][RpNext]_rpVars

-----------------------------------------------------------------------------
RpTypeOK ==
  /\ rpClient.results \subseteq 0 .. RpMaxCalls /\ rpClient.writing \in BOOLEAN
  /\ DOMAIN rpTold \subseteq 0 .. RpMaxCalls
  /\ \A id \in DOMAIN rpServer.chans : rpServer.chans[id].at \in {"handler", "closed"}

\* Nothing that could still tell a caller anything.
RpAtRest ==
  /\ ~rpClient.writing \/ (rpNet.broken /\ rpClient.failed)
  /\ rpNet.down = <<>> /\ rpNet.up = <<>> /\ ~(rpNet.broken /\ rpClient.reading)
  /\ rpClient.jobs = <<>> /\ rpClient.busy = <<>>
  /\ rpServer.posts = <<>> /\ ~rpServer.writing /\ rpServer.timer = <<>>

\* A caller is told one result, or the values of its channel in the order in
\* which they were written and then, at most once, that it is closed; and when
\* nothing moves any more, every caller has its answer, and the reader of every
\* channel that the server ended or the connection took with it was told so.
CallersAreAnswered ==
  /\ \A call \in DOMAIN rpTold :
       LET told == rpTold[call] IN
       \A i \in DOMAIN told :
         /\ told[i] \in {Result, Error, Ended} => i = Len(told)
         /\ i > 1 /\ told[i] # Ended => told[i - 1] < told[i]
  /\ RpAtRest =>
       /\ rpClient.results = {}
       /\ \A id \in DOMAIN rpClient.chans : rpServer.chans[id].at = "handler"
       /\ rpNet.broken => \A call \in 0 .. (rpClient.next - 1) :
            call \in DOMAIN rpTold /\ Last(rpTold[call]) \in {Result, Error, Ended}
=============================================================================
