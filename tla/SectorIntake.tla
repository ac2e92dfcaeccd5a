---------------------------- MODULE SectorIntake ----------------------------
(***************************************************************************)
(* Two helpers of the sealing machine: the batcher of precommit messages   *)
(* and the packing of deal pieces into sectors.                            *)
(***************************************************************************)
EXTENDS Integers, FiniteSets, Sequences, SequencesExt, FiniteSetsExt

(***************************************************************************)
(* PreCommitBatcherImpl (core/miner/storage_fsm/impl) gathers precommits   *)
(* of sectors and sends them in one message when its timer fires or a      *)
(* cutoff is reached.  Everything runs under mutex_, so each entry point   *)
(* is one step.  Time is counted in epochs; the timer is an absolute time. *)
(*                                                                         *)
(* A sector that was told an error may be added again (the sealing machine *)
(* retries).  attempt counts the additions of a sector, and an entry of    *)
(* the batch carries the attempt it belongs to.                            *)
(***************************************************************************)

CONSTANTS
  BatchSectors,
  MaxDelay,     \* max_delay_
  MaxNow,       \* bound: the last epoch
  MaxAttempts   \* bound: additions of one sector

ASSUME BatcherAssumption ==
  /\ IsFiniteSet(BatchSectors)
  /\ MaxDelay \in Nat \ {0} /\ MaxNow \in Nat /\ MaxAttempts \in Nat

VARIABLES
  now,
  batch_storage,   \* set of [sector, attempt]
  callbacks,       \* the sectors with an entry in callbacks_
  timer,           \* when handle_ fires
  closest_cutoff,
  cutoff_start,
  attempt,         \* sector -> number of additions
  cutoff,          \* sector -> the cutoff epoch of its last addition
  told,            \* set of [sector, attempt, sent]: the calls of callbacks
  sent,            \* set of [sector, attempt]: contents of the pushed messages
  toldOnce         \* history: no callback was called twice for one attempt

batcherVars == <<now, batch_storage, callbacks, timer, closest_cutoff, cutoff_start,
                 attempt, cutoff, told, sent, toldOnce>>

BatcherInit ==
  /\ now = 0
  /\ batch_storage = {} /\ callbacks = {}
  /\ timer = MaxDelay /\ closest_cutoff = MaxDelay /\ cutoff_start = 0
  /\ attempt = [s \in BatchSectors |-> 0]
  /\ cutoff = [s \in BatchSectors |-> 0]
  /\ told = {} /\ sent = {} /\ toldOnce = TRUE

\* Mutant: callbacks are kept after they were called.
forceSendKeepingCallbacks(B, C, ok) ==
  LET works == ok /\ B # {}
      calls == {[sector |-> s, attempt |-> attempt'[s], sent |-> works] : s \in C} IN
  /\ told' = told \cup calls
  /\ toldOnce' = (toldOnce /\ \A c \in calls, t \in told :
                                c.sector = t.sector => c.attempt # t.attempt)
  /\ sent' = IF works THEN sent \cup B ELSE sent
  /\ batch_storage' = IF works THEN {} ELSE B
  /\ callbacks' = C
  /\ cutoff_start' = now /\ closest_cutoff' = MaxDelay /\ timer' = now + MaxDelay

(***************************************************************************)
(* sendBatch(), the calls of the callbacks and the new timer, for the      *)
(* entries B and the callbacks C.  ok says whether the calls to the node   *)
(* succeed; a batch that could not be sent stays in batch_storage_.        *)
(***************************************************************************)
forceSendWithoutLock(B, C, ok) ==
  LET works == ok /\ B # {}
      calls == {[sector |-> s, attempt |-> attempt'[s], sent |-> works] : s \in C} IN
  /\ told' = told \cup calls
  /\ toldOnce' = (toldOnce /\ \A c \in calls, t \in told :
                                c.sector = t.sector => c.attempt # t.attempt)
  /\ sent' = IF works THEN sent \cup B ELSE sent
  /\ batch_storage' = IF works THEN {} ELSE B
  /\ callbacks' = {}
  /\ cutoff_start' = now /\ closest_cutoff' = MaxDelay /\ timer' = now + MaxDelay

forceSend(ok) ==
  /\ UNCHANGED <<now, attempt, cutoff>>
  /\ forceSendWithoutLock(batch_storage, callbacks, ok)

\* The handler of the timer, which re-arms it.
BatchTimer(ok) == timer = now /\ forceSend(ok)

\* Mutant: a later cutoff replaces an earlier one.
setPreCommitCutoffLater(B, C, c, ok) ==
  IF c <= now
  THEN forceSendWithoutLock(B, C, ok)
  ELSE /\ batch_storage' = B /\ callbacks' = C
       /\ timer' = c /\ cutoff_start' = now /\ closest_cutoff' = c - now
       /\ UNCHANGED <<told, sent, toldOnce>>

\* setPreCommitCutoff for cutoff epoch c: send now, or bring the timer forward.
setPreCommitCutoff(B, C, c, ok) ==
  IF c <= now
  THEN forceSendWithoutLock(B, C, ok)
  ELSE /\ batch_storage' = B /\ callbacks' = C
       /\ IF closest_cutoff - (now - cutoff_start) > c - now
          THEN timer' = c /\ cutoff_start' = now /\ closest_cutoff' = c - now
          ELSE UNCHANGED <<timer, cutoff_start, closest_cutoff>>
       /\ UNCHANGED <<told, sent, toldOnce>>

(***************************************************************************)
(* addPreCommit for a sector whose ticket and deals give cutoff epoch c.   *)
(* The sealing machine adds a sector only when no callback of it is        *)
(* outstanding.                                                            *)
(***************************************************************************)
addPreCommit(s, c, ok) ==
  /\ s \notin callbacks /\ attempt[s] < MaxAttempts
  /\ attempt' = [attempt EXCEPT ![s] = @ + 1]
  /\ cutoff' = [cutoff EXCEPT ![s] = c]
  /\ setPreCommitCutoff({e \in batch_storage : e.sector # s}
                          \cup {[sector |-> s, attempt |-> attempt[s] + 1]},
                        callbacks \cup {s}, c, ok)
  /\ UNCHANGED now

\* Time passes, but never past a timer that is due.
BatchTimePasses ==
  /\ now < MaxNow /\ timer > now
  /\ now' = now + 1
  /\ UNCHANGED <<batch_storage, callbacks, timer, closest_cutoff, cutoff_start,
                 attempt, cutoff, told, sent, toldOnce>>

BatcherNext ==
  \/ \E ok \in BOOLEAN : forceSend(ok)
  \/ \E ok \in BOOLEAN : BatchTimer(ok)
  \/ \E s \in BatchSectors, c \in 0..MaxNow + 1, ok \in BOOLEAN : addPreCommit(s, c, ok)
  \/ BatchTimePasses

BatcherSpec == BatcherInit /\ [][BatcherNext]_batcherVars

-----------------------------------------------------------------------------

BatcherTypeOK ==
  /\ now \in 0..MaxNow
  /\ batch_storage \subseteq [sector : BatchSectors, attempt : 1..MaxAttempts]
  /\ callbacks \subseteq BatchSectors
  /\ timer \in Nat /\ closest_cutoff \in Nat /\ cutoff_start \in 0..now

(***************************************************************************)
(* A callback is called once for each addition; one called with a cid      *)
(* belongs to a sector that is in that message; a waiting sector is in the *)
(* batch; and what was sent or still waits has its callback waiting or     *)
(* called (sendBatch, addPreCommit).  It may have been called with an      *)
(* error: a batch that could not be sent stays in batch_storage_ and goes  *)
(* out later, although the sealing machines were told that it failed.      *)
(***************************************************************************)
BatchAnswersTrue ==
  /\ toldOnce
  /\ \A t \in told : t.sent => [sector |-> t.sector, attempt |-> t.attempt] \in sent
  /\ \A s \in callbacks : [sector |-> s, attempt |-> attempt[s]] \in batch_storage
  /\ \A e \in batch_storage \cup sent :
       \/ e.sector \in callbacks /\ e.attempt = attempt[e.sector]
       \/ \E t \in told : t.sector = e.sector /\ t.attempt = e.attempt

(***************************************************************************)
(* The batch of a waiting sector is sent, or tried, no later than the      *)
(* sector's cutoff (setPreCommitCutoff moves the timer to the nearest      *)
(* one).                                                                   *)
(***************************************************************************)
SentByCutoff == \A s \in callbacks : timer <= cutoff[s]

(***************************************************************************)
(* Both: every addition to the batch is answered once and truly, and in    *)
(* time for its sector (PreCommitBatcherImpl).                             *)
(***************************************************************************)
BatchIsSound == BatchAnswersTrue /\ SentByCutoff

-----------------------------------------------------------------------------
(***************************************************************************)
(* How SealingImpl (core/miner/storage_fsm/impl/sealing_impl.cpp) puts the *)
(* pieces of deals into sectors that wait for them.  addPieceToAnySector   *)
(* runs in the caller's thread and holds unsealed_mutex_ while the piece   *)
(* is written; startPacking, called by it or by a timer, sends its event   *)
(* to the sector's machine before it takes the mutex.  The machine is      *)
(* reduced to the states that matter here, with its events in order.       *)
(* Sizes are padded sizes, in units of the smallest piece.                 *)
(***************************************************************************)

CONSTANTS
  Adders,            \* calls of addPieceToAnySector
  PieceSize,         \* a power of two for each of them
  PackSectorSize,
  DealLimit,         \* getDealPerSectorLimit
  MaxWaitDeals,      \* config_.max_wait_deals_sectors
  MaxSealingDeals,   \* config_.max_sealing_sectors_for_deals
  OldSector          \* a proven sector that may be marked for an upgrade

ASSUME PackingAssumption ==
  \A a \in Adders : PieceSize[a] \in {1, 2, 4, 8} /\ PieceSize[a] <= PackSectorSize

VARIABLES
  unsealed,      \* unsealed_sectors_: sector -> [deals, stored]
  holder,        \* who holds unsealed_mutex_
  adder,         \* what each call of addPieceToAnySector is doing
  sectorState, pieces, fsmQueue,   \* each sector's machine
  packTimer,     \* sector -> what its wait_deals_delay timer is doing
  marking        \* what markForSnapUpgrade is doing

packVars == <<unsealed, holder, adder, sectorState, pieces, fsmQueue, packTimer, marking>>

PackSectors == OldSector .. OldSector + Cardinality(Adders)
NobodyHolds == "nobody"

PackInit ==
  /\ unsealed = [s \in {} |-> 0]
  /\ holder = NobodyHolds
  /\ adder = [a \in Adders |-> [pc |-> "new"]]
  /\ sectorState = [s \in PackSectors |-> IF s = OldSector THEN "Proving" ELSE "none"]
  /\ pieces = [s \in PackSectors |-> <<>>]
  /\ fsmQueue = [s \in PackSectors |-> <<>>]
  /\ packTimer = [s \in PackSectors |-> "none"]
  /\ marking = "new"

Send(s, e) == fsmQueue' = [fsmQueue EXCEPT ![s] = Append(@, e)]
PackWithout(f, s) == [x \in DOMAIN f \ {s} |-> f[x]]
Say(kind) == [kind |-> kind]

\* getRequiredPadding: the zeroes that bring stored to a multiple of size.
getRequiredPadding(stored, size) == (-stored) % size

PackFits(s, size) ==
  unsealed[s].stored + size + getRequiredPadding(unsealed[s].stored, size) <= PackSectorSize

\* SectorStat::currentSealing
currentSealing == Cardinality({s \in PackSectors : sectorState[s] \notin {"none", "new", "Proving"}})

-----------------------------------------------------------------------------
\* addPieceToAnySector takes the mutex; getSectorAndPadding finds a sector.
addToWaiting(a, s) ==
  /\ adder[a].pc = "new" /\ holder = NobodyHolds
  /\ s \in DOMAIN unsealed /\ PackFits(s, PieceSize[a])
  /\ holder' = a
  /\ adder' = [adder EXCEPT ![a] =
       [pc |-> "padding", sector |-> s,
        pad |-> getRequiredPadding(unsealed[s].stored, PieceSize[a])]]
  /\ UNCHANGED <<unsealed, sectorState, pieces, fsmQueue, packTimer, marking>>

(***************************************************************************)
(* No sector fits: newDealSector.  Above max_wait_deals_sectors it locks   *)
(* unsealed_mutex_, which its caller holds, and goes no further.           *)
(***************************************************************************)
newDealSector(a) ==
  /\ adder[a].pc = "new" /\ holder = NobodyHolds
  /\ \A s \in DOMAIN unsealed : ~PackFits(s, PieceSize[a])
  /\ IF MaxSealingDeals > 0 /\ currentSealing > MaxSealingDeals
     THEN /\ adder' = [adder EXCEPT ![a] = [pc |-> "failed"]]
          /\ UNCHANGED <<unsealed, holder, sectorState, fsmQueue, packTimer>>
     ELSE IF MaxWaitDeals > 0 /\ Cardinality(DOMAIN unsealed) >= MaxWaitDeals
     THEN /\ holder' = a
          /\ adder' = [adder EXCEPT ![a] = [pc |-> "stuck"]]
          /\ UNCHANGED <<unsealed, sectorState, fsmQueue, packTimer>>
     ELSE LET s == Min({x \in PackSectors : sectorState[x] = "none"}) IN
          /\ holder' = a
          /\ sectorState' = [sectorState EXCEPT ![s] = "new"]
          /\ Send(s, Say("Start"))
          /\ packTimer' = [packTimer EXCEPT ![s] = "armed"]
          /\ unsealed' = [x \in DOMAIN unsealed \cup {s} |->
               IF x = s THEN [deals |-> 0, stored |-> 0] ELSE unsealed[x]]
          /\ adder' = [adder EXCEPT ![a] = [pc |-> "padding", sector |-> s, pad |-> 0]]
  /\ UNCHANGED <<pieces, marking>>

\* The zeroes are written first; writing them or the piece may fail.
addPadding(a, ok) ==
  /\ adder[a].pc = "padding"
  /\ ok \/ adder[a].pad > 0
  /\ IF ok
     THEN /\ adder' = [adder EXCEPT ![a].pc = "writing"]
          /\ unsealed' = [unsealed EXCEPT ![adder[a].sector].stored = @ + adder[a].pad]
          /\ UNCHANGED holder
     ELSE adder' = [adder EXCEPT ![a] = [pc |-> "failed"]] /\ holder' = NobodyHolds /\ UNCHANGED unsealed
  /\ UNCHANGED <<sectorState, pieces, fsmQueue, packTimer, marking>>

addPieceFails(a) ==
  /\ adder[a].pc = "writing"
  /\ adder' = [adder EXCEPT ![a] = [pc |-> "failed", sector |-> adder[a].sector, pad |-> adder[a].pad]]
  /\ holder' = NobodyHolds
  /\ UNCHANGED <<unsealed, sectorState, pieces, fsmQueue, packTimer, marking>>

\* Mutant: the offset is that before the padding.
addPieceBeforePadding(a) ==
  /\ adder[a].pc = "writing"
  /\ LET s == adder[a].sector
         u == unsealed[s]
         full == u.deals + 1 >= DealLimit \/ u.stored + PieceSize[a] = PackSectorSize
         ready == sectorState[s] # "Proving" /\ packTimer[s] # "erasing" IN
     /\ unsealed' = [unsealed EXCEPT ![s] = [deals |-> u.deals + 1, stored |-> u.stored + PieceSize[a]]]
     /\ Send(s, [kind |-> "AddPieces", pad |-> adder[a].pad, adder |-> a])
     /\ adder' = [adder EXCEPT ![a] = [pc |-> IF full THEN "pack" ELSE "done", sector |-> s,
                                       offset |-> u.stored - adder[a].pad, ready |-> ready]]
  /\ holder' = NobodyHolds
  /\ UNCHANGED <<sectorState, pieces, packTimer, marking>>

(***************************************************************************)
(* The piece is written and kSectorAddPieces sent; the mutex is released.  *)
(* ready is a history: the machine would still take the event now, that is *)
(* its kSectorStart or kSectorStartCCUpdate has been sent and no           *)
(* kSectorStartPacking.                                                    *)
(***************************************************************************)
addPiece(a) ==
  /\ adder[a].pc = "writing"
  /\ LET s == adder[a].sector
         u == unsealed[s]
         full == u.deals + 1 >= DealLimit \/ u.stored + PieceSize[a] = PackSectorSize
         sentTo == {fsmQueue[s][i].kind : i \in DOMAIN fsmQueue[s]}
         ready == /\ sectorState[s] \in {"new", "WaitDeals"} \/ "StartCCUpdate" \in sentTo
                  /\ "StartPacking" \notin sentTo IN
     /\ unsealed' = [unsealed EXCEPT ![s] = [deals |-> u.deals + 1, stored |-> u.stored + PieceSize[a]]]
     /\ Send(s, [kind |-> "AddPieces", pad |-> adder[a].pad, adder |-> a])
     /\ adder' = [adder EXCEPT ![a] = [pc |-> IF full THEN "pack" ELSE "done", sector |-> s,
                                       offset |-> u.stored, ready |-> ready]]
  /\ holder' = NobodyHolds
  /\ UNCHANGED <<sectorState, pieces, packTimer, marking>>

\* Mutant: the adder takes the mutex and keeps it.
adderErasesKeeping(a) ==
  /\ adder[a].pc = "erase" /\ holder = NobodyHolds
  /\ holder' = a
  /\ unsealed' = PackWithout(unsealed, adder[a].sector)
  /\ adder' = [adder EXCEPT ![a].pc = "done"]
  /\ UNCHANGED <<sectorState, pieces, fsmQueue, packTimer, marking>>

\* startPacking of the adder and of the timer: the event, then the entry.
adderStartsPacking(a) ==
  /\ adder[a].pc = "pack"
  /\ Send(adder[a].sector, Say("StartPacking"))
  /\ adder' = [adder EXCEPT ![a].pc = "erase"]
  /\ UNCHANGED <<unsealed, holder, sectorState, pieces, packTimer, marking>>

adderErases(a) ==
  /\ adder[a].pc = "erase" /\ holder = NobodyHolds
  /\ unsealed' = PackWithout(unsealed, adder[a].sector)
  /\ adder' = [adder EXCEPT ![a].pc = "done"]
  /\ UNCHANGED <<holder, sectorState, pieces, fsmQueue, packTimer, marking>>

timerStartsPacking(s) ==
  /\ packTimer[s] = "armed"
  /\ Send(s, Say("StartPacking"))
  /\ packTimer' = [packTimer EXCEPT ![s] = "erasing"]
  /\ UNCHANGED <<unsealed, holder, adder, sectorState, pieces, marking>>

timerErases(s) ==
  /\ packTimer[s] = "erasing" /\ holder = NobodyHolds
  /\ unsealed' = PackWithout(unsealed, s)
  /\ packTimer' = [packTimer EXCEPT ![s] = "done"]
  /\ UNCHANGED <<holder, adder, sectorState, pieces, fsmQueue, marking>>

\* markForSnapUpgrade: the entry is made before the event is sent.
markForSnapUpgrade ==
  /\ marking = "new" /\ holder = NobodyHolds
  /\ unsealed' = [x \in DOMAIN unsealed \cup {OldSector} |->
       IF x = OldSector THEN [deals |-> 0, stored |-> 0] ELSE unsealed[x]]
  /\ marking' = "inserted"
  /\ UNCHANGED <<holder, adder, sectorState, pieces, fsmQueue, packTimer>>

markSends ==
  /\ marking = "inserted"
  /\ Send(OldSector, Say("StartCCUpdate"))
  /\ marking' = "done"
  /\ UNCHANGED <<unsealed, holder, adder, sectorState, pieces, packTimer>>

\* The sector's machine takes its next event; what has no rule is dropped.
packTick(s) ==
  /\ fsmQueue[s] # <<>>
  /\ LET e == Head(fsmQueue[s]) IN
     /\ sectorState' = [sectorState EXCEPT ![s] =
          CASE e.kind = "Start" /\ @ = "new" -> "WaitDeals"
            [] e.kind = "StartCCUpdate" /\ @ = "Proving" -> "WaitDeals"
            [] e.kind = "StartPacking" /\ @ = "WaitDeals" -> "Packing"
            [] OTHER -> @]
     /\ pieces' = [pieces EXCEPT ![s] =
          IF e.kind = "AddPieces" /\ sectorState[s] = "WaitDeals"
          THEN Append(@, [adder |-> e.adder, pad |-> e.pad]) ELSE @]
  /\ fsmQueue' = [fsmQueue EXCEPT ![s] = Tail(@)]
  /\ UNCHANGED <<unsealed, holder, adder, packTimer, marking>>

PackNext ==
  \/ \E a \in Adders, s \in PackSectors : addToWaiting(a, s)
  \/ \E a \in Adders : newDealSector(a)
  \/ \E a \in Adders, ok \in BOOLEAN : addPadding(a, ok)
  \/ \E a \in Adders : addPiece(a)
  \/ \E a \in Adders : addPieceFails(a)
  \/ \E a \in Adders : adderStartsPacking(a)
  \/ \E a \in Adders : adderErases(a)
  \/ \E s \in PackSectors : timerStartsPacking(s)
  \/ \E s \in PackSectors : timerErases(s)
  \/ \E s \in PackSectors : packTick(s)
  \/ markForSnapUpgrade
  \/ markSends

PackSpec == PackInit /\ [][PackNext]_packVars

-----------------------------------------------------------------------------

PackTypeOK ==
  /\ DOMAIN unsealed \subseteq PackSectors
  /\ \A s \in DOMAIN unsealed : unsealed[s].stored \in 0..PackSectorSize
  /\ holder \in Adders \cup {NobodyHolds}
  /\ \A s \in PackSectors : sectorState[s] \in {"none", "new", "Proving", "WaitDeals", "Packing"}

Told(a) == adder[a].pc \in {"pack", "erase", "done"}
Padded(p) == p.pad + PieceSize[p.adder]
StoredBefore(s, i) == MapThenSumSet(LAMBDA k : Padded(pieces[s][k]), 1..i - 1)

\* A piece could not be written after its padding had been.
Torn(s) == \E a \in Adders : adder[a].pc = "failed" /\ "pad" \in DOMAIN adder[a]
                              /\ adder[a].sector = s /\ adder[a].pad > 0

(***************************************************************************)
(* A caller of addPieceToAnySector that is told a sector and an offset     *)
(* finds its piece there: the piece is in the sector, or the event with it *)
(* is waiting, and what precedes it adds up to the offset.  Excepted are   *)
(* pieces added when the sector had been told to start packing and its     *)
(* entry was not erased yet, or when an upgrade's entry was made and its   *)
(* event not sent: the machine drops kSectorAddPieces.  Offsets are off in *)
(* a sector where a piece failed after its padding was counted.            *)
(***************************************************************************)
PieceIsWhereTold ==
  \A a \in Adders : Told(a) /\ adder[a].ready =>
    LET s == adder[a].sector IN
    \/ \E i \in DOMAIN fsmQueue[s] : fsmQueue[s][i].kind = "AddPieces" /\ fsmQueue[s][i].adder = a
    \/ \E i \in DOMAIN pieces[s] :
         /\ pieces[s][i].adder = a
         /\ adder[a].offset = StoredBefore(s, i) + pieces[s][i].pad
            \/ Torn(s) \/ \E b \in Adders : Told(b) /\ ~adder[b].ready /\ adder[b].sector = s

\* No thread, timer or machine can take a step, whatever new calls may come.
PackingRests ==
  /\ \A a \in Adders : adder[a].pc \notin {"padding", "writing", "pack"}
                       /\ (adder[a].pc = "erase" => holder # NobodyHolds)
  /\ \A s \in PackSectors : packTimer[s] # "armed" /\ fsmQueue[s] = <<>>

(***************************************************************************)
(* When nothing moves any more, every call of addPieceToAnySector that had *)
(* the mutex has returned and every new sector is packing, also those that *)
(* never got another piece (startPacking, newDealSector).  The one case of *)
(* a call that hangs with the mutex: no waiting sector fits and there are  *)
(* max_wait_deals_sectors of them, where newDealSector locks the mutex its *)
(* caller holds.                                                           *)
(***************************************************************************)
NobodyHangs ==
  PackingRests =>
    /\ holder # NobodyHolds => adder[holder].pc = "stuck" /\ MaxWaitDeals > 0
    /\ \A a \in Adders : adder[a].pc = "erase" => holder # NobodyHolds
    /\ \A s \in PackSectors : sectorState[s] # "new"
    /\ \A s \in PackSectors \ {OldSector} : sectorState[s] # "WaitDeals"
=============================================================================
