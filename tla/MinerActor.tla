----------------------------- MODULE MinerActor -----------------------------
(***************************************************************************)
(* The miner actor: its deadlines, with the partitions and their           *)
(* expiration queues, and its own account.                                 *)
(***************************************************************************)
EXTENDS ActorBase

(***************************************************************************)
(* The expiration queue of a partition                                     *)
(* (core/vm/actor/builtin/types/miner/expiration.cpp, v0 and v2): a        *)
(* function from epochs to expiration sets.  A power pair is one number:   *)
(* raw and quality adjusted power go through the same steps.               *)
(***************************************************************************)

CONSTANTS
  DlSectors,       \* sector numbers
  SectorPower,     \* [DlSectors -> Nat]: qaPowerForSector
  SectorPledge,    \* [DlSectors -> Nat]: init_pledge
  SectorExpiration \* [DlSectors -> Nat]: expiration

VARIABLE
  dlVersion        \* version of the actor

power(S) == Total(S, LAMBDA s : SectorPower[s])
pledge(S) == Total(S, LAMBDA s : SectorPledge[s])

-----------------------------------------------------------------------------
\* ExpirationSet
EsOf(on, early, pl, active, faulty) ==
  [on |-> on, early |-> early, pledge |-> pl, active |-> active, faulty |-> faulty]
NoEs == EsOf({}, {}, 0, 0, 0)
Plus(es, other) ==
  EsOf(es.on \union other.on, es.early \union other.early, es.pledge + other.pledge,
       es.active + other.active, es.faulty + other.faulty)
Minus(es, other) ==
  EsOf(es.on \ other.on, es.early \ other.early, es.pledge - other.pledge,
       es.active - other.active, es.faulty - other.faulty)
isEmpty(es) == es.on = {} /\ es.early = {}
validEs(es) == es.pledge >= 0 /\ es.active >= 0 /\ es.faulty >= 0
NonEmpty(queue) == Restrict(queue, {e \in DOMAIN queue : ~isEmpty(queue[e])})

\* ExpirationQueue::add and remove
addEs(queue, quant, epoch, es) ==
  LET e == quantizeUp(quant, epoch)
      sum == Plus(GetOr(queue, e, NoEs), es)
  IN IF validEs(sum) THEN {With(queue, e, sum)} ELSE Aborted

removeEs(queue, epoch, es) ==
  IF epoch \notin DOMAIN queue THEN Aborted
  ELSE LET old == queue[epoch]
           rest == Minus(old, es)
       IN IF es.on \subseteq old.on /\ es.early \subseteq old.early /\ validEs(rest)
          THEN {IF isEmpty(rest) THEN Without(queue, epoch) ELSE With(queue, epoch, rest)}
          ELSE Aborted

\* groupNewSectorsByDeclaredExpiration
declaredGroups(quant, S) ==
  [e \in {quantizeUp(quant, SectorExpiration[s]) : s \in S} |-> {s \in S : quantizeUp(quant, SectorExpiration[s]) = e}]

\* findSectorsByExpiration: where the sectors are on time.  All the epochs
\* declared must be in the queue, and every sector must be found.
findSectorsByExpiration(queue, quant, S) ==
  IF DOMAIN declaredGroups(quant, S) \subseteq DOMAIN queue
     /\ S \subseteq UNION {queue[e].on : e \in DOMAIN queue}
  THEN {[e \in {x \in DOMAIN queue : queue[x].on \intersect S # {}} |-> queue[e].on \intersect S]}
  ELSE Aborted

ActiveEs(S) == EsOf(S, {}, pledge(S), power(S), 0)

addActiveSectors(queue, quant, S) ==
  LET groups == declaredGroups(quant, S)
      one(q, e) == addEs(q, quant, e, ActiveEs(groups[e]))
  IN ForEach(one, {queue}, Ascending(DOMAIN groups))

\* Version 0 trusts the declared epochs, later versions look the sectors up.
removeGroups(queue, groups) ==
  LET one(q, e) == removeEs(q, e, ActiveEs(groups[e]))
  IN ForEach(one, {queue}, Ascending(DOMAIN groups))
removeActiveSectorsV0(queue, quant, S) == removeGroups(queue, declaredGroups(quant, S))
removeActiveSectorsV2(queue, quant, S) ==
  UNION {removeGroups(queue, groups) : groups \in findSectorsByExpiration(queue, quant, S)}
removeActiveSectors(queue, quant, S) ==
  IF dlVersion = 0 THEN removeActiveSectorsV0(queue, quant, S)
  ELSE removeActiveSectorsV2(queue, quant, S)

rescheduleExpirations(queue, quant, epoch, S) ==
  IF S = {} THEN {queue}
  ELSE UNION {addEs(q, quant, epoch, ActiveEs(S)) : q \in removeActiveSectors(queue, quant, S)}

\* Faulty sectors expire early, unless they expire on time before that.
\* The queue with the groups so changed, before the late ones are added.
asFaults(queue, groups, until) ==
  LET expiring(es, T) == [es EXCEPT !.active = @ - power(T), !.faulty = @ + power(T)]
  IN [e \in DOMAIN queue |->
        IF e \notin DOMAIN groups THEN queue[e]
        ELSE IF e <= until THEN expiring(queue[e], groups[e])
        ELSE Minus(queue[e], ActiveEs(groups[e]))]
addLate(queue, quant, epoch, groups) ==
  LET late == UNION {groups[e] : e \in {x \in DOMAIN groups : x > quantizeUp(quant, epoch)}}
  IN IF late = {} THEN {NonEmpty(queue)}
     ELSE addEs(NonEmpty(queue), quant, epoch, EsOf({}, late, 0, 0, power(late)))

rescheduleAsFaultsV0(queue, quant, epoch, S) ==
  LET groups == declaredGroups(quant, S)
  IN IF DOMAIN groups \subseteq DOMAIN queue
     THEN addLate(asFaults(queue, groups, quantizeUp(quant, epoch)), quant, epoch, groups)
     ELSE Aborted
\* Version 2 looks the sectors up and validates every set it changes.
rescheduleAsFaultsV2(queue, quant, epoch, S) ==
  UNION {LET moved == asFaults(queue, groups, quantizeUp(quant, epoch))
         IN IF \A e \in DOMAIN groups : validEs(moved[e])
            THEN addLate(moved, quant, epoch, groups) ELSE Aborted :
           groups \in findSectorsByExpiration(queue, quant, S)}
rescheduleAsFaults(queue, quant, epoch, S) ==
  IF dlVersion = 0 THEN rescheduleAsFaultsV0(queue, quant, epoch, S)
  ELSE rescheduleAsFaultsV2(queue, quant, epoch, S)

rescheduleAllAsFaultsV0(queue, quant, epoch) ==
  LET until == quantizeUp(quant, epoch)
      late == {e \in DOMAIN queue : e > until}
      kept == [e \in DOMAIN queue \ late |->
                 [queue[e] EXCEPT !.faulty = @ + queue[e].active, !.active = 0]]
      moved == UNION {queue[e].on \union queue[e].early : e \in late}
      amount == Total(late, LAMBDA e : queue[e].active + queue[e].faulty)
  IN IF late = {} THEN {kept}
     ELSE addEs(kept, quant, epoch, EsOf({}, moved, 0, 0, amount))
\* Version 2 wants no early sectors among those that move.
rescheduleAllAsFaultsV2(queue, quant, epoch) ==
  IF \E e \in DOMAIN queue : e > quantizeUp(quant, epoch) /\ queue[e].early # {} THEN Aborted
  ELSE rescheduleAllAsFaultsV0(queue, quant, epoch)
rescheduleAllAsFaults(queue, quant, epoch) ==
  IF dlVersion = 0 THEN rescheduleAllAsFaultsV0(queue, quant, epoch)
  ELSE rescheduleAllAsFaultsV2(queue, quant, epoch)

Queued(queue) == UNION {queue[e].on \union queue[e].early : e \in DOMAIN queue}

\* A recovered sector that would expire early goes back to its own epoch.
rescheduleRecovered(queue, quant, S) ==
  LET recover(es) == [es EXCEPT !.early = @ \ S,
                                !.faulty = @ - power((es.on \union es.early) \intersect S),
                                !.active = @ + power(es.on \intersect S)]
      moved == [e \in DOMAIN queue |-> recover(queue[e])]
      early == UNION {queue[e].early \intersect S : e \in DOMAIN queue}
  IN IF S \subseteq Queued(queue) /\ \A e \in DOMAIN moved : validEs(moved[e])
     THEN addActiveSectors(NonEmpty(moved), quant, early) ELSE Aborted

\* removeSectors: active sectors as above, faulty ones from wherever they are.
removedFaulty(queue, S) ==
  LET on == UNION {queue[e].on \intersect S : e \in DOMAIN queue}
      early == UNION {queue[e].early \intersect S : e \in DOMAIN queue}
  IN EsOf(on, early, pledge(on), 0, power(on \union early))

removeSectors(queue, quant, S, faults) ==
  LET F == S \intersect faults
      take(q) == [e \in DOMAIN q |->
                    Minus(q[e], EsOf(q[e].on \intersect F, q[e].early \intersect F,
                                     pledge(q[e].on \intersect F), 0,
                                     power((q[e].on \union q[e].early) \intersect F)))]
      removed(q) == Plus(ActiveEs(S \ F), removedFaulty(q, F))
  IN {[queue |-> NonEmpty(take(q)), removed |-> removed(q)] :
        q \in {r \in removeActiveSectors(queue, quant, S \ F) :
                 F \subseteq Queued(r) /\ \A e \in DOMAIN r : validEs(take(r)[e])}}

poppedEs(queue, until) == FoldSet(LAMBDA e, es : Plus(es, queue[e]), NoEs, Until(queue, until))

-----------------------------------------------------------------------------
(***************************************************************************)
(* A partition of sectors (core/vm/actor/builtin/types/miner/partition.cpp *)
(* and its versions 0, 2 and 3).  Versions from 2 on keep sectors unproven *)
(* until their first proof and validate every change.                      *)
(***************************************************************************)

NoPartition ==
  [sectors |-> {}, unproven |-> {}, faults |-> {}, recoveries |-> {}, terminated |-> {},
   queue |-> Empty, early |-> Empty, live |-> 0, unprovenPower |-> 0, faulty |-> 0, recovering |-> 0]

liveSectors(p) == p.sectors \ p.terminated
activeSectors(p) == liveSectors(p) \ (p.faults \union p.unproven)
activePower(p) == p.live - p.faulty - p.unprovenPower

validatePowerState(p) ==
  /\ p.live >= 0 /\ p.unprovenPower \in 0 .. p.live /\ p.faulty \in 0 .. p.live
  /\ p.recovering \in 0 .. Smaller(p.live, p.faulty)
validateBFState(p) ==
  /\ p.terminated \intersect (p.unproven \union p.faults) = {}
  /\ p.unproven \union p.faults \union p.terminated \subseteq p.sectors
  /\ p.recoveries \subseteq p.faults
Valid(p) == IF dlVersion = 0 \/ (validatePowerState(p) /\ validateBFState(p)) THEN {p} ELSE Aborted

\* An outcome with what the method returns besides the partition.
Returning(outcomes, delta, faulty) == {[p |-> p, delta |-> delta, faulty |-> faulty] : p \in outcomes}

added(p, S, q) == [p EXCEPT !.queue = q, !.sectors = @ \union S, !.live = @ + power(S)]
addSectorsV0(p, S, quant) ==
  IF p.sectors \intersect S # {} THEN Aborted
  ELSE Returning({added(p, S, q) : q \in addActiveSectors(p.queue, quant, S)}, power(S), 0)
\* Version 3 returns the power of the sectors whether they are proven or not.
addSectorsV2(p, proven, S, quant) ==
  LET unproved(q) == [added(p, S, q) EXCEPT !.unproven = @ \union S, !.unprovenPower = @ + power(S)]
      result(q) == Valid(IF proven THEN added(p, S, q) ELSE unproved(q))
      returned == IF dlVersion = 2 /\ ~proven THEN 0 ELSE power(S)
  IN IF p.sectors \intersect S # {} THEN Aborted
     ELSE UNION {Returning(result(q), returned, 0) : q \in addActiveSectors(p.queue, quant, S)}
addSectorsToPartition(p, proven, S, quant) ==
  IF dlVersion = 0 THEN addSectorsV0(p, S, quant) ELSE addSectorsV2(p, proven, S, quant)

addFaultsV0(p, S, epoch, quant) ==
  Returning({[p EXCEPT !.queue = q, !.faults = @ \union S, !.faulty = @ + power(S)] :
               q \in rescheduleAsFaults(p.queue, quant, epoch, S)}, 0, power(S))

\* Mutant: the power of sectors that were not proven yet is taken off too.
addFaultsUnproven(p, S, epoch, quant) ==
  LET U == S \intersect p.unproven
      changed(q) == [p EXCEPT !.queue = q, !.faults = @ \union S, !.faulty = @ + power(S),
                              !.unproven = @ \ U, !.unprovenPower = @ - power(U)]
  IN UNION {Returning(Valid(changed(q)), -power(S), power(S)) : q \in rescheduleAsFaults(p.queue, quant, epoch, S)}

\* Sectors that were not proven yet have no power to lose.
addFaultsV2(p, S, epoch, quant) ==
  LET U == S \intersect p.unproven
      changed(q) == [p EXCEPT !.queue = q, !.faults = @ \union S, !.faulty = @ + power(S),
                              !.unproven = @ \ U, !.unprovenPower = @ - power(U)]
  IN UNION {Returning(Valid(changed(q)), power(U) - power(S), power(S)) :
              q \in rescheduleAsFaults(p.queue, quant, epoch, S)}
addFaults(p, S, epoch, quant) ==
  IF dlVersion = 0 THEN addFaultsV0(p, S, epoch, quant) ELSE addFaultsV2(p, S, epoch, quant)

removeRecoveries(p, S) == [p EXCEPT !.recoveries = @ \ S, !.recovering = @ - power(S)]

\* recordFaults and recordSkippedFaults take back the recoveries among the
\* sectors; both leave alone what is faulty or terminated already.
newFaults(p, S) == S \ (p.terminated \union p.faults)

recordFaults(p, S, epoch, quant) ==
  LET retracted == p.recoveries \intersect S
      new == newFaults(p, S \ retracted)
      faulted == IF new = {} THEN Returning({p}, 0, 0) ELSE addFaults(p, new, epoch, quant)
  IN IF ~(S \subseteq p.sectors) THEN Aborted
     ELSE UNION {Returning(Valid(removeRecoveries(r.p, retracted)), r.delta, r.faulty) : r \in faulted}

recordSkippedFaults(p, S, epoch, quant) ==
  IF S = {} THEN Returning({p}, 0, 0)
  ELSE IF ~(S \subseteq p.sectors) THEN Aborted
  ELSE UNION {Returning(Valid(removeRecoveries(r.p, p.recoveries \intersect S)), r.delta, r.faulty) :
                r \in addFaults(p, newFaults(p, S), epoch, quant)}

\* Mutant: the sectors stay faulty.
recoverFaultsStaying(p, quant) ==
  LET R == p.recoveries
      changed(q) == [p EXCEPT !.queue = q, !.recoveries = {},
                              !.faulty = @ - power(R), !.recovering = @ - power(R)]
  IN UNION {Returning(Valid(changed(q)), power(R), 0) : q \in rescheduleRecovered(p.queue, quant, R)}

recoverFaults(p, quant) ==
  LET R == p.recoveries
      changed(q) == [p EXCEPT !.queue = q, !.faults = @ \ R, !.recoveries = {},
                              !.faulty = @ - power(R), !.recovering = @ - power(R)]
  IN UNION {Returning(Valid(changed(q)), power(R), 0) : q \in rescheduleRecovered(p.queue, quant, R)}

activateUnproven(p) == [p EXCEPT !.unproven = {}, !.unprovenPower = 0]

declareFaultsRecoveredIn(p, S) ==
  LET R == (S \intersect p.faults) \ p.recoveries
  IN IF S \subseteq p.sectors
     THEN Valid([p EXCEPT !.recoveries = @ \union R, !.recovering = @ + power(R)]) ELSE Aborted

rescheduleExpirationsV0(p, epoch, S, quant) ==
  LET active == (S \intersect liveSectors(p)) \ p.faults
  IN {[p EXCEPT !.queue = q] : q \in rescheduleExpirations(p.queue, quant, epoch, active)}
rescheduleExpirationsV2(p, epoch, S, quant) ==
  UNION {Valid(moved) : moved \in rescheduleExpirationsV0(p, epoch, S, quant)}
rescheduleExpirationsIn(p, epoch, S, quant) ==
  IF dlVersion = 0 THEN rescheduleExpirationsV0(p, epoch, S, quant)
  ELSE rescheduleExpirationsV2(p, epoch, S, quant)

NoQuantization == [unit |-> 1, offset |-> 0]
recordEarlyTermination(early, epoch, S) == addToQueue(early, NoQuantization, epoch, S)

terminated(p, r, epoch, S) ==
  [p EXCEPT !.queue = r.queue, !.early = recordEarlyTermination(@, epoch, S),
            !.faults = @ \ S, !.recoveries = @ \ S, !.terminated = @ \union S,
            !.live = @ - r.removed.active - r.removed.faulty, !.faulty = @ - r.removed.faulty,
            !.recovering = @ - power(S \intersect p.faults \intersect p.recoveries)]
terminateSectorsV0(p, epoch, S, quant) ==
  IF S \subseteq liveSectors(p)
  THEN {[p |-> terminated(p, r, epoch, S), es |-> r.removed] :
          r \in removeSectors(p.queue, quant, S, p.faults)}
  ELSE Aborted
terminateSectorsV2(p, epoch, S, quant) ==
  LET U == S \intersect p.unproven
      changed(r) == [terminated(p, r, epoch, S) EXCEPT !.unproven = @ \ U,
                                                       !.unprovenPower = @ - power(U)]
      reported(r) == [r.removed EXCEPT !.active = @ - power(U)]
  IN IF S \subseteq liveSectors(p)
     THEN UNION {{[p |-> v, es |-> reported(r)] : v \in Valid(changed(r))} :
                   r \in removeSectors(p.queue, quant, S, p.faults)}
     ELSE Aborted
terminateSectorsIn(p, epoch, S, quant) ==
  IF dlVersion = 0 THEN terminateSectorsV0(p, epoch, S, quant)
  ELSE terminateSectorsV2(p, epoch, S, quant)

popExpiredSectorsV0(p, until) ==
  LET es == poppedEs(p.queue, until)
      gone == es.on \union es.early
      changed == [p EXCEPT !.queue = remainingAfter(@, until), !.terminated = @ \union gone,
                           !.faults = @ \ gone, !.live = @ - es.active - es.faulty,
                           !.faulty = @ - es.faulty, !.early = recordEarlyTermination(@, until, es.early)]
  IN IF p.recoveries = {} /\ p.recovering = 0 /\ p.terminated \intersect gone = {}
     THEN {[p |-> changed, es |-> es]} ELSE Aborted
\* Version 2 wants every sector proven before any of them expires.
popExpiredSectorsV2(p, until) ==
  IF p.unproven # {} THEN Aborted
  ELSE {r \in popExpiredSectorsV0(p, until) : Valid(r.p) # Aborted}
popExpiredSectorsIn(p, until) ==
  IF dlVersion = 0 THEN popExpiredSectorsV0(p, until) ELSE popExpiredSectorsV2(p, until)

\* Every live sector is faulty now.  What a version returns differs: the new
\* faulty power, or the change of active power.
allFaulty(p, q) ==
  [p EXCEPT !.queue = q, !.faults = liveSectors(p), !.recoveries = {},
            !.faulty = p.live, !.recovering = 0]
recordMissedPostV0(p, epoch, quant) ==
  Returning({allFaulty(p, q) : q \in rescheduleAllAsFaults(p.queue, quant, epoch)},
            p.live - p.faulty, p.live - p.faulty)
recordMissedPostV2(p, epoch, quant) ==
  LET new == p.live - p.faulty
      changed(q) == [allFaulty(p, q) EXCEPT !.unproven = {}, !.unprovenPower = 0]
  IN UNION {Returning(Valid(changed(q)), p.unprovenPower - new, new) :
              q \in rescheduleAllAsFaults(p.queue, quant, epoch)}
recordMissedPost(p, epoch, quant) ==
  IF dlVersion = 0 THEN recordMissedPostV0(p, epoch, quant) ELSE recordMissedPostV2(p, epoch, quant)

\* Oldest first; one epoch may be taken in part.
popEarlyTerminationsIn(p, max) ==
  LET taken(e) == Total({x \in DOMAIN p.early : x < e}, LAMBDA x : Cardinality(p.early[x]))
      room(e) == Larger(0, max - taken(e))
      rest(e) == LET seq == Ascending(p.early[e])
                 IN {seq[i] : i \in {j \in DOMAIN seq : j > room(e)}}
      left == [e \in {x \in DOMAIN p.early : rest(x) # {}} |-> rest(e)]
  IN {[p |-> [p EXCEPT !.early = left],
       count |-> Smaller(max, Total(DOMAIN p.early, LAMBDA x : Cardinality(p.early[x]))),
       more |-> left # Empty]}

-----------------------------------------------------------------------------
(***************************************************************************)
(* One deadline of a miner, the first of its proving period, from period   *)
(* to period: types/miner/deadline.cpp with its versions 0, 2 and 3, and   *)
(* what advanceDeadline and popEarlyTerminations of                        *)
(* states/miner/miner_actor_state.cpp do with it.                          *)
(***************************************************************************)

CONSTANTS
  DlVersions,      \* subset of {0, 2, 3}
  DlPartitionSize,
  DlWindow,        \* kWPoStChallengeWindow
  DlPeriod,        \* kWPoStProvingPeriod
  DlFaultMaxAge,   \* kFaultMaxAge
  DlPeriods,       \* bound on the periods
  DlOps            \* bound on the calls within one period

ASSUME DeadlineAssumption ==
  /\ DlVersions \subseteq {0, 2, 3}
  /\ DlPartitionSize \in Nat \ {0} /\ DlWindow \in Nat \ {0} /\ DlPeriod > DlWindow

VARIABLES
  dl,              \* the deadline
  dlPeriodNow,     \* number of the current period
  dlOps,           \* calls in this period
  dlEarly,         \* the deadline is in the miner's early_terminations
  dlStuck,         \* addSectors does not return
  dlReported,      \* ghost: active power the returned deltas add up to
  dlMoved          \* ghost: sectors were rescheduled

dlVars == <<dlVersion, dl, dlPeriodNow, dlOps, dlEarly, dlStuck, dlReported, dlMoved>>

dlLast == dlPeriodNow * DlPeriod + DlWindow - 1
quantSpecForDeadline == [unit |-> DlPeriod, offset |-> dlLast]
deadlineQuant == [unit |-> DlWindow, offset |-> dlPeriodNow * DlPeriod]

NoDeadline == [partitions |-> <<>>, expirations |-> Empty, posted |-> {}, early |-> {},
               live |-> 0, total |-> 0, faulty |-> 0]
DlIndices(d) == DOMAIN d.partitions
SetPartition(d, i, p) == [d EXCEPT !.partitions[i] = p]

addExpirationPartitions(d, epoch, parts, quant) ==
  [d EXCEPT !.expirations = addToQueue(@, quant, epoch, parts)]

\* An outcome of a method: the deadline, the power it returns, and the
\* partitions with something to expire at the epoch given.
Acc(d, delta, parts) == [d |-> d, delta |-> delta, parts |-> parts]

-----------------------------------------------------------------------------
Chunk(S, from, size) == LET seq == Ascending(S) IN Range(SubSeq(seq, from, Smaller(from + size - 1, Len(seq))))

\* The last partition is filled up first, then new ones are made.  When it is
\* full already the loop goes round without an end (see AddSectors).
addSectors(d, S, proven, quant) ==
  LET n == Len(d.partitions)
      last == Larger(n, 1)
      room == DlPartitionSize - (IF n = 0 THEN 0 ELSE Cardinality(d.partitions[n].sectors))
      count == Cardinality(S)
      chunk(i) == IF i = last THEN Chunk(S, 1, room)
                  ELSE Chunk(S, room + (i - last - 1) * DlPartitionSize + 1, DlPartitionSize)
      parts == last .. last + Larger(0, (count - room + DlPartitionSize - 1) \div DlPartitionSize)
      one(a, i) ==
        LET p == IF i \in DlIndices(a.d) THEN a.d.partitions[i] ELSE NoPartition
            set(r) == IF i \in DlIndices(a.d) THEN SetPartition(a.d, i, r.p)
                      ELSE [a.d EXCEPT !.partitions = Append(@, r.p)]
        IN {Acc(set(r), a.delta + r.delta, {}) : r \in addSectorsToPartition(p, proven, chunk(i), quant)}
      updates == [e \in {SectorExpiration[s] : s \in S} |-> {i \in parts : \E s \in chunk(i) : SectorExpiration[s] = e}]
      finish(x) == [x EXCEPT !.expirations = addManyToQueueValues(@, quant, updates),
                             !.live = @ + count, !.total = @ + count]
  IN {[a EXCEPT !.d = finish(@)] : a \in ForEach(one, {Acc(d, 0, {})}, Ascending(parts))}

popExpiredSectors(d, until, quant) ==
  LET expired == poppedUntil(d.expirations, until)
      d0 == [d EXCEPT !.expirations = remainingAfter(@, until)]
      one(a, i) ==
        {[d |-> [SetPartition(a.d, i, r.p) EXCEPT
                   !.early = IF r.es.early = {} THEN @ ELSE @ \union {i},
                   !.live = @ - Cardinality(r.es.on) - Cardinality(r.es.early),
                   !.faulty = @ - r.es.faulty],
          es |-> Plus(a.es, r.es)] : r \in popExpiredSectorsIn(a.d.partitions[i], until)}
  IN ForEach(one, {[d |-> d0, es |-> NoEs]}, Ascending(expired))

\* The partitions of a map take the faults; what the caller is told is the
\* new faulty power (version 0) or the change of power (later).
faultsIn(d, map, epoch, quant, told(_)) ==
  LET one(a, i) ==
        LET new == newFaults(a.d.partitions[i], map[i] \ a.d.partitions[i].recoveries)
        IN {Acc([SetPartition(a.d, i, r.p) EXCEPT !.faulty = @ + r.faulty], a.delta + told(r),
                IF new = {} THEN a.parts ELSE a.parts \union {i}) :
              r \in recordFaults(a.d.partitions[i], map[i], epoch, quant)}
  IN {Acc(addExpirationPartitions(a.d, epoch, a.parts, quant), a.delta, {}) :
        a \in ForEach(one, {Acc(d, 0, {})}, Ascending(DOMAIN map))}
recordFaultsV0(d, map, epoch, quant) == faultsIn(d, map, epoch, quant, LAMBDA r : r.faulty)
recordFaultsV2(d, map, epoch, quant) == faultsIn(d, map, epoch, quant, LAMBDA r : r.delta)
recordFaultsInDeadline(d, map, epoch, quant) ==
  IF dlVersion = 0 THEN recordFaultsV0(d, map, epoch, quant)
  ELSE recordFaultsV2(d, map, epoch, quant)

\* A partition that was not proven misses its proof, unless it is faulty as a
\* whole and nothing of it is recovering.
missedPosts(d, Method(_)) ==
  LET missed == {i \in DlIndices(d) \ d.posted :
                   d.partitions[i].recovering # 0 \/ d.partitions[i].faulty # d.partitions[i].live}
      one(a, i) ==
        {Acc([SetPartition(a.d, i, r.p) EXCEPT !.faulty = @ + r.faulty], a.delta + r.delta,
             IF r.faulty = 0 THEN a.parts ELSE a.parts \union {i}) :
           r \in Method(a.d.partitions[i])}
  IN ForEach(one, {Acc(d, 0, {})}, Ascending(missed))
closed(a, epoch, quant) ==
  Acc([addExpirationPartitions(a.d, epoch, a.parts, quant) EXCEPT !.posted = {}], a.delta, {})
processDeadlineEndV0(d, epoch, quant) ==
  {closed(a, epoch, quant) : a \in missedPosts(d, LAMBDA p : recordMissedPostV0(p, epoch, quant))}
\* Mutant: the partitions are not indexed under the epoch their faults expire at.
processDeadlineEndUnindexed(d, epoch, quant) ==
  {closed([a EXCEPT !.parts = {}], epoch, quant) :
     a \in missedPosts(d, LAMBDA p : recordMissedPostV2(p, epoch, quant))}
processDeadlineEndV2(d, epoch, quant) ==
  {closed(a, epoch, quant) : a \in missedPosts(d, LAMBDA p : recordMissedPostV2(p, epoch, quant))}
processDeadlineEnd(d, epoch, quant) ==
  IF dlVersion = 0 THEN processDeadlineEndV0(d, epoch, quant)
  ELSE processDeadlineEndV2(d, epoch, quant)

\* A proof of one partition: skipped sectors become faulty, recovered ones
\* come back.
proved(a, post, epoch, quant) ==
  LET i == post.index
      parts == IF newFaults(a.d.partitions[i], post.skipped) # {} THEN a.parts \union {i} ELSE a.parts
  IN UNION {{Acc([SetPartition(a.d, i, rec.p) EXCEPT
                    !.posted = @ \union {i}, !.faulty = @ - rec.delta + r.faulty],
                 a.delta + r.delta + rec.delta, parts) :
               rec \in recoverFaults(r.p, quant)} :
             r \in recordSkippedFaults(a.d.partitions[i], post.skipped, epoch, quant)}
\* From version 2 on its new sectors become active too.
activated(a, i) ==
  LET p == a.d.partitions[i]
  IN [a EXCEPT !.d = SetPartition(@, i, activateUnproven(p)), !.delta = @ + p.unprovenPower]

indexed(outcomes, epoch, quant) ==
  {Acc(addExpirationPartitions(a.d, epoch, a.parts, quant), a.delta, {}) : a \in outcomes}
recordProvenSectorsV0(d, posts, epoch, quant) ==
  LET one(a, post) == IF post.index \in a.d.posted THEN {a} ELSE proved(a, post, epoch, quant)
  IN {[a EXCEPT !.delta = 0] : a \in indexed(ForEach(one, {Acc(d, 0, {})}, posts), epoch, quant)}
recordProvenSectorsV2(d, posts, epoch, quant) ==
  LET one(a, post) == IF post.index \in a.d.posted THEN {a}
                      ELSE {activated(b, post.index) : b \in proved(a, post, epoch, quant)}
  IN indexed(ForEach(one, {Acc(d, 0, {})}, posts), epoch, quant)
\* Versions 0 and 2 skip a partition proven already, version 3 rejects it.
provenTwice(d, posts) ==
  LET indices == {posts[k].index : k \in DOMAIN posts}
  IN Cardinality(indices) # Len(posts) \/ indices \intersect d.posted # {}
recordProvenSectorsV3(d, posts, epoch, quant) ==
  LET one(a, post) == {activated(b, post.index) : b \in proved(a, post, epoch, quant)}
  IN IF provenTwice(d, posts) THEN Aborted
     ELSE indexed(ForEach(one, {Acc(d, 0, {})}, posts), epoch, quant)
recordProvenSectors(d, posts, epoch, quant) ==
  CASE dlVersion = 0 -> recordProvenSectorsV0(d, posts, epoch, quant)
    [] dlVersion = 2 -> recordProvenSectorsV2(d, posts, epoch, quant)
    [] OTHER -> recordProvenSectorsV3(d, posts, epoch, quant)

declareFaultsRecovered(d, map) ==
  LET one(x, i) == {SetPartition(x, i, p) : p \in declareFaultsRecoveredIn(x.partitions[i], map[i])}
  IN ForEach(one, {d}, Ascending(DOMAIN map))

terminateSectors(d, epoch, map, quant) ==
  LET one(a, i) ==
        {[d |-> [SetPartition(a.d, i, r.p) EXCEPT
                   !.early = IF isEmpty(r.es) THEN @ ELSE @ \union {i},
                   !.live = @ - Cardinality(r.es.on) - Cardinality(r.es.early),
                   !.faulty = @ - r.es.faulty],
          es |-> Plus(a.es, r.es)] : r \in terminateSectorsIn(a.d.partitions[i], epoch, map[i], quant)}
  IN ForEach(one, {[d |-> d, es |-> NoEs]}, Ascending(DOMAIN map))

rescheduleSectorExpirations(d, epoch, map, quant) ==
  LET moved(i) == (map[i] \intersect liveSectors(d.partitions[i])) \ d.partitions[i].faults
      one(x, i) == {SetPartition(x, i, p) : p \in rescheduleExpirationsIn(x.partitions[i], epoch, map[i], quant)}
      parts == {i \in DOMAIN map \intersect DlIndices(d) : moved(i) # {}}
  IN {addExpirationPartitions(x, epoch, parts, quant) : x \in ForEach(one, {d}, Ascending(parts))}

\* Partitions after the removed ones move down, in the queue too.
removePartitions(d, R, quant) ==
  LET kept == SelectSeq([i \in DlIndices(d) |-> i], LAMBDA i : i \notin R)
      removed == UNION {d.partitions[i].sectors : i \in R}
      live == UNION {liveSectors(d.partitions[i]) : i \in R}
  IN IF /\ d.early = {}
        /\ \A i \in R : d.partitions[i].faults = {} /\ d.partitions[i].unproven = {}
     THEN {Acc([d EXCEPT !.partitions = [k \in 1 .. Len(kept) |-> d.partitions[kept[k]]],
                         !.expirations = cutQueue(@, R), !.live = @ - Cardinality(live),
                         !.total = @ - Cardinality(removed)],
               Total(R, LAMBDA i : d.partitions[i].live), {})}
     ELSE Aborted

popEarlyTerminations(d, maxPartitions, maxSectors) ==
  LET seq == Ascending(d.early)
      one(a, i) ==
        IF a.parts >= maxPartitions \/ a.sectors >= maxSectors THEN {a}
        ELSE {[d |-> [SetPartition(a.d, i, r.p) EXCEPT !.early = IF r.more THEN @ ELSE @ \ {i}],
               parts |-> a.parts + 1, sectors |-> a.sectors + r.count] :
                r \in popEarlyTerminationsIn(a.d.partitions[i], maxSectors - a.sectors)}
  IN ForEach(one, {[d |-> d, parts |-> 0, sectors |-> 0]}, seq)

-----------------------------------------------------------------------------
DlInit ==
  /\ dlVersion \in DlVersions
  /\ dl = NoDeadline
  /\ dlPeriodNow = 0 /\ dlOps = 0 /\ dlEarly = FALSE /\ dlStuck = FALSE
  /\ dlReported = 0 /\ dlMoved = FALSE

\* A call in the current period; every period has a bounded number of them.
Call == ~dlStuck /\ dlOps < DlOps /\ dlOps' = dlOps + 1 /\ UNCHANGED <<dlVersion, dlPeriodNow>>
\* deadlineIsMutable: sectors are added, declared, moved and removed before the
\* window of the deadline opens, proofs come after that.
Mutable == Call /\ dl.posted = {}
\* A PartitionSectorMap with one partition.
In(i, S) == [x \in {i} |-> S]
FaultExpiration == dlLast + DlFaultMaxAge

\* Sectors are added unproven; the power returned for them is not used.
AddSectors(S) ==
  /\ Mutable
  /\ S # {} /\ \A s \in S : SectorExpiration[s] > dlLast
  /\ S \intersect UNION {dl.partitions[i].sectors : i \in DlIndices(dl)} = {}
  /\ LET n == Len(dl.partitions)
     IN IF n > 0 /\ Cardinality(dl.partitions[n].sectors) >= DlPartitionSize
        THEN dlStuck' = TRUE /\ UNCHANGED dl
        ELSE /\ \E a \in addSectors(dl, S, FALSE, quantSpecForDeadline) : dl' = a.d
             /\ UNCHANGED dlStuck
  /\ UNCHANGED <<dlEarly, dlReported, dlMoved>>

RecordFaults(i, S) ==
  /\ Mutable
  /\ \E a \in recordFaultsInDeadline(dl, In(i, S), FaultExpiration, quantSpecForDeadline) :
       dl' = a.d /\ dlReported' = dlReported + a.delta
  /\ UNCHANGED <<dlEarly, dlStuck, dlMoved>>

DeclareFaultsRecovered(i, S) ==
  /\ Mutable
  /\ dl' \in declareFaultsRecovered(dl, In(i, S))
  /\ UNCHANGED <<dlEarly, dlStuck, dlReported, dlMoved>>

\* SubmitWindowedPoSt in the window of the deadline: something is proven.
RecordProven(posts) ==
  /\ Call
  /\ \E a \in recordProvenSectors(dl, posts, FaultExpiration, quantSpecForDeadline) :
       /\ \E i \in a.d.posted \ dl.posted :
            a.d.partitions[i].sectors \ (a.d.partitions[i].faults \union a.d.partitions[i].terminated) # {}
       /\ dl' = a.d /\ dlReported' = dlReported + a.delta
  /\ UNCHANGED <<dlEarly, dlStuck, dlMoved>>

\* The caller of terminateSectors adds the deadline to early_terminations.
TerminateSectors(i, S) ==
  /\ Mutable
  /\ \E a \in terminateSectors(dl, dlLast, In(i, S), quantSpecForDeadline) :
       /\ dl' = a.d
       /\ dlReported' = dlReported - a.es.active
  /\ dlEarly' = TRUE
  /\ UNCHANGED <<dlStuck, dlMoved>>

RescheduleExpirations(i, S) ==
  /\ Mutable
  /\ dl' \in rescheduleSectorExpirations(dl, dlLast, In(i, S), quantSpecForDeadline)
  /\ dlMoved' = TRUE
  /\ UNCHANGED <<dlEarly, dlStuck, dlReported>>

RemovePartition(i) ==
  /\ Mutable
  /\ \E a \in removePartitions(dl, {i}, quantSpecForDeadline) :
       /\ dl' = a.d
       /\ dlReported' = dlReported - a.delta
  /\ UNCHANGED <<dlEarly, dlStuck, dlMoved>>

\* MinerActorState::popEarlyTerminations
PopEarlyTerminations(maxSectors) ==
  /\ Call
  /\ dlEarly
  /\ \E a \in popEarlyTerminations(dl, 1, maxSectors) : dl' = a.d /\ dlEarly' = (a.d.early # {})
  /\ UNCHANGED <<dlStuck, dlReported, dlMoved>>

\* MinerActorState::advanceDeadline.  It quantizes to the ends of all deadlines;
\* and the deadline is marked when NO sector expired early.
AdvanceDeadline ==
  /\ ~dlStuck
  /\ dlPeriodNow < DlPeriods
  /\ dlPeriodNow' = dlPeriodNow + 1
  /\ dlOps' = 0
  /\ IF dl.live = 0 THEN UNCHANGED <<dl, dlEarly, dlReported>>
     ELSE \E a \in processDeadlineEnd(dl, FaultExpiration, deadlineQuant) :
          \E b \in popExpiredSectors(a.d, dlLast, deadlineQuant) :
            /\ dl' = b.d
            /\ dlReported' = dlReported + a.delta - b.es.active
            /\ dlEarly' = (dlEarly \/ b.es.early = {})
  /\ UNCHANGED <<dlVersion, dlStuck, dlMoved>>

Posts == UNION {[1 .. n -> [index : DlIndices(dl), skipped : {{}} \union {{s} : s \in DlSectors}]] : n \in 1 .. 2}

DlNext ==
  \/ \E S \in SUBSET DlSectors : AddSectors(S)
  \/ \E i \in DlIndices(dl) : \E S \in SUBSET dl.partitions[i].sectors \ {{}} :
       RecordFaults(i, S) \/ DeclareFaultsRecovered(i, S) \/ TerminateSectors(i, S) \/ RescheduleExpirations(i, S)
  \/ \E posts \in Posts : RecordProven(posts)
  \/ \E i \in DlIndices(dl) : RemovePartition(i)
  \/ \E n \in 1 .. 2 : PopEarlyTerminations(n)
  \/ AdvanceDeadline

DlTypeOK ==
  /\ dlVersion \in DlVersions
  /\ dlPeriodNow \in 0 .. DlPeriods /\ dlOps \in 0 .. DlOps
  /\ dlEarly \in BOOLEAN /\ dlStuck \in BOOLEAN /\ dlMoved \in BOOLEAN
  /\ dlReported \in Int
  /\ dl.posted \subseteq DlIndices(dl) /\ dl.early \subseteq DlIndices(dl)
  /\ \A i \in DlIndices(dl) : dl.partitions[i].sectors \subseteq DlSectors

\* A partition's sums are the sums over its sectors, every live sector is in
\* its expiration queue exactly once, and every expiration set counts exactly
\* its own sectors.
PartitionAddsUp(p) ==
  /\ p.live = power(liveSectors(p)) /\ p.unprovenPower = power(p.unproven)
  /\ p.faulty = power(p.faults) /\ p.recovering = power(p.recoveries)
  /\ Queued(p.queue) = liveSectors(p)
  /\ Total(DOMAIN p.queue, LAMBDA e : Cardinality(p.queue[e].on) + Cardinality(p.queue[e].early))
       = Cardinality(liveSectors(p))
  /\ \A e \in DOMAIN p.queue :
       LET es == p.queue[e]
       IN /\ es.pledge = pledge(es.on)
          /\ es.active = power(es.on \ p.faults)
          /\ es.faulty = power(es.on \intersect p.faults) + power(es.early)

\* The deadline counts its live sectors and its faulty power, finds every
\* expiration of a partition in its own index in time, and knows the
\* partitions with terminations to process.  Version 0 looks for sectors where
\* they declare to expire, so it is exempt once sectors were rescheduled.
DeadlineAddsUp == dlVersion >= 2 \/ ~dlMoved =>
  /\ \A i \in DlIndices(dl) : PartitionAddsUp(dl.partitions[i])
  /\ dl.live = Total(DlIndices(dl), LAMBDA i : Cardinality(liveSectors(dl.partitions[i])))
  /\ dl.total = Total(DlIndices(dl), LAMBDA i : Cardinality(dl.partitions[i].sectors))
  /\ dl.faulty = Total(DlIndices(dl), LAMBDA i : dl.partitions[i].faulty)
  /\ \A i \in DlIndices(dl) : \A e \in DOMAIN dl.partitions[i].queue :
       \E x \in DOMAIN dl.expirations : x <= e /\ i \in dl.expirations[x]
  /\ \A i \in DlIndices(dl) : dl.partitions[i].early # Empty => i \in dl.early

\* From version 2 on, the power deltas returned to the caller add up to the
\* power of the sectors that are proven and not faulty.
DeltasAreActivePower ==
  dlVersion >= 2 => dlReported = Total(DlIndices(dl), LAMBDA i : power(activeSectors(dl.partitions[i])))

DlSafety == DeadlineAddsUp /\ DeltasAreActivePower

\* A deadline with early terminations to process is one the miner will look at.
EarlyTerminationsAreFound == dl.early # {} => dlEarly

-----------------------------------------------------------------------------
(***************************************************************************)
(* The miner actor's own account: its construction, precommitments and     *)
(* their deposits, vesting funds, penalties and debts                      *)
(* (core/vm/actor/builtin/{v0,v2,v3}/miner/miner_actor.cpp and its utils,  *)
(* states/miner/*, types/miner/vesting.cpp, deadline_info.cpp).  What the  *)
(* power, reward and market actors answer is a choice from small sets.     *)
(***************************************************************************)

CONSTANTS
  MiVersions,      \* records [actor, early, n7]: actor version, network before 3, from 7 on
  MiSectors,       \* numbers of the sectors that may be precommitted
  MiWorkers,       \* addresses; one is the owner as well
  MiPledges,       \* initial pledges of the sector on chain (0: there is none)
  MiAmounts,       \* deposits, rewards and penalties
  MiPeriod, MiWindow,          \* kWPoStProvingPeriod, kWPoStChallengeWindow
  MiMaxSeal, MiMaxProve,       \* maxSealDuration, kMaxProveCommitDuration
  MiKeyDelay,                  \* kWorkerKeyChangeDelay
  MiVest,                      \* VestSpec: [delay, period, step, quantization]
  MiOffsets, MiLastEpoch, MiMaxReceived

ASSUME MinerAssumption ==
  /\ MiWindow \in Nat \ {0} /\ MiPeriod % MiWindow = 0 /\ MiPeriod > MiWindow
  /\ MiVest.period \in Nat \ {0} /\ MiVest.step \in Nat \ {0} /\ MiVest.quantization \in Nat \ {0}

VARIABLES
  miVersion,
  mi,              \* the state of the actor
  miEpoch,
  miBalance,       \* balance of the actor
  miReceived, miBurnt,   \* ghosts: all it received and burnt
  miCron           \* epochs the actor enrolled cron events for

miVars == <<miVersion, mi, miEpoch, miBalance, miReceived, miBurnt, miCron>>

MiDeadlines == 0 .. MiPeriod \div MiWindow - 1

-----------------------------------------------------------------------------
\* DeadlineInfo and its constructor
deadlineInfo(start, index) ==
  [start |-> start, index |-> index, open |-> start + index * MiWindow, close |-> start + (index + 1) * MiWindow]
hasElapsed(d, now) == now >= d.close
isOpen(d, now) == now >= d.open /\ now < d.close

\* Mutant: the period of the current epoch is taken without the offset of the miner.
nextNotElapsedUnaligned(d, now) ==
  IF ~hasElapsed(d, now) THEN d
  ELSE LET start == (now \div MiPeriod) * MiPeriod
       IN deadlineInfo(IF now >= start + (d.index + 1) * MiWindow THEN start + MiPeriod ELSE start, d.index)

nextNotElapsed(d, now) ==
  IF ~hasElapsed(d, now) THEN d
  ELSE LET global == (now \div MiPeriod) * MiPeriod + (d.start % MiPeriod)
           start == IF global > now THEN global - MiPeriod ELSE global
       IN deadlineInfo(IF now >= start + (d.index + 1) * MiWindow THEN start + MiPeriod ELSE start, d.index)

deadlineIsMutable(start, index, now) ==
  now < nextNotElapsed(deadlineInfo(start, index), now).open - MiWindow

\* Progress of the current epoch in the proving period with this offset.
PeriodProgress(now, offset) ==
  LET m == now % MiPeriod IN IF m >= offset THEN m - offset ELSE MiPeriod - (offset - m)
nextProvingPeriodStart(now, offset) == now - PeriodProgress(now, offset) + MiPeriod
currentProvingPeriodStart(now, offset) == now - PeriodProgress(now, offset)
currentDeadlineIndex(now, start) == (now - start) \div MiWindow

-----------------------------------------------------------------------------
\* VestingFunds: a function from epochs to amounts.
Before(vf, now) == {e \in DOMAIN vf : e < now}
vested(vf, now) == Total(Before(vf, now), LAMBDA e : vf[e])
unlockVested(vf, now) == Restrict(vf, DOMAIN vf \ Before(vf, now))

\* A step of the schedule vests what is due up to its quantized epoch.
addLockedFunds(vf, now, sum, start) ==
  LET begin == now + MiVest.delay
      step(a, k) ==
        LET e == quantizeUp([unit |-> MiVest.quantization, offset |-> start], begin + k * MiVest.step)
            elapsed == e - begin
            target == IF elapsed < MiVest.period THEN (sum * elapsed) \div MiVest.period ELSE sum
        IN IF a.done >= sum THEN a
           ELSE [vf |-> With(a.vf, e, GetOr(a.vf, e, 0) + target - a.done), done |-> target]
  IN FoldLeft(step, [vf |-> vf, done |-> 0], [k \in 1 .. MiVest.period |-> k]).vf

\* What is due first is taken first, up to the target.
Due(vf, now, e) == Total({x \in DOMAIN vf : x >= now /\ x < e}, LAMBDA x : vf[x])
takenFrom(vf, now, target, e) ==
  IF e < now THEN 0 ELSE Smaller(vf[e], Larger(0, target - Due(vf, now, e)))
unvested(vf, now, target) == Total(DOMAIN vf, LAMBDA e : takenFrom(vf, now, target, e))
unlockUnvested(vf, now, target) ==
  LET gone == {e \in DOMAIN vf : e >= now /\ Due(vf, now, e) < target /\ takenFrom(vf, now, target, e) = vf[e]}
  IN [e \in DOMAIN vf \ gone |-> vf[e] - takenFrom(vf, now, target, e)]

-----------------------------------------------------------------------------
\* MinerActorState: balances.  From version 2 on the pledge is not unlocked.
Pledged(st) == IF miVersion.actor = 0 THEN 0 ELSE st.pledge
getUnlockedBalance(st, balance) == balance - st.locked - st.deposit - Pledged(st)
getAvailableBalance(st, balance) ==
  getUnlockedBalance(st, balance) - (IF miVersion.actor = 0 THEN st.pledge ELSE st.debt)
checkBalanceInvariants(st, balance) ==
  st.deposit >= 0 /\ st.locked >= 0 /\ balance >= st.deposit + st.locked + Pledged(st)

unlockVestedFunds(st, now) ==
  [st EXCEPT !.locked = @ - vested(st.vesting, now), !.vesting = unlockVested(@, now)]
unlockUnvestedFunds(st, now, target) ==
  [st EXCEPT !.locked = @ - unvested(st.vesting, now, target), !.vesting = unlockUnvested(@, now, target)]

quantSpecEveryDeadline(st) == [unit |-> MiWindow, offset |-> st.start]

-----------------------------------------------------------------------------
NewState(start, index, pl) ==
  [start |-> start, index |-> index, worker |-> "owner", pending |-> <<>>, locked |-> 0, deposit |-> 0,
   pledge |-> pl, debt |-> 0, vesting |-> Empty, allocated |-> {}, precommits |-> Empty, expiry |-> Empty]

\* Construct.  Version 0 waits for the next proving period, later ones start in
\* the current one; the first cron event is the last epoch before or in it.
Construct(now, offset, pl) ==
  LET start == currentProvingPeriodStart(now, offset)
      index == currentDeadlineIndex(now, start)
  IN [st |-> NewState(start, index, pl), cron |-> start + MiWindow * (1 + index) - 1]
ConstructV0(now, offset, pl) ==
  LET start == nextProvingPeriodStart(now, offset)
  IN [st |-> NewState(start, 0, pl), cron |-> start - 1]

\* A sector on chain, with its pledge, stands for the past.
MiInit ==
  /\ miVersion \in MiVersions
  /\ miEpoch \in 0 .. MiLastEpoch \div 2
  /\ \E offset \in MiOffsets, pl \in MiPledges :
       LET c == IF miVersion.actor = 0 THEN ConstructV0(miEpoch, offset, pl) ELSE Construct(miEpoch, offset, pl)
       IN mi = c.st /\ miCron = {c.cron} /\ miBalance = pl /\ miReceived = pl
  /\ miBurnt = 0

Tick ==
  /\ miEpoch < MiLastEpoch
  /\ miEpoch' = miEpoch + 1
  /\ UNCHANGED <<miVersion, mi, miBalance, miReceived, miBurnt, miCron>>

Receive(v) ==
  /\ miReceived + v <= MiMaxReceived
  /\ miBalance' = miBalance + v /\ miReceived' = miReceived + v
  /\ UNCHANGED <<miVersion, mi, miEpoch, miBurnt, miCron>>

\* Version 0 overwrites a pending change and enrolls an event for each, later
\* versions keep the first change and enroll none.
ChangeWorkerAddress(w) ==
  /\ LET changes == w # mi.worker /\ (miVersion.actor = 0 \/ mi.pending = <<>>)
         at == miEpoch + MiKeyDelay
     IN /\ mi' = IF changes THEN [mi EXCEPT !.pending = <<w, at>>] ELSE mi
        /\ miCron' = IF changes /\ miVersion.actor = 0 THEN miCron \union {at} ELSE miCron
  /\ UNCHANGED <<miVersion, miEpoch, miBalance, miReceived, miBurnt>>

\* Mutant: the expired deposit stays in the sum.
checkPrecommitExpiryKeeping(st, S) ==
  LET found == S \intersect DOMAIN st.precommits
  IN [st EXCEPT !.precommits = Restrict(@, DOMAIN @ \ found)]

checkPrecommitExpiry(st, S) ==
  LET found == S \intersect DOMAIN st.precommits
  IN [st EXCEPT !.precommits = Restrict(@, DOMAIN @ \ found),
                !.deposit = @ - Total(found, LAMBDA s : st.precommits[s])]

\* Mutant: a precommitment is not entered for its expiry.
addPreCommitExpiryNever(st, epoch, s) == st

addPreCommitExpiry(st, epoch, s) ==
  [st EXCEPT !.expiry = addToQueue(@, quantSpecEveryDeadline(st), epoch, {s})]

\* What PreCommitSector does to the state once the deposit is known.
precommitted(st, s, deposit, expires) ==
  addPreCommitExpiry([st EXCEPT !.allocated = @ \union {s}, !.deposit = @ + deposit,
                                !.precommits = With(@, s, deposit)], expires, s)
Precommittable(s) == s \notin mi.allocated /\ s \notin DOMAIN mi.precommits

\* PreCommitSector of version 0 with the deposit the power of the sector
\* requires: a sector that replaces one deposits its pledge at least.
PreCommitSectorV0(s, required, replace) ==
  LET st0 == unlockVestedFunds(mi, miEpoch)
      deposit == IF replace THEN Larger(required, st0.pledge) ELSE required
      st1 == precommitted(st0, s, deposit, miEpoch + MiMaxSeal + 1)
  IN /\ miVersion.actor = 0 /\ Precommittable(s)
     /\ replace => mi.pledge > 0
     /\ getAvailableBalance(st0, miBalance) >= deposit
     /\ checkBalanceInvariants(st1, miBalance)
     /\ mi' = st1
     /\ UNCHANGED <<miVersion, miEpoch, miBalance, miReceived, miBurnt, miCron>>

\* Later versions compare with what was available before the debt is repaid,
\* and burn the debt.
PreCommitSector(s, required) ==
  LET st0 == IF miVersion.n7 THEN mi ELSE unlockVestedFunds(mi, miEpoch)
      fee == st0.debt
      st1 == precommitted([st0 EXCEPT !.debt = 0], s, required, miEpoch + MiMaxProve + 1)
  IN /\ miVersion.actor >= 2 /\ Precommittable(s)
     /\ getUnlockedBalance(st0, miBalance) >= fee
     /\ getAvailableBalance(st0, miBalance) >= required
     /\ checkBalanceInvariants(st1, miBalance)
     /\ mi' = st1
     /\ miBalance' = miBalance - fee /\ miBurnt' = miBurnt + fee
     /\ UNCHANGED <<miVersion, miEpoch, miReceived, miCron>>

\* SubmitWindowedPoSt of version 0 before network version 3: penalties are
\* taken from vesting funds first, then from the unlocked balance.
PenalizePoSt(target) ==
  LET unlocked == getUnlockedBalance(mi, miBalance)
      fromVesting == unvested(mi.vesting, miEpoch, target)
      fromBalance == IF fromVesting = target THEN 0 ELSE Smaller(unlocked, target - fromVesting)
  IN /\ miVersion.actor = 0 /\ miVersion.early
     /\ isOpen(deadlineInfo(mi.start, mi.index), miEpoch)
     /\ unlocked >= 0
     /\ mi' = unlockUnvestedFunds(mi, miEpoch, target)
     /\ miBalance' = miBalance - fromVesting - fromBalance
     /\ miBurnt' = miBurnt + fromVesting + fromBalance
     /\ UNCHANGED <<miVersion, miEpoch, miReceived, miCron>>

\* MinerActorState::addLockedFunds for an amount that came with the message.
AddLockedFunds(v) ==
  /\ miReceived + v <= MiMaxReceived
  /\ LET st == unlockVestedFunds(mi, miEpoch)
     IN mi' = [st EXCEPT !.vesting = addLockedFunds(@, miEpoch, v, st.start), !.locked = @ + v]
  /\ miBalance' = miBalance + v /\ miReceived' = miReceived + v
  /\ UNCHANGED <<miVersion, miEpoch, miBurnt, miCron>>

\* applyPenalty, then repayPartialDebtInPriorityOrder; the sums are burnt.
RepayPartialDebt(penalty) ==
  LET st == [mi EXCEPT !.debt = @ + penalty]
      unlocked == getUnlockedBalance(mi, miBalance)
      fromVesting == unvested(mi.vesting, miEpoch, st.debt)
      fromBalance == Smaller(unlocked, st.debt - fromVesting)
  IN /\ miVersion.actor >= 2 /\ mi.debt + penalty <= MiMaxReceived
     /\ unlocked >= 0
     /\ mi' = [unlockUnvestedFunds(st, miEpoch, st.debt) EXCEPT !.debt = @ - fromVesting - fromBalance]
     /\ miBalance' = miBalance - fromVesting - fromBalance
     /\ miBurnt' = miBurnt + fromVesting + fromBalance
     /\ UNCHANGED <<miVersion, miEpoch, miReceived, miCron>>

\* expirePreCommits; the deposits of what expired are burnt.
ExpirePreCommits ==
  /\ Until(mi.expiry, miEpoch) # {}
  /\ LET st == checkPrecommitExpiry([mi EXCEPT !.expiry = remainingAfter(@, miEpoch)], poppedUntil(mi.expiry, miEpoch))
         burn == Total(poppedUntil(mi.expiry, miEpoch) \intersect DOMAIN mi.precommits, LAMBDA s : mi.precommits[s])
     IN mi' = st /\ miBalance' = miBalance - burn /\ miBurnt' = miBurnt + burn
  /\ UNCHANGED <<miVersion, miEpoch, miReceived, miCron>>

MiNext ==
  \/ Tick
  \/ \E v \in MiAmounts : Receive(v) \/ AddLockedFunds(v) \/ PenalizePoSt(v) \/ RepayPartialDebt(v)
  \/ \E w \in MiWorkers : ChangeWorkerAddress(w)
  \/ \E s \in MiSectors, v \in MiAmounts :
       PreCommitSector(s, v) \/ \E replace \in BOOLEAN : PreCommitSectorV0(s, v, replace)
  \/ ExpirePreCommits

MiTypeOK ==
  /\ miVersion \in MiVersions /\ miEpoch \in 0 .. MiLastEpoch
  /\ mi.allocated \subseteq MiSectors /\ DOMAIN mi.precommits \subseteq MiSectors
  /\ mi.index \in MiDeadlines /\ mi.worker \in MiWorkers
  /\ miReceived \in 0 .. MiMaxReceived /\ miBurnt \in 0 .. MiMaxReceived

\* The sums the state keeps are those of the tables they sum up: locked funds
\* of the vesting table, deposits of the precommitments.  Every precommitment
\* will expire, no token is burnt twice, and what is set aside is covered by
\* the balance whatever order the calls come in.
MinerFundsAddUp ==
  /\ mi.locked = SumOf(mi.vesting)
  /\ mi.deposit = SumOf(mi.precommits)
  /\ DOMAIN mi.precommits \subseteq poppedUntil(mi.expiry, MiLastEpoch + MiMaxSeal + MiMaxProve + 2 * MiWindow)
  /\ miBalance = miReceived - miBurnt
  /\ mi.debt >= 0
  /\ checkBalanceInvariants(mi, miBalance)

\* For each deadline, nextNotElapsed finds the first window that has not
\* closed, aligned with the miner's own periods; the window of the deadline the
\* constructor chose is the one the first cron event closes.
DeadlinesAreAligned ==
  /\ \A i \in MiDeadlines :
       LET d == nextNotElapsed(deadlineInfo(mi.start, i), miEpoch)
       IN /\ miEpoch < d.close
          /\ (d.start - mi.start) % MiPeriod = 0
          /\ d.start = mi.start \/ miEpoch >= d.close - MiPeriod
          /\ deadlineIsMutable(mi.start, i, miEpoch) => ~isOpen(d, miEpoch)
  /\ (miVersion.actor >= 2) => deadlineInfo(mi.start, mi.index).close - 1 \in miCron
  /\ (miVersion.actor = 0) => mi.start - 1 \in miCron

MinerSafety == MinerFundsAddUp /\ DeadlinesAreAligned
=============================================================================
