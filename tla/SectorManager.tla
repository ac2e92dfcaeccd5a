--------------------------- MODULE SectorManager ----------------------------
(***************************************************************************)
(* Where the sector files are: the index and the stores of every node, the *)
(* workers that use the files, and the manager that strings the work       *)
(* together.                                                               *)
(***************************************************************************)
EXTENDS ActorBase, TLC

(***************************************************************************)
(* Where the files of one sector are: the sector index of the miner, the   *)
(* local stores of the miner and of its workers, and the remote store that *)
(* moves files between them over HTTP.                                     *)
(*                                                                         *)
(* A world w is a record: the index (attached stores, the free space they  *)
(* last reported, the declarations of each file type) and the disks (the   *)
(* files of each path with their sizes, the space reserved for files to    *)
(* come).  A call is an operator from a world to the set of its outcomes,  *)
(* records [w, error, at]: error is "" on success, at gives the path of    *)
(* each file type.  Failures of the network and of the disks cost one of   *)
(* w.faults.                                                               *)
(***************************************************************************)

CONSTANTS
  Nodes,        \* the miner and its workers, each with one LocalStore
  MinerNode,    \* the node that holds the index
  Paths,        \* StorageIDs
  NodeOf,       \* the node that opened the path
  CanSeal, CanStore,    \* sets of paths, from each path's LocalStorageMeta
  Weight, Capacity,
  PlainAdapter  \* nodes whose index adapter takes calls without a size

ASSUME StoresAssumption ==
  /\ MinerNode \in Nodes \intersect PlainAdapter
  /\ NodeOf \in [Paths -> Nodes]
  /\ CanSeal \subseteq Paths /\ CanStore \subseteq Paths
  /\ Weight \in [Paths -> Nat] /\ Capacity \in [Paths -> Nat]

kSectorFileTypes == <<"unsealed", "sealed", "cache", "update", "update-cache">>
Types == Range(kSectorFileTypes)
InOrder(types) == SelectSeq(kSectorFileTypes, LAMBDA t : t \in types)
SectorSize == 10
kOverheadDenominator == 10
kOverheadSeal == [unsealed |-> 10, sealed |-> 10, cache |-> 141, update |-> 10] @@ ("update-cache" :> 20)
kOverheadFinalized == [unsealed |-> 10, sealed |-> 10, cache |-> 2, update |-> 20] @@ ("update-cache" :> 10)
overhead(t, pathType) ==
  ((IF pathType = "storage" THEN kOverheadFinalized[t] ELSE kOverheadSeal[t]) * SectorSize) \div kOverheadDenominator
sealSpaceUse(types) == Total(types, LAMBDA t : overhead(t, "sealing"))

Done(w) == {[w |-> w, error |-> "", at |-> Empty]}
Found(w, at) == [w |-> w, error |-> "", at |-> at]
Failed(w, error) == {[w |-> w, error |-> error, at |-> Empty]}
\* OUTCOME_TRY: an error ends the call, a value goes on.
Then(outcomes, Next(_)) ==
  UNION {IF o.error = "" THEN Next(o) ELSE {o} : o \in outcomes}
Each(outcomes, types, Call(_, _)) ==
  FoldLeft(LAMBDA os, t : Then(os, LAMBDA o : {[x EXCEPT !.at = o.at] : x \in Call(o.w, t)}), outcomes, InOrder(types))
Fault(w) == IF w.faults = 0 THEN {} ELSE {[w EXCEPT !.faults = @ - 1]}

-----------------------------------------------------------------------------
(* SectorIndexImpl *)

ids(w, t) == {d.id : d \in Range(w.decl[t])}
storageAttach(w, p, available) ==
  IF p \in DOMAIN w.known THEN w ELSE [w EXCEPT !.known = With(@, p, available)]
storageReportHealth(w, p, available) ==
  IF p \in DOMAIN w.known THEN [w EXCEPT !.known[p] = available] ELSE w

\* Declaring again can only make a copy primary.
storageDeclareSector(w, p, t, primary) ==
  LET old == SelectSeq(w.decl[t], LAMBDA d : d.id = p) IN
  IF old = <<>> THEN [w EXCEPT !.decl[t] = Append(@, [id |-> p, primary |-> primary])]
  ELSE [w EXCEPT !.decl[t] = [i \in DOMAIN @ |->
          IF @[i].id = p THEN [@[i] EXCEPT !.primary = @ \/ primary] ELSE @[i]]]

storageDropSector(w, p, t) == [w EXCEPT !.decl[t] = SelectSeq(@, LAMBDA d : d.id # p)]

\* A store that reported an error, or nothing for a while, has known -1.
storageFindSector(w, types, allowFetch) ==
  {p \in DOMAIN w.known : \E t \in types : p \in ids(w, t)}
  \union {p \in DOMAIN w.known \intersect CanSeal : allowFetch /\ sealSpaceUse(types) <= w.known[p]}

storageBestAlloc(w, types, pathType) ==
  {p \in DOMAIN w.known :
     /\ p \in (IF pathType = "sealing" THEN CanSeal ELSE CanStore)
     /\ sealSpaceUse(types) <= w.known[p]}

\* The stores of a node in the order of storageBestAlloc, smallest product first.
FirstOf(w, ps) == {p \in ps : \A q \in ps : w.known[p] * Weight[p] <= w.known[q] * Weight[q]}

-----------------------------------------------------------------------------
(* LocalStoreImpl *)

pathsOf(n) == {p \in Paths : NodeOf[p] = n}
opened(w, n) == pathsOf(n) \intersect w.open

\* Path::getStat: the free space less what is reserved and not yet used.  The
\* usage is looked up under the name of the whole set of reserved types, so it
\* is found only when a single type is reserved.
used(w, p) == SumOf(w.disk[p])
unusedReserve(w, p) ==
  LET types == DOMAIN w.reserved[p]
      inUse == IF Cardinality(types) = 1 THEN Total(types, LAMBDA t : GetOr(w.disk[p], t, 0)) ELSE 0
  IN Larger(SumOf(w.reserved[p]) - inUse, 0)
getStat(w, p) == Larger(Larger(Capacity[p] - used(w, p), 0) - unusedReserve(w, p), 0)

reportHealth(w, n) ==
  FoldSet(LAMBDA p, v : storageReportHealth(v, p, getStat(w, p)), w, opened(w, n))

\* The paths of the types to find, and of the types to allocate, on node n.
localFind(w, n, types) ==
  LET here == {t \in types : ids(w, t) \intersect opened(w, n) \intersect DOMAIN w.known # {}}
  IN {f \in [here -> opened(w, n)] : \A t \in here : f[t] \in ids(w, t) \intersect DOMAIN w.known}
localAlloc(w, n, types, pathType) ==
  {f \in [types -> opened(w, n)] :
     \A t \in types : f[t] \in FirstOf(w, storageBestAlloc(w, {t}, pathType) \intersect opened(w, n))}
\* RemoteSectorIndexImpl passes the missing size on as a value, which throws.
findThrows(n) == n \notin PlainAdapter
localAcquire(w, n, existing, allocate, pathType) ==
  IF existing # {} /\ findThrows(n) THEN Failed(w, "throws")
  ELSE LET found == {Found(w, f @@ g) : f \in localFind(w, n, existing),
                                        g \in localAlloc(w, n, allocate, pathType)}
       IN IF found = {} THEN Failed(w, "no path") ELSE found

\* The file goes after its declaration, and an error is only logged.
removeSector(w, n, t, p) ==
  IF p \notin opened(w, n) THEN w
  ELSE [storageDropSector(w, p, t) EXCEPT !.disk[p] = Without(@, t)]
localRemove(w, n, t) ==
  IF findThrows(n) THEN Failed(w, "throws")
  ELSE Done(FoldSet(LAMBDA p, v : removeSector(v, n, t, p), w, storageFindSector(w, {t}, FALSE)))

\* Mutant: the primary copies go as well.
removeCopiesAll(w, n, t) == localRemove(w, n, t)

removeCopies(w, n, t) ==
  LET primary == {d.id : d \in {e \in Range(w.decl[t]) : e.primary}}
      others == storageFindSector(w, {t}, FALSE) \ primary
  IN IF findThrows(n) THEN Failed(w, "throws")
     ELSE IF primary \intersect DOMAIN w.known = {} THEN Done(w)
     ELSE Done(FoldSet(LAMBDA p, v : removeSector(v, n, t, p), w, others))

\* One file of moveStorage: the declaration is dropped before the rename.
moveFile(w, t, from, to) ==
  IF from = to \/ from \in CanStore THEN Done(w)
  ELSE LET dropped == storageDropSector(w, from, t)
           renamed == [dropped EXCEPT !.disk[from] = Without(@, t), !.disk[to] = With(@, t, w.disk[from][t])]
       IN (IF t \in DOMAIN w.disk[from] THEN Done(storageDeclareSector(renamed, to, t, TRUE)) ELSE Failed(dropped, "cannot move"))
          \union UNION {Failed([v EXCEPT !.stray = @ \union {<<from, t>>}], "cannot move") : v \in Fault(dropped)}
localMoveStorage(w, n, types) ==
  Then(localAcquire(w, n, {}, types, "storage"), LAMBDA dest :
    Then(localAcquire(w, n, types, {}, "storage"), LAMBDA src :
      Each(Done(w), types, LAMBDA v, t :
        IF t \notin DOMAIN src.at THEN Failed(v, "no store") ELSE moveFile(v, t, src.at[t], dest.at[t]))))

\* The types one after the other, until one cannot be reserved.
reserveEach(w, types, at, pathType) ==
  Each(Done(w), types, LAMBDA v, t :
    IF t \notin DOMAIN at THEN Failed(v, "no path")
    ELSE IF t \in DOMAIN v.reserved[at[t]] THEN Failed(v, "already reserved")
    ELSE IF getStat(v, at[t]) < overhead(t, pathType) THEN Failed(v, "cannot reserve")
    ELSE Done([v EXCEPT !.reserved[at[t]] = With(@, t, overhead(t, pathType))]))

\* reserve: all the types or none; a failure gives back what was taken.
reserve(w, types, at, pathType) ==
  {IF o.error = "" THEN Found(o.w, at) ELSE [o EXCEPT !.w.reserved = w.reserved] :
     o \in reserveEach(w, types, at, pathType)}
unreserve(w, types, at) ==
  [w EXCEPT !.reserved = [p \in Paths |->
     Restrict(@[p], DOMAIN @[p] \ {t \in types : t \in DOMAIN at /\ at[t] = p})]]

\* openPath: attach the store and declare the files found in its directories.
openPath(w, p) ==
  FoldSet(LAMBDA t, v : storageDeclareSector(v, p, t, p \in CanStore),
          [storageAttach(w, p, getStat(w, p)) EXCEPT !.open = @ \union {p}],
          DOMAIN w.disk[p])

-----------------------------------------------------------------------------
(* RemoteStoreImpl, with serveHttp of the node asked *)

\* remoteGetSector of the store's node, then the rename of the temporary file.
acquireFromRemote(w, t, to) ==
  LET stores == {p \in storageFindSector(w, {t}, FALSE) : ~findThrows(NodeOf[p])}
      sources == {p \in stores : t \in DOMAIN w.disk[p]}
  IN IF storageFindSector(w, {t}, FALSE) = {} THEN Failed(w, "not found")
     ELSE {[w |-> [w EXCEPT !.disk[to] = With(@, t, w.disk[p][t])], error |-> "", at |-> t :> p] : p \in sources}
          \union (IF sources = {} THEN Failed(w, "unable") ELSE UNION {Failed(v, "unable") : v \in Fault(w)})

\* remoteRemoveSector: the other node removes the type from all its paths.
deleteFromRemote(w, t, p) ==
  Fault(w) \union {o.w : o \in localRemove(w, NodeOf[p], t)}

\* Mutant: the source is deleted before the copy is declared.
fetchTypeUndeclared(w, t, to, mode) ==
  Then(acquireFromRemote(w, t, to), LAMBDA o :
    UNION {Done(v) : v \in deleteFromRemote(o.w, t, o.at[t])})

\* One type of acquireSector: fetch, declare, and on a move delete the source.
fetchType(w, t, to, mode) ==
  Then(acquireFromRemote(w, t, to), LAMBDA o :
    LET declared == storageDeclareSector(o.w, to, t, mode = "move")
    IN UNION {Done(v) : v \in IF mode = "move" THEN deleteFromRemote(declared, t, o.at[t]) ELSE {declared}})

acquireSector(w, n, existing, allocate, pathType, mode) ==
  Then(localAcquire(w, n, existing, allocate, pathType), LAMBDA o :
    LET missing == existing \ DOMAIN o.at IN
    Then(localAcquire(w, n, {}, missing, pathType), LAMBDA dest :
      {[f EXCEPT !.w = unreserve(@, missing, dest.at),
                 !.at = IF f.error = "" THEN o.at @@ dest.at ELSE Empty] :
         f \in Then(reserve(w, missing, dest.at, pathType), LAMBDA r :
                 Each(Done(r.w), missing, LAMBDA v, t : fetchType(v, t, dest.at[t], mode)))}))

remove(w, n, t) ==
  Then(localRemove(w, n, t), LAMBDA o :
    LET others == storageFindSector(o.w, {t}, FALSE) IN
    FoldSet(LAMBDA p, os : Then(os, LAMBDA x : UNION {Done(v) : v \in deleteFromRemote(x.w, t, p)}),
            Done(o.w), others))

moveStorage(w, n, types) ==
  Then(acquireSector(w, n, types, {}, "storage", "move"), LAMBDA o : localMoveStorage(o.w, n, types))

-----------------------------------------------------------------------------
(***************************************************************************)
(* LocalWorker: what the calls of a worker do to the files of a sector.    *)
(* Every call acquires the files it needs, works on them and, whether the  *)
(* work succeeds or not, releases its reservation and declares the files   *)
(* it allocated.  The proofs library may fail.                             *)
(***************************************************************************)

workerAcquire(w, n, existing, allocate, pathType) ==
  Then(acquireSector(w, n, existing, allocate, pathType, "copy"), LAMBDA o :
    {[r EXCEPT !.at = o.at] : r \in reserve(o.w, allocate, o.at, "sealing")})

\* Mutant: the files are declared and the space stays reserved.
releaseDeclaring(w, allocate, at) ==
  FoldSet(LAMBDA t, v : storageDeclareSector(v, at[t], t, FALSE), w, allocate)

\* release_function: the mode is kCopy, so no file it declares is primary.
release(w, allocate, at) ==
  FoldSet(LAMBDA t, v : storageDeclareSector(v, at[t], t, FALSE), unreserve(w, allocate, at), allocate)

Using(w, n, existing, allocate, pathType, Body(_, _)) ==
  Then(workerAcquire(w, n, existing, allocate, pathType), LAMBDA o :
    {[x EXCEPT !.w = release(@, allocate, o.at)] : x \in Body(o.w, o.at)})

Has(w, at, t) == t \in DOMAIN w.disk[at[t]]
Write(w, at, t, size) == [w EXCEPT !.disk[at[t]] = With(@, t, size)]
\* The work may fail: in the proofs library or on the disk.
Proofs(w) == Done(w) \union UNION {Failed(v, "failed") : v \in Fault(w)}
Opens(w, at, t) == IF Has(w, at, t) THEN Done(w) ELSE Failed(w, "no file")

workerAddPiece(w, n, first) ==
  IF first
  THEN Using(w, n, {}, {"unsealed"}, "sealing", LAMBDA v, at : Proofs(Write(v, at, "unsealed", SectorSize)))
  ELSE Using(w, n, {"unsealed"}, {}, "sealing", LAMBDA v, at : Then(Opens(v, at, "unsealed"), LAMBDA o : Proofs(o.w)))

\* An empty sealed file and an empty cache directory replace the old ones.
sealPreCommit1(w, n) ==
  Then(remove(w, n, "sealed"), LAMBDA a :
    Then(remove(a.w, n, "cache"), LAMBDA b :
      Using(b.w, n, {"unsealed"}, {"sealed", "cache"}, "sealing", LAMBDA v, at :
        Proofs(Write(Write(v, at, "sealed", SectorSize), at, "cache", overhead("cache", "sealing"))))))

\* sealPreCommit2 and sealCommit1 read the replica and its cache.
onReplica(w, n, types) ==
  Using(w, n, types, {}, "sealing", LAMBDA v, at :
    IF \A t \in types : Has(v, at, t) THEN Proofs(v) ELSE Failed(v, "no file"))
sealPreCommit2(w, n) == onReplica(w, n, {"sealed", "cache"})
sealCommit1(w, n) == onReplica(w, n, {"sealed", "cache"})
proveReplicaUpdate1(w, n) == onReplica(w, n, {"sealed", "cache", "update", "update-cache"})

\* With nothing to keep the unsealed file is not looked at.
freeUnsealed(w, n, keep) ==
  IF keep THEN Using(w, n, {"unsealed"}, {}, "storage", LAMBDA v, at : Done(v)) ELSE Done(w)
clearCache(w, n, t) ==
  Using(w, n, {t}, {}, "storage", LAMBDA v, at :
    IF Has(v, at, t) THEN Proofs(Write(v, at, t, overhead(t, "storage"))) ELSE Failed(v, "no file"))
finalizeSector(w, n, keep) ==
  Then(freeUnsealed(w, n, keep), LAMBDA a :
    Then(clearCache(a.w, n, "cache"), LAMBDA b :
      IF keep THEN Done(b.w) ELSE remove(b.w, n, "unsealed")))

\* A leftover update cache is removed, and then the wrong directory is made,
\* which exists already: the call fails, and the next one finds no leftover.
replicaUpdate(w, n) ==
  Using(w, n, {"unsealed", "sealed", "cache"}, {"update", "update-cache"}, "sealing", LAMBDA v, at :
    IF ~ Has(v, at, "sealed") THEN Failed(v, "no file")
    ELSE LET resized == Write(v, at, "update", v.disk[at["sealed"]]["sealed"]) IN
         IF Has(v, at, "update-cache")
         THEN Failed([resized EXCEPT !.disk[at["update-cache"]] = Without(@, "update-cache")], "cannot create")
         ELSE Proofs(Write(resized, at, "update-cache", overhead("update-cache", "sealing"))))

\* The ranges still to unseal may be none; else sealed and cache are needed,
\* and copies of them that are not primary are removed at the end.
unsealRanges(w, n) ==
  Done(w) \union
  Then(Using(w, n, {"sealed", "cache"}, {}, "storage", LAMBDA v, at :
         IF Has(v, at, "sealed") THEN Proofs(v) ELSE Failed(v, "no file")), LAMBDA o : {[o EXCEPT !.at = "unsealed" :> ""]})
unsealPiece(w, n) ==
  LET old == Using(w, n, {"unsealed"}, {}, "storage", LAMBDA v, at :
               Then(Opens(v, at, "unsealed"), LAMBDA o : unsealRanges(o.w, n)))
      new == Using(w, n, {}, {"unsealed"}, "storage", LAMBDA v, at :
               Then(Done(Write(v, at, "unsealed", SectorSize)), LAMBDA o : unsealRanges(o.w, n)))
  IN Then(UNION {IF o.error = "not found" THEN new ELSE {o} : o \in old}, LAMBDA o :
       IF o.at = Empty THEN Done(o.w)
       ELSE Then(removeCopies(o.w, n, "sealed"), LAMBDA a : removeCopies(a.w, n, "cache")))

readUnsealed(w, n) ==
  Using(w, n, {"unsealed"}, {}, "storage", LAMBDA v, at : Proofs(v))
fetch(w, n, types, pathType, mode) == acquireSector(w, n, types, {}, pathType, mode)

-----------------------------------------------------------------------------
(***************************************************************************)
(* ManagerImpl: every call locks the files it reads and the files it       *)
(* writes, is given to a worker that its selector accepts, has the worker  *)
(* fetch the files (the result of the fetch is not looked at) and then do  *)
(* the work.  finalizeSector and readPiece schedule a second task under    *)
(* the same lock.  The calls come in the order in which the sealing        *)
(* machine makes them; a failed call may be made again.                    *)
(***************************************************************************)

CONSTANTS
  Tasks,        \* the task types each node supports
  ManagerCalls, \* the calls made
  MaxFaults, MaxCalls, MaxRestarts

VARIABLES
  smWorld,    \* index and disks
  smOps,      \* calls under way, each with its lock
  smDone,     \* calls that succeeded, in the life of the sector so far
  smMade,     \* files that calls have made and no call has removed
  smCount,    \* calls made
  smRestarts

smVars == <<smWorld, smOps, smDone, smMade, smCount, smRestarts>>

S == "sealed"
C == "cache"
U == "unsealed"
Replica == {S, C}
Updated == {"update", "update-cache"}

\* Selectors, for node n: the file types are looked for, or placed, together.
existingSelector(n, types, allowFetch) ==
  storageFindSector(smWorld, types, allowFetch) \intersect opened(smWorld, n) # {}
allocateSelector(n, types, pathType) ==
  storageBestAlloc(smWorld, types, pathType) \intersect opened(smWorld, n) # {}

\* Whether an unsealed file is known, when the call is made; the files to
\* finalize go to a storage path unless a store of the sealed file can seal.
knownUnsealed(w) == IF storageFindSector(w, {U}, FALSE) = {} THEN {} ELSE {U}
finalPath(w) == IF storageFindSector(w, {S}, FALSE) \intersect CanSeal # {} THEN "sealing" ELSE "storage"

\* A scheduled task: the nodes its selector accepts, and what they fetch first.
Task(task, selects(_), fetched, pathType, mode) ==
  [task |-> task, select |-> {n \in Nodes : selects(n) /\ task \in Tasks[n]},
   fetch |-> fetched, path |-> pathType, mode |-> mode]
Locking(read, write, tasks) == [read |-> read, write |-> write, tasks |-> tasks]

\* Each method of the manager: the files it locks and the tasks it schedules.
addPieceCall(op) ==
  Locking({}, {U}, <<Task("AddPiece", LAMBDA n : IF op.first THEN allocateSelector(n, {U}, "sealing")
                                                 ELSE existingSelector(n, {U}, FALSE), {}, "sealing", "move")>>)
sealPreCommit1Call(op) ==
  Locking({U}, Replica, <<Task("PreCommit1", LAMBDA n : allocateSelector(n, Replica, "sealing"), {U}, "sealing", "move")>>)
sealPreCommit2Call(op) ==
  Locking({S}, {C}, <<Task("PreCommit2", LAMBDA n : existingSelector(n, Replica, TRUE), Replica, "sealing", "move")>>)
sealCommit1Call(op) ==
  Locking({S}, {C}, <<Task("Commit1", LAMBDA n : existingSelector(n, Replica, FALSE), Replica, "sealing", "move")>>)
sealCommit2Call(op) ==
  Locking({}, {}, <<Task("Commit2", LAMBDA n : TRUE, {}, "sealing", "move")>>)
replicaUpdateCall(op) ==
  Locking({U, S, C}, Updated,
    <<Task("ReplicaUpdate", LAMBDA n : allocateSelector(n, Updated, "sealing"), {U, S, C}, "sealing", "copy")>>)
proveReplicaUpdate1Call(op) ==
  LET all == Replica \union Updated IN
  Locking(all, {}, <<Task("ProveUpdate1", LAMBDA n : existingSelector(n, all, FALSE), all, "sealing", "copy")>>)
proveReplicaUpdate2Call(op) ==
  Locking({}, {}, <<Task("ProveUpdate2", LAMBDA n : TRUE, {}, "sealing", "copy")>>)

\* Mutant: the files that are finalized are not moved to a storage path.
finalizeSectorInnerStaying(op, types) ==
  Locking({}, types \union {U},
    << Task("Finalize", LAMBDA n : existingSelector(n, types, FALSE), types \union op.unsealed, op.path, "move") >>)

finalizeSectorInner(op, types) ==
  Locking({}, types \union {U},
    << Task("Finalize", LAMBDA n : existingSelector(n, types, FALSE), types \union op.unsealed, op.path, "move"),
       Task("Fetch", LAMBDA n : allocateSelector(n, types, "storage"),
            types \union (IF op.keep THEN op.unsealed ELSE {}), "storage", "move") >>)

finalizeSectorCall(op) == finalizeSectorInner(op, Replica)
finalizeReplicaUpdateCall(op) == finalizeSectorInner(op, Replica \union Updated)

\* Unseal if need be, then read, under one lock.
readPieceCall(op) ==
  Locking(Replica, {U},
    << Task("Unseal", LAMBDA n : IF op.unsealed = {} THEN allocateSelector(n, {U}, "sealing")
                                 ELSE existingSelector(n, {U}, FALSE),
            Replica \union op.unsealed, "sealing", "copy"),
       Task("ReadUnsealed", LAMBDA n : existingSelector(n, {U}, FALSE), {U}, "sealing", "move") >>)
removeCall(op) == Locking({}, Types, <<>>)
releaseReplicaUpgradeCall(op) == Locking({}, Updated, <<>>)
releaseSectorKeyCall(op) == Locking({}, {S}, <<>>)

plan(op) ==
  CASE op.call = "AddPiece" -> addPieceCall(op)
    [] op.call = "PreCommit1" -> sealPreCommit1Call(op)
    [] op.call = "PreCommit2" -> sealPreCommit2Call(op)
    [] op.call = "Commit1" -> sealCommit1Call(op)
    [] op.call = "Commit2" -> sealCommit2Call(op)
    [] op.call = "ReplicaUpdate" -> replicaUpdateCall(op)
    [] op.call = "ProveUpdate1" -> proveReplicaUpdate1Call(op)
    [] op.call = "ProveUpdate2" -> proveReplicaUpdate2Call(op)
    [] op.call = "Finalize" -> finalizeSectorCall(op)
    [] op.call = "FinalizeUpdate" -> finalizeReplicaUpdateCall(op)
    [] op.call = "ReadPiece" -> readPieceCall(op)
    [] op.call = "Remove" -> removeCall(op)
    [] op.call = "ReleaseUpgrade" -> releaseReplicaUpgradeCall(op)
    [] op.call = "ReleaseKey" -> releaseSectorKeyCall(op)

canLockWith(l, m) == l.write \intersect (m.read \union m.write) = {} /\ m.write \intersect l.read = {}
canLock(op) == \A other \in smOps : canLockWith(plan(op), plan(other))

work(op, w) ==
  LET n == op.node IN
  CASE op.call = "AddPiece" -> workerAddPiece(w, n, op.first)
    [] op.call = "PreCommit1" -> sealPreCommit1(w, n)
    [] op.call = "PreCommit2" -> sealPreCommit2(w, n)
    [] op.call = "Commit1" -> sealCommit1(w, n)
    [] op.call \in {"Commit2", "ProveUpdate2"} -> Proofs(w)
    [] op.call = "ReplicaUpdate" -> replicaUpdate(w, n)
    [] op.call = "ProveUpdate1" -> proveReplicaUpdate1(w, n)
    [] op.call \in {"Finalize", "FinalizeUpdate"} ->
         IF op.task = 1 THEN finalizeSector(w, n, op.keep)
         ELSE moveStorage(w, n, plan(op).tasks[2].fetch)
    [] op.call = "ReadPiece" -> IF op.task = 1 THEN unsealPiece(w, n) ELSE readUnsealed(w, n)

-----------------------------------------------------------------------------
\* What the sealing machine has done before it makes the call.
Before(call) ==
  CASE call = "AddPiece" -> {}
    [] call = "PreCommit1" -> {"AddPiece"}
    [] call = "PreCommit2" -> {"PreCommit1"}
    [] call = "Commit1" -> {"PreCommit2"}
    [] call = "Commit2" -> {"Commit1"}
    [] call \in {"Finalize", "Remove"} -> {"Commit1"}
    [] call = "ReadPiece" -> {"Finalize"}
    [] call = "ReplicaUpdate" -> {"Finalize", "AddPiece"}
    [] call = "ProveUpdate1" -> {"ReplicaUpdate"}
    [] call \in {"ProveUpdate2", "FinalizeUpdate", "ReleaseUpgrade"} -> {"ProveUpdate1"}
    [] call = "ReleaseKey" -> {"FinalizeUpdate"}
TooLate(call) ==
  CASE call = "AddPiece" -> {"ReplicaUpdate"} \union IF "AddPiece" \in smDone THEN {"PreCommit1"} ELSE {}
    [] call = "PreCommit1" -> {"Commit1", "Finalize"}
    [] call \in {"PreCommit2", "Commit1", "Commit2"} -> {"Finalize"}
    [] call \in {"ReplicaUpdate", "ProveUpdate1", "ReleaseUpgrade"} -> {"FinalizeUpdate"}
    [] call = "Remove" -> {"Remove"}
    [] OTHER -> {call}

\* The files a successful call leaves, and those a call sets out to remove.
makes(call) ==
  CASE call = "AddPiece" -> {U} [] call = "PreCommit1" -> Replica
    [] call = "ReplicaUpdate" -> Updated [] OTHER -> {}
removes(call, keep) ==
  CASE call \in {"Finalize", "FinalizeUpdate"} -> IF keep THEN {} ELSE {U}
    [] call = "PreCommit1" -> Replica [] call \in {"ReplicaUpdate", "ReleaseUpgrade"} -> Updated
    [] call = "ReleaseKey" -> {S} [] call = "Remove" -> Types [] OTHER -> {}

Call(call, keep) ==
  /\ smCount < MaxCalls
  /\ Before(call) \subseteq smDone /\ TooLate(call) \intersect smDone = {} /\ "Remove" \notin smDone
  /\ \A op \in smOps : op.call = "ReadPiece"
  /\ LET op == [call |-> call, keep |-> keep, first |-> call = "AddPiece" /\ "AddPiece" \notin smDone,
                task |-> 1, step |-> "queued", node |-> MinerNode,
                unsealed |-> knownUnsealed(smWorld), path |-> finalPath(smWorld)]
     IN canLock(op) /\ smOps' = smOps \union {op}
  /\ smMade' = smMade \ removes(call, keep)
  /\ smCount' = smCount + 1
  /\ UNCHANGED <<smWorld, smDone, smRestarts>>

Answer(op, ok) ==
  /\ smOps' = smOps \ {op}
  /\ smDone' = IF ok THEN smDone \union {op.call} ELSE smDone
  /\ smMade' = smMade \union IF ok THEN makes(op.call) ELSE {}

\* remove tries every type; releaseReplicaUpgrade and releaseSectorKey stop at
\* the first error.
RemoveFiles(op) ==
  /\ plan(op).tasks = <<>>
  /\ \E o \in IF op.call = "Remove"
              THEN FoldLeft(LAMBDA os, t : UNION {remove(x.w, MinerNode, t) : x \in os}, Done(smWorld), kSectorFileTypes)
              ELSE IF op.call = "ReleaseKey" THEN remove(smWorld, MinerNode, S)
              ELSE Then(remove(smWorld, MinerNode, "update-cache"), LAMBDA x : remove(x.w, MinerNode, "update")) :
       smWorld' = o.w /\ Answer(op, o.error = "")
  /\ UNCHANGED <<smCount, smRestarts>>

\* maybeScheduleRequest: a node its selector accepts, or kNotFoundWorker.
Assign(op) ==
  /\ op.step = "queued" /\ plan(op).tasks # <<>>
  /\ IF plan(op).tasks[op.task].select = {} THEN Answer(op, FALSE)
     ELSE \E n \in plan(op).tasks[op.task].select :
            /\ smOps' = (smOps \ {op}) \union {[op EXCEPT !.step = "fetch", !.node = n]}
            /\ UNCHANGED <<smDone, smMade>>
  /\ UNCHANGED <<smWorld, smCount, smRestarts>>

\* Worker::fetch; a worker whose call throws is never heard of again.
Fetch(op) ==
  LET t == plan(op).tasks[op.task] IN
  /\ op.step = "fetch"
  /\ \E o \in IF t.fetch = {} THEN Done(smWorld) ELSE fetch(smWorld, op.node, t.fetch, t.path, t.mode) :
       /\ smWorld' = o.w
       /\ smOps' = (smOps \ {op}) \union {[op EXCEPT !.step = IF o.error = "throws" THEN "lost" ELSE "work"]}
  /\ UNCHANGED <<smDone, smMade, smCount, smRestarts>>

Work(op) ==
  /\ op.step = "work"
  /\ \E o \in work(op, smWorld) :
       /\ smWorld' = o.w
       /\ IF o.error = "" /\ op.task < Len(plan(op).tasks)
          THEN /\ smOps' = (smOps \ {op}) \union {[op EXCEPT !.task = @ + 1, !.step = "queued"]}
               /\ UNCHANGED <<smDone, smMade>>
          ELSE IF o.error = "throws"
          THEN /\ smOps' = (smOps \ {op}) \union {[op EXCEPT !.step = "lost"]}
               /\ UNCHANGED <<smDone, smMade>>
          ELSE Answer(op, o.error = "")
  /\ UNCHANGED <<smCount, smRestarts>>

\* LocalStoreImpl's timer, or a path whose file system gives no answer.
ReportHealth(n) ==
  /\ smWorld' \in {reportHealth(smWorld, n)}
       \union {[v EXCEPT !.known = [p \in DOMAIN @ |-> IF p \in opened(v, n) THEN -1 ELSE @[p]]] : v \in Fault(smWorld)}
  /\ UNCHANGED <<smOps, smDone, smMade, smCount, smRestarts>>

\* The miner starts again: an empty index, in which its own paths are opened.
MinerRestarts ==
  /\ smRestarts < MaxRestarts
  /\ \A op \in smOps : op.node = MinerNode
  /\ smWorld' = FoldSet(LAMBDA p, w : openPath(w, p),
       [smWorld EXCEPT !.known = Empty, !.decl = [t \in Types |-> <<>>], !.open = @ \ pathsOf(MinerNode),
                       !.reserved = [p \in Paths |-> IF NodeOf[p] = MinerNode THEN Empty ELSE @[p]]],
       pathsOf(MinerNode))
  /\ smOps' = {}
  /\ smRestarts' = smRestarts + 1
  /\ UNCHANGED <<smDone, smMade, smCount>>

\* A worker starts (again) and opens its paths in the miner's index.
WorkerStarts(n) ==
  /\ n # MinerNode /\ pathsOf(n) \ DOMAIN smWorld.known # {}
  /\ \A op \in smOps : op.node # n
  /\ smWorld' = FoldSet(LAMBDA p, w : openPath(w, p),
       [smWorld EXCEPT !.reserved = [p \in Paths |-> IF NodeOf[p] = n THEN Empty ELSE @[p]]], pathsOf(n))
  /\ UNCHANGED <<smOps, smDone, smMade, smCount, smRestarts>>

\* A new sector, or one that was sealed without deals and is to be upgraded: it
\* has one call less, or no restart.
SmInit ==
  /\ \E committed \in BOOLEAN, home \in CanStore :
       /\ smDone = IF committed THEN {"PreCommit1", "PreCommit2", "Commit1", "Finalize"} \intersect ManagerCalls ELSE {}
       /\ committed => NodeOf[home] = MinerNode
       /\ smMade = IF committed THEN Replica ELSE {}
       /\ smCount \in IF committed THEN {0, 1} ELSE {0}
       /\ smRestarts = IF committed /\ smCount = 0 THEN MaxRestarts ELSE 0
       /\ smWorld = FoldSet(LAMBDA p, w : openPath(w, p),
            [known |-> Empty, decl |-> [t \in Types |-> <<>>], open |-> {}, stray |-> {}, faults |-> MaxFaults,
             disk |-> [p \in Paths |-> IF committed /\ p = home
                                      THEN [t \in Replica |-> overhead(t, "storage")] ELSE Empty],
             reserved |-> [p \in Paths |-> Empty]], pathsOf(MinerNode))
  /\ smOps = {}

SmNext ==
  \/ \E call \in ManagerCalls, keep \in BOOLEAN : (keep => call \in {"Finalize", "FinalizeUpdate"}) /\ Call(call, keep)
  \/ \E op \in smOps : RemoveFiles(op) \/ Assign(op) \/ Fetch(op) \/ Work(op)
  \/ \E n \in Nodes : ReportHealth(n) \/ WorkerStarts(n)
  \/ MinerRestarts

SmSpec == SmInit /\ [][SmNext]_smVars
-----------------------------------------------------------------------------
SmTypeOK ==
  /\ DOMAIN smWorld.known \subseteq Paths /\ smWorld.open \subseteq Paths
  /\ \A p \in Paths : DOMAIN smWorld.disk[p] \subseteq Types /\ DOMAIN smWorld.reserved[p] \subseteq Types
  /\ \A t \in Types : ids(smWorld, t) \subseteq Paths
  /\ smMade \subseteq Types /\ smDone \subseteq ManagerCalls

-----------------------------------------------------------------------------
\* A file that a call has made is on some disk until a call removes it: no
\* move between nodes or paths, no fetch cut short, no removal of copies and
\* no restart loses the last copy (fetch, delete and declare in
\* RemoteStoreImpl::acquireSector, moveStorage, removeCopies).
CopyRemains ==
  \A t \in smMade : \E p \in Paths : t \in DOMAIN smWorld.disk[p]

\* Space stays reserved only while a call is under way, whichever way earlier
\* calls ended (LocalStoreImpl::reserve, the release functions).
NothingStaysReserved ==
  (\A op \in smOps : op.step = "queued") => \A p \in Paths : smWorld.reserved[p] = Empty

\* A file on an open path is declared in the index, so that it can be found,
\* except where a rename failed after the declaration was dropped.
FilesAreDeclared ==
  \A p \in DOMAIN smWorld.known : \A t \in DOMAIN smWorld.disk[p] :
    p \in ids(smWorld, t) \/ <<p, t>> \in smWorld.stray

checkProvable(w) ==
  \A f \in localFind(w, MinerNode, Replica) :
    \A t \in Replica : t \in DOMAIN f /\ t \in DOMAIN w.disk[f[t]] /\ (t = S => w.disk[f[t]][t] = SectorSize)

\* Once finalizeSector has succeeded, checkProvable finds the replica and its
\* cache on the miner, where the proofs of spacetime are made, as long as the
\* sector is not upgraded (finalizeReplicaUpdate takes the replica to the node
\* that finalizes it first).
FinalizedIsProvable ==
  (/\ "Finalize" \in smDone /\ {"Remove", "ReplicaUpdate"} \intersect smDone = {}
   /\ \A op \in smOps : plan(op).write \intersect Replica = {}) => checkProvable(smWorld)
=============================================================================
