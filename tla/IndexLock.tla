----------------------------- MODULE IndexLock ------------------------------
(***************************************************************************)
(* The reader-writer locks on sector files behind                          *)
(* SectorIndex::storageLock and storageTryLock                             *)
(* (core/sector_storage/stores/impl/index_lock.cpp).                       *)
(*                                                                         *)
(* IndexLock keeps a map from SectorId to a reference-counted entry.       *)
(* lock() takes two mutexes one after the other: the map's, to find or     *)
(* create the entry and count itself in, then the entry's, to test and     *)
(* update the reader counters and the writer mask.  Between the two it     *)
(* holds only a C++ reference to the entry.  Each critical section is one  *)
(* action here.  unlock() holds the map's mutex from its first to its last *)
(* statement, so it is one action.                                         *)
(***************************************************************************)
EXTENDS Naturals, FiniteSets

CONSTANTS
  Locks,        \* Lock objects; each is locked once and destroyed
  SectorIds,
  FileTypes,    \* the bits of SectorFileType
  LockSector, LockRead, LockWrite,  \* the const members of each Lock
  Waits         \* the Locks made by storageLock (the others: storageTryLock)

ASSUME LocksAssumption ==
  /\ IsFiniteSet(Locks)
  /\ LockSector \in [Locks -> SectorIds]
  /\ LockRead \in [Locks -> SUBSET FileTypes]
  /\ LockWrite \in [Locks -> SUBSET FileTypes]
  /\ Waits \subseteq Locks

VARIABLES
  sectors,  \* IndexLock::sectors, the map from SectorId to entry
  pc,       \* where the call of lock() for each Lock object stands
  leaked    \* history: per sector, failed storageTryLock calls so far

lockVars == <<sectors, pc, leaked>>

Entry == [read: [FileTypes -> Nat], write: SUBSET FileTypes, refs: Nat]

NewEntry == [read |-> [f \in FileTypes |-> 0], write |-> {}, refs |-> 0]

(***************************************************************************)
(* "new": lock() not called; "counted": between the two mutexes, or woken  *)
(* and about to test again; "asleep": in cv.wait; "held": lock() returned  *)
(* true; "done": lock() returned false, or unlocked.                       *)
(***************************************************************************)
LockStages == {"new", "counted", "asleep", "held", "done"}

(***************************************************************************)
(* The entry reference that lock() and unlock() use while l is in one of   *)
(* these stages must not dangle.                                           *)
(***************************************************************************)
Using(s) == {l \in Locks : LockSector[l] = s /\ pc[l] \in {"counted", "asleep", "held"}}

\* Mutant: the test for readers of the files to write is dropped.
canLockIgnoringReaders(l) ==
  (LockRead[l] \cup LockWrite[l]) \cap sectors[LockSector[l]].write = {}

canLock(l) ==
  LET e == sectors[LockSector[l]] IN
  /\ (LockRead[l] \cup LockWrite[l]) \cap e.write = {}
  /\ \A f \in LockWrite[l] : e.read[f] = 0

(***************************************************************************)
(* What lock() and unlock() do to an entry: count a reference, grant l,    *)
(* release l with its reference.                                           *)
(***************************************************************************)
Referenced(e) == [read |-> e.read, write |-> e.write, refs |-> e.refs + 1]

Granted(l, e) ==
  [read  |-> [f \in FileTypes |-> IF f \in LockRead[l] THEN e.read[f] + 1 ELSE e.read[f]],
   write |-> e.write \cup LockWrite[l],
   refs  |-> e.refs]

\* Mutant: every reader counter goes down, whatever l reads.
ReleasedEveryFile(l, e) ==
  [read  |-> [f \in FileTypes |-> e.read[f] - 1],
   write |-> e.write \ LockWrite[l],
   refs  |-> e.refs - 1]

Released(l, e) ==
  [read  |-> [f \in FileTypes |-> IF f \in LockRead[l] THEN e.read[f] - 1 ELSE e.read[f]],
   write |-> e.write \ LockWrite[l],
   refs  |-> e.refs - 1]

LockInit ==
  /\ sectors = [s \in {} |-> NewEntry]
  /\ pc = [l \in Locks |-> "new"]
  /\ leaked = [s \in SectorIds |-> 0]

(***************************************************************************)
(* lock() with the map's mutex: sectors[lock.sector] creates the entry     *)
(* when there is none.  A Lock on no file at all fails at once.            *)
(***************************************************************************)
FindOrCreate(s) == IF s \in DOMAIN sectors THEN sectors[s] ELSE NewEntry

CountIn(l) ==
  LET s == LockSector[l]
  IN /\ pc[l] = "new"
     /\ LockRead[l] \cup LockWrite[l] # {}
     /\ sectors' = [t \in DOMAIN sectors \cup {s} |->
                      IF t = s THEN Referenced(FindOrCreate(s)) ELSE sectors[t]]
     /\ pc' = [pc EXCEPT ![l] = "counted"]
     /\ UNCHANGED leaked

LockNothing(l) ==
  /\ pc[l] = "new"
  /\ LockRead[l] \cup LockWrite[l] = {}
  /\ pc' = [pc EXCEPT ![l] = "done"]
  /\ UNCHANGED <<sectors, leaked>>

(***************************************************************************)
(* lock() with the entry's mutex: one turn of its loop.                    *)
(***************************************************************************)
Acquire(l) ==
  /\ pc[l] = "counted"
  /\ canLock(l)
  /\ sectors' = [sectors EXCEPT ![LockSector[l]] = Granted(l, @)]
  /\ pc' = [pc EXCEPT ![l] = "held"]
  /\ UNCHANGED leaked

Sleep(l) ==
  /\ pc[l] = "counted"
  /\ ~canLock(l)
  /\ l \in Waits
  /\ pc' = [pc EXCEPT ![l] = "asleep"]
  /\ UNCHANGED <<sectors, leaked>>

\* storageTryLock does not wait; it leaves its reference counted.
GiveUp(l) ==
  /\ pc[l] = "counted"
  /\ ~canLock(l)
  /\ l \notin Waits
  /\ pc' = [pc EXCEPT ![l] = "done"]
  /\ leaked' = [leaked EXCEPT ![LockSector[l]] = @ + 1]
  /\ UNCHANGED sectors

\* condition_variable::wait may return without a notification.
SpuriousWakeup(l) ==
  /\ pc[l] = "asleep"
  /\ pc' = [pc EXCEPT ![l] = "counted"]
  /\ UNCHANGED <<sectors, leaked>>

\* Mutant: the entry is erased although others are counted in it.
unlockErasing(l) ==
  LET s == LockSector[l] IN
  /\ pc[l] = "held"
  /\ sectors' = [t \in DOMAIN sectors \ {s} |-> sectors[t]]
  /\ pc' = [m \in Locks |->
              IF m = l THEN "done"
              ELSE IF pc[m] = "asleep" /\ LockSector[m] = s THEN "counted"
              ELSE pc[m]]
  /\ UNCHANGED leaked

\* Mutant: notify_all is forgotten.
unlockSilent(l) ==
  LET s == LockSector[l]
      e == Released(l, sectors[s])
  IN /\ pc[l] = "held"
     /\ sectors' = [t \in IF e.refs = 0 THEN DOMAIN sectors \ {s} ELSE DOMAIN sectors |->
                      IF t = s THEN e ELSE sectors[t]]
     /\ pc' = [pc EXCEPT ![l] = "done"]
     /\ UNCHANGED leaked

(***************************************************************************)
(* ~Lock, which calls unlock(): counters down, notify_all, and the entry   *)
(* is erased when nobody references it.                                    *)
(***************************************************************************)
unlock(l) ==
  LET s == LockSector[l]
      e == Released(l, sectors[s])
  IN /\ pc[l] = "held"
     /\ sectors' = [t \in IF e.refs = 0 THEN DOMAIN sectors \ {s} ELSE DOMAIN sectors |->
                      IF t = s THEN e ELSE sectors[t]]
     /\ pc' = [m \in Locks |->
                 IF m = l THEN "done"
                 ELSE IF pc[m] = "asleep" /\ LockSector[m] = s THEN "counted"
                 ELSE pc[m]]
     /\ UNCHANGED leaked

LockNext == \E l \in Locks :
  \/ CountIn(l) \/ LockNothing(l)
  \/ Acquire(l) \/ Sleep(l) \/ GiveUp(l)
  \/ SpuriousWakeup(l)
  \/ unlock(l)

LockSpec == LockInit /\ [][LockNext]_lockVars

(***************************************************************************)
(* A thread inside lock() keeps running, and every granted Lock is         *)
(* destroyed at last (it is a RAII guard).  Nobody has to call lock().     *)
(***************************************************************************)
LockFairness == \A l \in Locks :
  WF_lockVars(Acquire(l)) /\ WF_lockVars(Sleep(l)) /\ WF_lockVars(GiveUp(l)) /\ WF_lockVars(unlock(l))

-----------------------------------------------------------------------------
Held(s) == {l \in Locks : LockSector[l] = s /\ pc[l] = "held"}

Readers(s, f) == {l \in Held(s) : f \in LockRead[l]}

\* The map holds well-formed entries and every call is in a known stage.
LockTypeOK ==
  /\ DOMAIN sectors \subseteq SectorIds
  /\ sectors \in [DOMAIN sectors -> Entry]
  /\ pc \in [Locks -> LockStages]
  /\ leaked \in [SectorIds -> Nat]

(***************************************************************************)
(* The counters and the writer mask of an entry are exactly what the       *)
(* granted Locks on that sector ask for: lock() and unlock() never drift.  *)
(***************************************************************************)
CountersMatchHolders ==
  \A s \in DOMAIN sectors :
    /\ \A f \in FileTypes : sectors[s].read[f] = Cardinality(Readers(s, f))
    /\ sectors[s].write = UNION {LockWrite[l] : l \in Held(s)}

(***************************************************************************)
(* An entry lives exactly as long as somebody is counted in it, so the     *)
(* reference lock() keeps across its two critical sections never dangles;  *)
(* its count is the number of users plus one for every storageTryLock that *)
(* failed (lock() returns false without --refs, so such an entry is never  *)
(* erased again).                                                          *)
(***************************************************************************)
RefsMatchUsers ==
  \A s \in SectorIds :
    LET users == Cardinality(Using(s)) + leaked[s] IN
    IF s \in DOMAIN sectors THEN sectors[s].refs = users /\ users > 0
                            ELSE users = 0

(***************************************************************************)
(* No lost wakeup: whoever is blocked in cv.wait could not lock even if it *)
(* tested again now, so unlock()'s notify_all is the only one needed.      *)
(***************************************************************************)
NoLostWakeup == \A l \in Locks : pc[l] = "asleep" => ~canLock(l)

(***************************************************************************)
(* The map of entries and the sleepers of the locks are sound: both of the *)
(* above, whatever order lock() and unlock() of any threads take.          *)
(***************************************************************************)
LocksAreSound == RefsMatchUsers /\ NoLostWakeup

(***************************************************************************)
(* IndexLock grants and releases exactly as SectorLock says.               *)
(***************************************************************************)
Abs == INSTANCE SectorLock WITH granted <- {l \in Locks : pc[l] = "held"}

\* No two granted Locks of one sector conflict on a file.
Exclusion ==
  \A l, m \in Locks : l # m /\ pc[l] = "held" /\ pc[m] = "held" => ~Abs!Conflict(l, m)

\* Every grant and release by lock() and unlock() is one SectorLock allows.
ImplementsSectorLock == Abs!Spec

(***************************************************************************)
(* A storageLock call that has begun is granted at last: the loop around   *)
(* cv.wait and the notify_all in unlock() leave no waiter behind once the  *)
(* Locks it conflicts with are gone.                                       *)
(***************************************************************************)
WaitersGetIn == \A l \in Waits : pc[l] = "counted" ~> pc[l] = "held"
=============================================================================
