----------------------------- MODULE SectorLock -----------------------------
(***************************************************************************)
(* What the sector index promises to the callers of storageLock and        *)
(* storageTryLock: a set of granted Lock objects in which no two conflict. *)
(* A Lock names one sector and two sets of its files (unsealed, sealed,    *)
(* cache, ...): those it reads and those it writes.  Files are locked      *)
(* independently, readers share, a writer is alone.                        *)
(***************************************************************************)
CONSTANTS
  Locks,        \* Lock objects; storageLock makes a new one for every call
  LockSector,   \* LockSector[l]: the sector that l is about
  LockRead,     \* LockRead[l]: the files of it that l reads
  LockWrite     \* LockWrite[l]: the files of it that l writes

VARIABLE granted

(***************************************************************************)
(* Two Locks conflict when they are about one sector and one of them       *)
(* writes a file that the other one reads or writes.                       *)
(***************************************************************************)
Conflict(l, m) ==
  /\ LockSector[l] = LockSector[m]
  /\ \/ LockWrite[l] \cap (LockRead[m] \cup LockWrite[m]) # {}
     \/ LockWrite[m] \cap (LockRead[l] \cup LockWrite[l]) # {}

Init == granted = {}

Grant(l) ==
  /\ l \notin granted
  /\ \A m \in granted : ~Conflict(l, m)
  /\ granted' = granted \cup {l}

Release(l) ==
  /\ l \in granted
  /\ granted' = granted \ {l}

Next == \E l \in Locks : Grant(l) \/ Release(l)

Spec == Init /\ [][Next]_granted
=============================================================================
