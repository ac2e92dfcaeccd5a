CONSTANTS
  EngineParts = {"sched"}
  l1 = l1  l2 = l2  l3 = l3  l4 = l4  l5 = l5  l6 = l6
  s1 = s1  s2 = s2
  f1 = f1  f2 = f2
  Locks <- MCLocks
  SectorIds = {s1, s2}
  FileTypes = {f1, f2}
  LockSector <- MCSector
  LockRead <- MCRead
  LockWrite <- MCWrite
  Waits <- MCWaits
  k1 = k1  k2 = k2  p = p  id = id  w1 = w1  w2 = w2  NoId = NoId
  Requests <- MCRequests
  WorkId <- MCWorkId
  HasPrepare = {k1, p}
  Need <- MCNeed
  Workers <- MCWorkers
  Capacity <- MCCapacity
  Sel <- MCSel
  Remote = {w1}
  Duplicates = TRUE
  MaxCrashes = 0
  a = a  b = b
  Sends <- MCSends
  Entities = {a, b}
  EntityOf <- MCEntityOf
  Events = {"START", "STOP", "FORCE"}
  EventOf <- MCEventOf
  States = {"READY", "WORKING", "STOPPED", "FORCED"}
  InitialState = "READY"
  Rules <- MCRules
  AnyState = "any"
  ForceState = "FORCED"
SPECIFICATION EnginesSpec
PROPERTY WorkEnds
CHECK_DEADLOCK FALSE
