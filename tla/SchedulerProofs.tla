-------------------------- MODULE SchedulerProofs ---------------------------
(***************************************************************************)
(* Proofs about Scheduler, for any finite set of requests, any workers and *)
(* any number of restarts: what workers are booked for is what runs on     *)
(* them and, when owners wait for their answers, no work runs twice.       *)
(***************************************************************************)
EXTENDS Scheduler, FiniteSetTheorems, TLAPS

(***************************************************************************)
(* Sums of needs.                                                          *)
(***************************************************************************)

\* A set of requests needs a natural number of units.
LEMMA TotalType ==
  ASSUME NEW S \in SUBSET Requests
  PROVE  IsFiniteSet(Units(S)) /\ Total(S) \in Nat
<1> DEFINE part(r) == {r} \X (1..Need[r])
<1>1. IsFiniteSet(S)
  BY SchedulerAssumption, FS_Subset, Zenon
<1>2. ASSUME NEW r \in S PROVE IsFiniteSet(part(r))
  <2>1. Need[r] \in Int
    BY SchedulerAssumption
  <2>2. IsFiniteSet(1..Need[r])
    BY <2>1, FS_Interval
  <2>3. IsFiniteSet({r})
    BY FS_Singleton, Zenon
  <2> QED
    BY <2>2, <2>3, FS_Product, Zenon
<1>3. IsFiniteSet({part(r) : r \in S})
  <2>1. [r \in S |-> part(r)] \in Surjection(S, {part(r) : r \in S})
    BY Zenon DEF Surjection
  <2> QED
    BY <1>1, <2>1, FS_Surjection, Zenon
<1>4. IsFiniteSet(UNION {part(r) : r \in S})
  BY <1>2, <1>3, FS_UNION, Zenon
<1> QED
  BY <1>4, FS_CardinalityType, Zenon DEF Units, Total

\* No requests need nothing.
LEMMA TotalEmpty == Total({}) = 0
<1>1. Units({}) = {}
  BY Zenon DEF Units
<1> QED
  BY <1>1, FS_EmptySet, Zenon DEF Total

\* Two sets without a common request need the sum of what each needs.
LEMMA TotalDisjoint ==
  ASSUME NEW S \in SUBSET Requests, NEW T \in SUBSET Requests, S \cap T = {}
  PROVE  Total(S \cup T) = Total(S) + Total(T)
<1>1. Units(S \cup T) = Units(S) \cup Units(T)
  BY Zenon DEF Units
<1>2. Units(S) \cap Units(T) = {}
  BY DEF Units
<1>3. IsFiniteSet(Units(S)) /\ IsFiniteSet(Units(T)) /\ Total(S) \in Nat /\ Total(T) \in Nat
  BY TotalType, Zenon
<1>4. Cardinality(Units(S) \cup Units(T))
        = Cardinality(Units(S)) + Cardinality(Units(T)) - Cardinality(Units(S) \cap Units(T))
  BY <1>3, FS_Union, Zenon
<1>5. Cardinality(Units(S) \cap Units(T)) = 0
  BY <1>2, FS_EmptySet, Zenon
<1>6. Total(S \cup T) = Total(S) + Total(T) - 0
  BY <1>1, <1>4, <1>5, Zenon DEF Total
<1> QED
  BY <1>3, <1>6

\* One more request needs its need more.
LEMMA TotalAdd ==
  ASSUME NEW S \in SUBSET Requests, NEW r \in Requests \ S
  PROVE  Total(S \cup {r}) = Total(S) + Need[r]
<1>1. Need[r] \in Nat
  BY SchedulerAssumption, Zenon
<1>2. Units({r}) = {r} \X (1..Need[r])
  BY Zenon DEF Units
<1>3. IsFiniteSet({r}) /\ Cardinality({r}) = 1
  BY FS_Singleton, Zenon
<1>4. IsFiniteSet(1..Need[r]) /\ Cardinality(1..Need[r]) = Need[r]
  BY <1>1, FS_Interval, SMTT(20), Zenon
<1>5. Cardinality({r} \X (1..Need[r])) = Cardinality({r}) * Cardinality(1..Need[r])
  BY <1>3, <1>4, FS_Product, Zenon
<1>6. Total({r}) = 1 * Need[r]
  BY <1>2, <1>3, <1>4, <1>5, Zenon DEF Total
<1>7. Total(S \cup {r}) = Total(S) + Total({r})
  BY TotalDisjoint, Zenon
<1> QED
  BY <1>1, <1>6, <1>7

-----------------------------------------------------------------------------
(***************************************************************************)
(* The inductive invariant.  To balance, a request must go through each    *)
(* stage once: every call is executing, returned or posted, in one of      *)
(* these only, and a callback belongs to the stage its request is in.      *)
(***************************************************************************)

\* The requests at some stages on a worker, and the counter of what they need.
Those(stages, places, kinds, w) == {r \in Requests : stages[r] \in kinds /\ places[r] = w}
Booked(counter, stages, places, kinds) ==
  \A w \in Workers : counter[w] = Total(Those(stages, places, kinds, w))

Placed == Preparing \cup Working \subseteq DOMAIN on

QueuedWait == \A r \in queue : at[r] = "queued"

\* The stages of a request before its call of a kind is made.
Before(kind) == {"idle", "queued", "assigned"} \cup IF kind = "work" THEN {"prepcall", "prepare"} ELSE {}

ResourceTypes ==
  /\ at \in [Requests -> SchedStages]
  /\ DOMAIN on \subseteq Requests /\ \A r \in DOMAIN on : on[r] \in Sel[r]
  /\ preparing \in [Workers -> Nat] /\ active \in [Workers -> Nat] /\ active_jobs \in Nat
  /\ queue \subseteq Requests

Books == ResourceTypes /\ ResourcesBalance /\ Placed /\ QueuedWait

CallTypes ==
  /\ DOMAIN callbacks \subseteq Calls /\ \A c \in DOMAIN callbacks : callbacks[c] \in Callbacks
  /\ results \subseteq Calls /\ calls \subseteq Calls
  /\ posted \subseteq [cb: Callbacks, call: Calls, erase: BOOLEAN]

CalledOnce ==
  /\ \A c \in calls \cup results : at[c[2]] \notin Before(c[1])
  /\ \A p \in posted : at[p.call[2]] \notin Before(p.call[1])
  /\ calls \cap results = {}
  /\ \A p \in posted : p.call \notin calls \cup results
  /\ \A p, q \in posted : p.call = q.call => p = q

CallbackFits(cb, c) ==
  \/ cb[1] = "attached" /\ at[cb[2]] \in {"attached", "done"}
  \/ cb[1] = "prepared" /\ c = prepareCall(cb[2]) /\ at[cb[2]] = "prepare"
  \/ cb[1] = "finish" /\ c = workCall(cb[2]) /\ at[cb[2]] = "work"

CallbacksFit ==
  /\ \A c \in DOMAIN callbacks : CallbackFits(callbacks[c], c)
  /\ \A p \in posted : CallbackFits(p.cb, p.call)
  /\ \A p \in posted : ~p.erase => p.cb[1] # "attached"
  /\ \A p \in posted : ~p.erase /\ p.call \in DOMAIN callbacks => callbacks[p.call][1] = "attached"

CallsInv == CallTypes /\ CalledOnce /\ CallbacksFit

KvType == \A i \in DOMAIN kv : kv[i] \in Calls \cup {Beginning}

SchedIInv == Books /\ CallsInv /\ workers \subseteq Workers /\ KvType

(***************************************************************************)
(* And when owners wait for their answers: one request of an id is under   *)
(* way at a time, and the record says which call works for it.             *)
(***************************************************************************)
Live(r) == at[r] \notin {"idle", "refused", "done", "lost"}

OneLive ==
  \A q, r \in Requests : WorkId[q] = WorkId[r] /\ WorkId[r] # NoId /\ Live(q) /\ Live(r) => q = r

\* The record of r's work at each stage.
RecordFits(r) ==
  /\ at[r] \in {"queued", "assigned", "prepcall", "prepare"} => InKv(r) /\ kv[WorkId[r]] = Beginning
  /\ at[r] \in WorkStages =>
       InKv(r) /\ kv[WorkId[r]] = IF on[r] \in Remote THEN workCall(r) ELSE Beginning
  /\ at[r] = "delivering" => InKv(r) /\ kv[WorkId[r]] \in results
  /\ at[r] = "attached" => InKv(r)

RecordsName ==
  \A i \in DOMAIN kv : kv[i] = Beginning \/ \E q \in Requests : kv[i] = workCall(q) /\ WorkId[q] = i

AttachedTo(cb, c) ==
  cb[1] = "attached" => at[cb[2]] = "attached" /\ WorkId[cb[2]] # NoId /\ kv[WorkId[cb[2]]] = c

CallsRecorded ==
  \A r \in Requests : workCall(r) \in calls /\ WorkId[r] # NoId =>
    InKv(r) /\ (kv[WorkId[r]] = workCall(r) \/ at[r] \in WorkStages)

OnceIInv ==
  /\ OneLive /\ RecordsName /\ CallsRecorded
  /\ \A r \in Requests : WorkId[r] # NoId => RecordFits(r)
  /\ \A c \in DOMAIN callbacks : AttachedTo(callbacks[c], c)
  /\ \A p \in posted : AttachedTo(p.cb, p.call)

-----------------------------------------------------------------------------
(***************************************************************************)
(* The books of the workers.                                               *)
(***************************************************************************)

\* The counters balance when each is what the requests at its stages need.
LEMMA BalanceIsBooked ==
  ResourcesBalance <=> /\ Booked(preparing, at, on, PrepareStages)
                       /\ Booked(active, at, on, WorkStages)
                       /\ active_jobs = Cardinality(Working)
<1>1. ASSUME NEW w \in Workers
      PROVE  /\ {r \in Preparing : on[r] = w} = Those(at, on, PrepareStages, w)
             /\ {r \in Working : on[r] = w} = Those(at, on, WorkStages, w)
  BY Zenon DEF Preparing, Working, Those
<1> QED
  BY <1>1, Zenon DEF ResourcesBalance, Booked

\* The same after a step.
LEMMA BookedIsBalance ==
  ASSUME Booked(preparing', at', on', PrepareStages), Booked(active', at', on', WorkStages),
         active_jobs' = Cardinality(Working')
  PROVE  ResourcesBalance'
<1>1. ASSUME NEW w \in Workers PROVE preparing'[w] = Total({r \in Preparing' : on'[r] = w})
  <2>1. {r \in Preparing' : on'[r] = w} = Those(at', on', PrepareStages, w)
    BY Zenon DEF Preparing, Those
  <2> QED
    BY <2>1, Zenon DEF Booked
<1>2. ASSUME NEW w \in Workers PROVE active'[w] = Total({r \in Working' : on'[r] = w})
  <2>1. {r \in Working' : on'[r] = w} = Those(at', on', WorkStages, w)
    BY Zenon DEF Working, Those
  <2> QED
    BY <2>1, Zenon DEF Booked
<1> QED
  BY <1>1, <1>2, Zenon DEF ResourcesBalance

\* A request that stays at its stage, or gets a worker.
Advance(q) == at'[q] = at[q] \/ (at[q] = "queued" /\ at'[q] = "assigned")

\* freeWorker keeps balanced what its caller left balanced.
LEMMA FreeKeepsBooks ==
  ASSUME ResourceTypes, NEW w \in Workers, NEW prep \in [Workers -> Nat],
         NEW stages \in [Requests -> SchedStages],
         \A r \in queue : stages[r] = "queued",
         \A r \in Requests : stages[r] \in PrepareStages \cup WorkStages => r \in DOMAIN on,
         Booked(prep, stages, on, PrepareStages),
         active' \in [Workers -> Nat], Booked(active', stages, on, WorkStages),
         active_jobs' = Cardinality({r \in Requests : stages[r] \in WorkStages}),
         active_jobs' \in Nat,
         freeWorker(w, prep, stages)
  PROVE  /\ Books'
         /\ \A r \in Requests : at'[r] = stages[r] \/ (stages[r] = "queued" /\ at'[r] = "assigned")
         /\ \A r \in Working' : r \in DOMAIN on /\ on'[r] = on[r]
<1>1. PICK S \in Fills(w, prep) :
        /\ preparing' = [prep EXCEPT ![w] = @ + Total(S)]
        /\ queue' = queue \ S
        /\ on' = [r \in DOMAIN on \cup S |-> IF r \in S THEN w ELSE on[r]]
        /\ at' = [r \in Requests |-> IF r \in S THEN "assigned" ELSE stages[r]]
  BY Zenon DEF freeWorker
<1>2. S \subseteq queue /\ S \in SUBSET Requests /\ (\A r \in S : w \in Sel[r] /\ stages[r] = "queued")
  BY Zenon DEF Fills, ResourceTypes
<1>3. Total(S) \in Nat
  BY <1>2, TotalType, Zenon
<1>4. /\ at' \in [Requests -> SchedStages] /\ DOMAIN on' \subseteq Requests
      /\ (\A r \in DOMAIN on' : on'[r] \in Sel[r]) /\ queue' \subseteq Requests
  BY <1>1, <1>2, Zenon DEF ResourceTypes, SchedStages
<1>5. preparing' \in [Workers -> Nat]
  BY <1>1, <1>3
<1>6. /\ \A r \in Requests : at'[r] \in WorkStages <=> stages[r] \in WorkStages
      /\ \A r \in Requests : stages[r] \in WorkStages \cup PrepareStages => r \notin S /\ on'[r] = on[r]
      /\ \A r \in Requests : at'[r] \in PrepareStages <=> r \in S \/ stages[r] \in PrepareStages
  BY <1>1, <1>2, Zenon DEF WorkStages, PrepareStages
<1>7. ASSUME NEW v \in Workers PROVE preparing'[v] = Total(Those(at', on', PrepareStages, v))
  <2> DEFINE A == Those(stages, on, PrepareStages, v)
  <2>1. A \in SUBSET Requests /\ prep[v] = Total(A)
    BY Zenon DEF Those, Booked
  <2>2. CASE v = w
    <3>1. Those(at', on', PrepareStages, v) = A \cup S
      BY <1>1, <1>2, <1>6, <2>2, Zenon DEF Those
    <3>2. A \cap S = {}
      BY <1>6, Zenon DEF Those
    <3>3. Total(A \cup S) = Total(A) + Total(S)
      BY <1>2, <2>1, <3>2, TotalDisjoint, SMTT(20), Zenon
    <3>4. preparing'[v] = prep[v] + Total(S)
      BY <1>1, <2>2, Zenon
    <3> QED
      BY <2>1, <3>1, <3>3, <3>4, Zenon
  <2>3. CASE v # w
    <3>1. Those(at', on', PrepareStages, v) = A
      BY <1>1, <1>2, <1>6, <2>3, Zenon DEF Those
    <3>2. preparing'[v] = prep[v]
      BY <1>1, <2>3, Zenon
    <3> QED
      BY <2>1, <3>1, <3>2, Zenon
  <2> QED
    BY <2>2, <2>3, Zenon
<1>8. ASSUME NEW v \in Workers PROVE active'[v] = Total(Those(at', on', WorkStages, v))
  <2>1. Those(at', on', WorkStages, v) = Those(stages, on, WorkStages, v)
    BY <1>6, Zenon DEF Those
  <2> QED
    BY <2>1, Zenon DEF Booked
<1>9. Working' = {r \in Requests : stages[r] \in WorkStages}
  BY <1>6, Zenon DEF Working
<1>10. ResourcesBalance'
  BY <1>7, <1>8, <1>9, BookedIsBalance, Zenon DEF Booked
<1>11. Placed'
  BY <1>1, <1>2, <1>6, Zenon DEF Placed, Preparing, Working
<1>12. QueuedWait'
  BY <1>1, <1>2, Zenon DEF QueuedWait, ResourceTypes
<1>13. ResourceTypes'
  BY <1>4, <1>5, Zenon DEF ResourceTypes
<1>14. \A r \in Requests : at'[r] = stages[r] \/ (stages[r] = "queued" /\ at'[r] = "assigned")
  BY <1>1, <1>2, Zenon
<1>15. \A r \in Working' : r \in DOMAIN on /\ on'[r] = on[r]
  BY <1>6, <1>9, Zenon
<1> QED
  BY <1>10, <1>11, <1>12, <1>13, <1>14, <1>15, Zenon DEF Books

\* A step that moves no request to or from a worker leaves the books alone.
LEMMA SameBooks ==
  ASSUME Books, UNCHANGED resourceVars, at' \in [Requests -> SchedStages],
         \A r \in Requests : at'[r] \in PrepareStages <=> at[r] \in PrepareStages,
         \A r \in Requests : at'[r] \in WorkStages <=> at[r] \in WorkStages,
         \A r \in queue : at'[r] = at[r]
  PROVE  Books'
<1>1. Preparing' = Preparing /\ Working' = Working
  BY Zenon DEF Preparing, Working
<1> QED
  BY <1>1, SMTT(20), Zenon DEF Books, ResourceTypes, ResourcesBalance, Placed, QueuedWait, resourceVars

\* Work that starts is booked as active instead of reserved.
LEMMA BeginKeepsBooks ==
  ASSUME Books, NEW r \in Requests, at[r] \in PrepareStages,
         at' = [at EXCEPT ![r] = "workcall"],
         preparing' = [preparing EXCEPT ![on[r]] = @ - Need[r]],
         active' = [active EXCEPT ![on[r]] = @ + Need[r]],
         active_jobs' = active_jobs + 1, UNCHANGED <<queue, on>>
  PROVE  Books'
<1> DEFINE w == on[r]
           P(v) == Those(at, on, PrepareStages, v)
           W(v) == Those(at, on, WorkStages, v)
<1>1. r \in DOMAIN on /\ w \in Workers /\ Need[r] \in Nat
  BY SchedulerAssumption, Zenon DEF Books, Placed, Preparing, ResourceTypes
<1>2. /\ at' \in [Requests -> SchedStages] /\ at'[r] = "workcall"
      /\ \A q \in Requests \ {r} : at'[q] = at[q]
  BY Zenon DEF Books, ResourceTypes, SchedStages
<1>3. ASSUME NEW v \in Workers
      PROVE  /\ P(v) \in SUBSET Requests /\ W(v) \in SUBSET Requests
             /\ Total(P(v)) \in Nat /\ Total(W(v)) \in Nat
             /\ preparing[v] = Total(P(v)) /\ active[v] = Total(W(v))
  <2>1. P(v) \in SUBSET Requests /\ W(v) \in SUBSET Requests
    BY Zenon DEF Those
  <2>2. preparing[v] = Total(P(v)) /\ active[v] = Total(W(v))
    BY BalanceIsBooked, Zenon DEF Books, Booked
  <2> QED
    BY <2>1, <2>2, TotalType, Zenon
<1>4. ASSUME NEW v \in Workers
      PROVE  /\ Those(at', on', PrepareStages, v) = P(v) \ {r}
             /\ Those(at', on', WorkStages, v) = IF v = w THEN W(v) \cup {r} ELSE W(v)
  BY <1>2, Zenon DEF Those, PrepareStages, WorkStages
<1>5. r \in P(w) /\ (\A v \in Workers : r \notin W(v)) /\ (\A v \in Workers \ {w} : r \notin P(v))
  BY Zenon DEF Those, PrepareStages, WorkStages
<1>6. Total(P(w)) = Total(P(w) \ {r}) + Need[r] /\ Total(W(w) \cup {r}) = Total(W(w)) + Need[r]
  <2>1. P(w) \ {r} \in SUBSET Requests /\ r \in Requests \ (P(w) \ {r}) /\ (P(w) \ {r}) \cup {r} = P(w)
    BY <1>1, <1>3, <1>5, Zenon
  <2>2. Total((P(w) \ {r}) \cup {r}) = Total(P(w) \ {r}) + Need[r]
    BY <2>1, TotalAdd, Zenon
  <2>3. Total(W(w) \cup {r}) = Total(W(w)) + Need[r]
    BY <1>1, <1>3, <1>5, TotalAdd, Zenon
  <2> QED
    BY <2>1, <2>2, <2>3, Zenon
<1>7. Total(P(w) \ {r}) \in Nat
  BY <1>1, <1>3, TotalType, Zenon
<1> HIDE DEF P, W
<1>8. ASSUME NEW v \in Workers
      PROVE  preparing'[v] = Total(P(v) \ {r}) /\ preparing'[v] \in Nat
  <2>1. CASE v = w
    <3>1. preparing'[v] = preparing[v] - Need[r]
      BY <2>1, Zenon DEF Books, ResourceTypes
    <3> QED
      BY <1>1, <1>3, <1>6, <1>7, <2>1, <3>1
  <2>2. CASE v # w
    <3>1. preparing'[v] = preparing[v] /\ P(v) \ {r} = P(v)
      BY <1>5, <2>2, SMTT(20), Zenon DEF Books, ResourceTypes
    <3> QED
      BY <1>3, <3>1, Zenon
  <2> QED
    BY <2>1, <2>2, Zenon
<1>9. ASSUME NEW v \in Workers
      PROVE  active'[v] = Total(IF v = w THEN W(v) \cup {r} ELSE W(v)) /\ active'[v] \in Nat
  <2>1. CASE v = w
    <3>1. active'[v] = active[v] + Need[r]
      BY <2>1, Zenon DEF Books, ResourceTypes
    <3> QED
      BY <1>1, <1>3, <1>6, <2>1, <3>1
  <2>2. CASE v # w
    <3>1. active'[v] = active[v]
      BY <2>2, Zenon DEF Books, ResourceTypes
    <3> QED
      BY <1>3, <2>2, <3>1, Zenon
  <2> QED
    BY <2>1, <2>2, Zenon
<1>10. active_jobs' = Cardinality(Working') /\ active_jobs' \in Nat
  <2>1. Working' = Working \cup {r} /\ r \notin Working
    BY <1>2, Zenon DEF Working, WorkStages, PrepareStages
  <2>2. IsFiniteSet(Working)
    BY SchedulerAssumption, FS_Subset, Zenon DEF Working
  <2>3. Cardinality(Working \cup {r}) = Cardinality(Working) + 1
    BY <2>1, <2>2, FS_AddElement, Zenon
  <2> QED
    BY <2>1, <2>3 DEF Books, ResourcesBalance, ResourceTypes
<1>11. ResourcesBalance'
  <2>1. Booked(preparing', at', on', PrepareStages)
    BY <1>4, <1>8, Zenon DEF Booked
  <2>2. Booked(active', at', on', WorkStages)
    BY <1>4, <1>9, Zenon DEF Booked
  <2> QED
    BY <1>10, <2>1, <2>2, BookedIsBalance, Zenon
<1>12. ResourceTypes'
  <2>1. preparing' \in [Workers -> Nat] /\ active' \in [Workers -> Nat]
    BY <1>8, <1>9, Zenon DEF Books, ResourceTypes
  <2> QED
    BY <1>2, <1>10, <2>1, Zenon DEF Books, ResourceTypes
<1>13. Placed'
  BY <1>1, <1>2, Zenon DEF Books, Placed, Preparing, Working
<1>14. QueuedWait'
  BY <1>2, Zenon DEF Books, QueuedWait, ResourceTypes, PrepareStages
<1> QED
  BY <1>11, <1>12, <1>13, <1>14, Zenon DEF Books

\* A request that is answered before its work starts gives its reservation back.
LEMMA RefusedKeepsBooks ==
  ASSUME Books, NEW r \in Requests, at[r] \in PrepareStages,
         freeWorker(on[r], [preparing EXCEPT ![on[r]] = @ - Need[r]], [at EXCEPT ![r] = "done"]),
         UNCHANGED <<active, active_jobs>>
  PROVE  /\ Books' /\ at'[r] = "done" /\ (\A q \in Requests \ {r} : Advance(q))
         /\ \A q \in Working' : q \in DOMAIN on /\ on'[q] = on[q]
<1> DEFINE w == on[r]
           stages == [at EXCEPT ![r] = "done"]
           prep == [preparing EXCEPT ![w] = @ - Need[r]]
           P(v) == Those(at, on, PrepareStages, v)
<1>1. r \in DOMAIN on /\ w \in Workers /\ Need[r] \in Nat /\ ResourceTypes
  BY SchedulerAssumption, Zenon DEF Books, Placed, Preparing, ResourceTypes
<1>2. /\ stages \in [Requests -> SchedStages] /\ stages[r] = "done"
      /\ \A q \in Requests \ {r} : stages[q] = at[q]
  BY <1>1, Zenon DEF ResourceTypes, SchedStages
<1>3. ASSUME NEW v \in Workers
      PROVE  P(v) \in SUBSET Requests /\ preparing[v] = Total(P(v)) /\ Total(P(v)) \in Nat
  <2>1. P(v) \in SUBSET Requests
    BY Zenon DEF Those
  <2>2. preparing[v] = Total(P(v))
    BY BalanceIsBooked, Zenon DEF Books, Booked
  <2> QED
    BY <2>1, <2>2, TotalType, Zenon
<1>4. ASSUME NEW v \in Workers PROVE Those(stages, on, PrepareStages, v) = P(v) \ {r}
  BY <1>2, Zenon DEF Those, PrepareStages
<1>5. r \in P(w) /\ (\A v \in Workers \ {w} : r \notin P(v))
  BY Zenon DEF Those
<1>6. Total(P(w)) = Total(P(w) \ {r}) + Need[r] /\ Total(P(w) \ {r}) \in Nat
  <2>1. P(w) \ {r} \in SUBSET Requests /\ r \in Requests \ (P(w) \ {r}) /\ (P(w) \ {r}) \cup {r} = P(w)
    BY <1>1, <1>3, <1>5, Zenon
  <2>2. Total((P(w) \ {r}) \cup {r}) = Total(P(w) \ {r}) + Need[r]
    BY <2>1, TotalAdd, Zenon
  <2> QED
    BY <2>1, <2>2, TotalType, Zenon
<1>7. ASSUME NEW v \in Workers
      PROVE  prep[v] = Total(Those(stages, on, PrepareStages, v)) /\ prep[v] \in Nat
  <2>1. CASE v = w
    <3>1. prep[v] = preparing[v] - Need[r]
      BY <1>1, <2>1, Zenon DEF ResourceTypes
    <3>2. preparing[v] = Total(P(w)) /\ Those(stages, on, PrepareStages, v) = P(w) \ {r}
      BY <1>1, <1>3, <1>4, <2>1, Zenon
    <3>3. prep[v] = Total(P(w) \ {r})
      BY <1>1, <1>6, <3>1, <3>2
    <3> QED
      BY <1>6, <3>2, <3>3, Zenon
  <2>2. CASE v # w
    <3>1. prep[v] = preparing[v] /\ P(v) \ {r} = P(v)
      BY <1>1, <1>5, <2>2, Zenon DEF ResourceTypes
    <3> HIDE DEF P, stages, prep
    <3> QED
      BY <1>3, <1>4, <3>1, Zenon
  <2> QED
    BY <2>1, <2>2, Zenon
<1>8. prep \in [Workers -> Nat] /\ Booked(prep, stages, on, PrepareStages)
  BY <1>1, <1>7, Zenon DEF ResourceTypes, Booked
<1>9. ASSUME NEW v \in Workers PROVE active'[v] = Total(Those(stages, on, WorkStages, v))
  <2>1. Those(stages, on, WorkStages, v) = Those(at, on, WorkStages, v)
    BY <1>2, Zenon DEF Those, WorkStages, PrepareStages
  <2> QED
    BY <2>1, BalanceIsBooked, Zenon DEF Books, Booked
<1>10. active_jobs' = Cardinality({q \in Requests : stages[q] \in WorkStages})
  <2>1. {q \in Requests : stages[q] \in WorkStages} = Working
    BY <1>2, Zenon DEF Working, WorkStages, PrepareStages
  <2> QED
    BY <2>1, Zenon DEF Books, ResourcesBalance
<1>11. (\A q \in queue : stages[q] = "queued") /\ (\A q \in Requests :
          stages[q] \in PrepareStages \cup WorkStages => q \in DOMAIN on)
  BY <1>1, <1>2, Zenon DEF Books, QueuedWait, Placed, Preparing, Working, PrepareStages, WorkStages, ResourceTypes
<1> HIDE DEF stages, prep
<1>12. freeWorker(w, prep, stages)
  BY SMTT(20), Zenon DEF prep, stages
<1>13. /\ Books'
       /\ \A q \in Requests : at'[q] = stages[q] \/ (stages[q] = "queued" /\ at'[q] = "assigned")
       /\ \A q \in Working' : q \in DOMAIN on /\ on'[q] = on[q]
  <2>1. active' \in [Workers -> Nat] /\ active_jobs' \in Nat /\ Booked(active', stages, on, WorkStages)
    BY <1>1, <1>9, Zenon DEF ResourceTypes, Booked
  <2> QED
    BY <1>1, <1>2, <1>8, <1>10, <1>11, <1>12, <2>1, FreeKeepsBooks, Zenon
<1> QED
  BY <1>2, <1>13, Zenon DEF Advance

\* Work that ends is counted out.
LEMMA FinishKeepsBooks ==
  ASSUME Books, NEW r \in Requests, at[r] = "work", Finish(r)
  PROVE  /\ Books' /\ at'[r] = "done" /\ (\A q \in Requests \ {r} : Advance(q))
         /\ \A q \in Working' : q \in DOMAIN on /\ on'[q] = on[q]
<1> DEFINE w == on[r]
           stages == [at EXCEPT ![r] = "done"]
           W(v) == Those(at, on, WorkStages, v)
<1>1. r \in DOMAIN on /\ w \in Workers /\ Need[r] \in Nat /\ ResourceTypes
  BY SchedulerAssumption, Zenon DEF Books, Placed, Working, WorkStages, ResourceTypes
<1>2. /\ stages \in [Requests -> SchedStages] /\ stages[r] = "done"
      /\ \A q \in Requests \ {r} : stages[q] = at[q]
  BY <1>1, Zenon DEF ResourceTypes, SchedStages
<1>3. ASSUME NEW v \in Workers
      PROVE  W(v) \in SUBSET Requests /\ active[v] = Total(W(v)) /\ Total(W(v)) \in Nat
  <2>1. W(v) \in SUBSET Requests
    BY Zenon DEF Those
  <2>2. active[v] = Total(W(v))
    BY BalanceIsBooked, Zenon DEF Books, Booked
  <2> QED
    BY <2>1, <2>2, TotalType, Zenon
<1>4. ASSUME NEW v \in Workers PROVE Those(stages, on, WorkStages, v) = W(v) \ {r}
  BY <1>2, Zenon DEF Those, WorkStages
<1>5. r \in W(w) /\ (\A v \in Workers \ {w} : r \notin W(v))
  BY Zenon DEF Those, WorkStages
<1>6. Total(W(w)) = Total(W(w) \ {r}) + Need[r] /\ Total(W(w) \ {r}) \in Nat
  <2>1. W(w) \ {r} \in SUBSET Requests /\ r \in Requests \ (W(w) \ {r}) /\ (W(w) \ {r}) \cup {r} = W(w)
    BY <1>1, <1>3, <1>5, Zenon
  <2>2. Total((W(w) \ {r}) \cup {r}) = Total(W(w) \ {r}) + Need[r]
    BY <2>1, TotalAdd, Zenon
  <2> QED
    BY <2>1, <2>2, TotalType, SMTT(20), Zenon
<1>7. ASSUME NEW v \in Workers
      PROVE  active'[v] = Total(Those(stages, on, WorkStages, v)) /\ active'[v] \in Nat
  <2>1. CASE v = w
    <3>1. active'[v] = active[v] - Need[r]
      BY <1>1, <2>1, Zenon DEF ResourceTypes, Finish
    <3>2. active[v] = Total(W(w)) /\ Those(stages, on, WorkStages, v) = W(w) \ {r}
      BY <1>1, <1>3, <1>4, <2>1, Zenon
    <3>3. active'[v] = Total(W(w) \ {r})
      BY <1>1, <1>6, <3>1, <3>2
    <3> QED
      BY <1>6, <3>2, <3>3, Zenon
  <2>2. CASE v # w
    <3>1. active'[v] = active[v] /\ W(v) \ {r} = W(v)
      BY <1>1, <1>5, <2>2, Zenon DEF ResourceTypes, Finish
    <3> HIDE DEF W, stages
    <3> QED
      BY <1>3, <1>4, <3>1, SMTT(20), Zenon
  <2> QED
    BY <2>1, <2>2, Zenon
<1>8. active' \in [Workers -> Nat] /\ Booked(active', stages, on, WorkStages)
  BY <1>1, <1>7, Zenon DEF ResourceTypes, Booked, Finish
<1>9. ASSUME NEW v \in Workers PROVE preparing[v] = Total(Those(stages, on, PrepareStages, v))
  <2>1. Those(stages, on, PrepareStages, v) = Those(at, on, PrepareStages, v)
    BY <1>2, Zenon DEF Those, PrepareStages
  <2> QED
    BY <2>1, BalanceIsBooked, Zenon DEF Books, Booked
<1>10. /\ active_jobs' = Cardinality({q \in Requests : stages[q] \in WorkStages})
       /\ active_jobs' \in Nat
  <2>1. {q \in Requests : stages[q] \in WorkStages} = Working \ {r} /\ r \in Working
    BY <1>2, Zenon DEF Working, WorkStages
  <2>2. IsFiniteSet(Working)
    BY SchedulerAssumption, FS_Subset, Zenon DEF Working
  <2>3. Cardinality(Working \ {r}) = Cardinality(Working) - 1 /\ IsFiniteSet(Working \ {r})
    BY <2>1, <2>2, FS_RemoveElement, Zenon
  <2>4. Cardinality(Working \ {r}) \in Nat
    BY <2>3, FS_CardinalityType, Zenon
  <2> QED
    BY <2>1, <2>3, <2>4, Zenon DEF Books, ResourcesBalance, Finish
<1>11. (\A q \in queue : stages[q] = "queued") /\ (\A q \in Requests :
          stages[q] \in PrepareStages \cup WorkStages => q \in DOMAIN on)
  BY <1>1, <1>2, Zenon DEF Books, QueuedWait, Placed, Preparing, Working, PrepareStages, WorkStages, ResourceTypes
<1> HIDE DEF stages
<1>12. freeWorker(w, preparing, stages)
  BY Zenon DEF stages, Finish
<1>13. /\ Books'
       /\ \A q \in Requests : at'[q] = stages[q] \/ (stages[q] = "queued" /\ at'[q] = "assigned")
       /\ \A q \in Working' : q \in DOMAIN on /\ on'[q] = on[q]
  <2>1. preparing \in [Workers -> Nat] /\ Booked(preparing, stages, on, PrepareStages)
    BY <1>1, <1>9, Zenon DEF ResourceTypes, Booked
  <2> QED
    BY <1>1, <1>2, <1>8, <1>10, <1>11, <1>12, <2>1, FreeKeepsBooks, SMTT(20), Zenon
<1> QED
  BY <1>2, <1>13, Zenon DEF Advance

\* A new request is booked on the worker it gets.
LEMMA AssignKeepsBooks ==
  ASSUME Books, NEW r \in Requests, at[r] = "idle", NEW w \in Workers, w \in Sel[r],
         preparing' = [preparing EXCEPT ![w] = @ + Need[r]], on' = With(on, r, w),
         at' = [at EXCEPT ![r] = "assigned"], UNCHANGED <<queue, active, active_jobs>>
  PROVE  Books' /\ (\A q \in Working' : q \in DOMAIN on /\ on'[q] = on[q])
<1> DEFINE P(v) == Those(at, on, PrepareStages, v)
<1>1. Need[r] \in Nat /\ ResourceTypes
  BY SchedulerAssumption, Zenon DEF Books
<1>2. /\ at' \in [Requests -> SchedStages] /\ at'[r] = "assigned"
      /\ \A q \in Requests \ {r} : at'[q] = at[q]
  BY <1>1, Zenon DEF ResourceTypes, SchedStages
<1>3. /\ DOMAIN on' = DOMAIN on \cup {r} /\ on'[r] = w
      /\ \A q \in DOMAIN on \ {r} : on'[q] = on[q]
  BY SMTT(20), Zenon DEF With
<1>4. \A q \in Requests \ {r} : at'[q] \in PrepareStages \cup WorkStages => q \in DOMAIN on /\ on'[q] = on[q]
  BY <1>2, <1>3, Zenon DEF Books, Placed, Preparing, Working
<1>5. ASSUME NEW v \in Workers
      PROVE  P(v) \in SUBSET Requests /\ preparing[v] = Total(P(v)) /\ Total(P(v)) \in Nat
  <2>1. P(v) \in SUBSET Requests
    BY SMTT(20), Zenon DEF Those
  <2>2. preparing[v] = Total(P(v))
    BY BalanceIsBooked, Zenon DEF Books, Booked
  <2> QED
    BY <2>1, <2>2, TotalType, Zenon
<1>6. ASSUME NEW v \in Workers
      PROVE  Those(at', on', PrepareStages, v) = IF v = w THEN P(v) \cup {r} ELSE P(v)
  BY <1>2, <1>3, <1>4, Zenon DEF Those, PrepareStages
<1>7. Total(P(w) \cup {r}) = Total(P(w)) + Need[r]
  <2>1. r \notin P(w)
    BY Zenon DEF Those, PrepareStages
  <2> QED
    BY <1>5, <2>1, TotalAdd, Zenon
<1>8. ASSUME NEW v \in Workers
      PROVE  preparing'[v] = Total(Those(at', on', PrepareStages, v)) /\ preparing'[v] \in Nat
  <2>1. CASE v = w
    <3>1. preparing'[v] = preparing[v] + Need[r]
      BY <1>1, <2>1, Zenon DEF ResourceTypes
    <3>2. preparing[v] = Total(P(w)) /\ Those(at', on', PrepareStages, v) = P(w) \cup {r}
      BY <1>5, <1>6, <2>1, Zenon
    <3>3. Total(P(w)) \in Nat
      BY <1>5, SMTT(20), Zenon
    <3>4. preparing'[v] = Total(P(w) \cup {r}) /\ preparing'[v] \in Nat
      BY <1>1, <1>7, <3>1, <3>2, <3>3
    <3> QED
      BY <3>2, <3>4, Zenon
  <2>2. CASE v # w
    <3>1. preparing'[v] = preparing[v] /\ Those(at', on', PrepareStages, v) = P(v)
      BY <1>1, <1>6, <2>2, Zenon DEF ResourceTypes
    <3> QED
      BY <1>5, <3>1, Zenon
  <2> QED
    BY <2>1, <2>2, Zenon
<1>9. ASSUME NEW v \in Workers PROVE active'[v] = Total(Those(at', on', WorkStages, v))
  <2>1. Those(at', on', WorkStages, v) = Those(at, on, WorkStages, v)
    BY <1>2, <1>4, Zenon DEF Those, WorkStages
  <2> QED
    BY <2>1, BalanceIsBooked, Zenon DEF Books, Booked
<1>10. Working' = Working
  BY <1>2, Zenon DEF Working, WorkStages
<1>11. ResourcesBalance'
  <2>1. active_jobs' = Cardinality(Working')
    BY <1>10, Zenon DEF Books, ResourcesBalance
  <2> QED
    BY <1>8, <1>9, <2>1, BookedIsBalance, Zenon DEF Booked
<1>12. ResourceTypes'
  <2>1. preparing' \in [Workers -> Nat]
    BY <1>1, <1>8, Zenon DEF ResourceTypes
  <2> QED
    BY <1>1, <1>2, <1>3, <2>1, SMTT(20), Zenon DEF ResourceTypes
<1>13. Placed'
  BY <1>3, <1>4, Zenon DEF Placed, Preparing, Working
<1>14. QueuedWait'
  BY <1>1, <1>2, Zenon DEF Books, QueuedWait, ResourceTypes
<1>15. \A q \in Working' : q \in DOMAIN on /\ on'[q] = on[q]
  BY <1>2, <1>4, <1>10, Zenon DEF Working, WorkStages
<1> QED
  BY <1>11, <1>12, <1>13, <1>14, <1>15, SMTT(20), Zenon DEF Books

-----------------------------------------------------------------------------
(***************************************************************************)
(* Calls and their callbacks.                                              *)
(***************************************************************************)

\* A step that makes and returns no call, and moves only requests without one.
LEMMA CallsStay ==
  ASSUME CallsInv, UNCHANGED callVars, \A q \in Requests : Advance(q) \/ at[q] = "idle"
  PROVE  CallsInv'
<1> USE DEF callVars
<1>1. CallTypes'
  BY Zenon DEF CallsInv, CallTypes
<1>2. CalledOnce'
  BY Zenon DEF CallsInv, CallTypes, CalledOnce, Before, Advance, Calls
<1>3. ASSUME NEW cb \in Callbacks, NEW c, CallbackFits(cb, c) PROVE CallbackFits(cb, c)'
  BY <1>3, Zenon DEF CallbackFits, Callbacks, Advance
<1>4. CallbacksFit'
  BY <1>3, SMTT(20), Zenon DEF CallsInv, CallTypes, CallbacksFit
<1> QED
  BY <1>1, <1>2, <1>4, Zenon DEF CallsInv

\* A step that takes callbacks away, moves r on and may make a call of r.
LEMMA CallsShrink ==
  ASSUME CallsInv, NEW r \in Requests, \A q \in Requests \ {r} : Advance(q),
         posted' \subseteq posted, results' \subseteq results, DOMAIN callbacks' \subseteq DOMAIN callbacks,
         \A c \in DOMAIN callbacks' : callbacks'[c] = callbacks[c],
         \A c \in DOMAIN callbacks' : callbacks[c][2] = r => CallbackFits(callbacks[c], c)',
         \A p \in posted' : p.cb[2] = r => CallbackFits(p.cb, p.call)',
         \A k \in {"prepare", "work"} : at'[r] \in Before(k) => at[r] \in Before(k),
         \/ calls' = calls
         \/ \E k \in {"prepare", "work"} :
              calls' = calls \cup {<<k, r>>} /\ at[r] \in Before(k) /\ at'[r] \notin Before(k)
  PROVE  CallsInv'
<1>1. CallTypes'
  BY DEF CallsInv, CallTypes, Calls
<1>2. \A q \in Requests, k \in {"prepare", "work"} : at'[q] \in Before(k) => at[q] \in Before(k)
  BY SMTT(20), Zenon DEF Before, Advance
<1>3. CalledOnce'
  <2>1. CASE calls' = calls
    BY <1>2, <2>1 DEF CallsInv, CallTypes, CalledOnce, Calls
  <2>2. ASSUME NEW k \in {"prepare", "work"},
               calls' = calls \cup {<<k, r>>}, at[r] \in Before(k), at'[r] \notin Before(k)
        PROVE  CalledOnce'
    <3>1. <<k, r>> \notin results /\ (\A p \in posted : p.call # <<k, r>>)
      BY <2>2 DEF CallsInv, CallTypes, CalledOnce
    <3> QED
      BY <1>2, <2>2, <3>1, SMTT(20), Zenon DEF CallsInv, CallTypes, CalledOnce, Calls
  <2> QED
    BY <2>1, <2>2, Zenon
<1>4. ASSUME NEW cb \in Callbacks, NEW c, CallbackFits(cb, c), cb[2] # r PROVE CallbackFits(cb, c)'
  BY <1>4, SMTT(20), Zenon DEF CallbackFits, Callbacks, Advance
<1>5. \A c \in DOMAIN callbacks' : CallbackFits(callbacks[c], c)'
  BY <1>4, Zenon DEF CallsInv, CallTypes, CallbacksFit
<1>6. \A p \in posted' : CallbackFits(p.cb, p.call)'
  BY <1>4, SMTT(20), Zenon DEF CallsInv, CallTypes, CallbacksFit
<1>7. CallbacksFit'
  BY <1>5, <1>6 DEF CallsInv, CallTypes, CallbacksFit
<1> QED
  BY <1>1, <1>3, <1>7, Zenon DEF CallsInv

-----------------------------------------------------------------------------
(***************************************************************************)
(* The invariant is inductive.                                             *)
(***************************************************************************)

\* A scheduler without workers and requests satisfies the invariant.
LEMMA SchedInitIInv == SchedInit => SchedIInv
<1> SUFFICES ASSUME SchedInit PROVE SchedIInv
  BY Zenon
<1> USE DEF SchedInit
<1>1. Preparing = {} /\ Working = {}
  BY Zenon DEF Preparing, Working, PrepareStages, WorkStages
<1>2. Total({}) = 0 /\ Cardinality(Working) = 0
  BY <1>1, TotalEmpty, FS_EmptySet, Zenon
<1>3. ResourcesBalance
  <2>1. ASSUME NEW w \in Workers
        PROVE  {r \in Preparing : on[r] = w} = {} /\ {r \in Working : on[r] = w} = {}
    BY <1>1, Zenon
  <2> QED
    BY <1>2, <2>1, Zenon DEF ResourcesBalance
<1>4. ResourceTypes
  BY SMTT(20), Zenon DEF ResourceTypes, SchedStages
<1>5. Placed /\ QueuedWait
  BY <1>1, Zenon DEF Placed, QueuedWait
<1>6. CallsInv
  BY Zenon DEF CallsInv, CallTypes, CalledOnce, CallbacksFit
<1> QED
  BY <1>3, <1>4, <1>5, <1>6, Zenon DEF SchedIInv, Books, KvType

\* The answer of a request keeps the records well-formed.
LEMMA AnsweredKeepsType ==
  ASSUME KvType, NEW r, Answered(r)
  PROVE  KvType'
BY SMTT(20), Zenon DEF KvType, Answered, Without

\* newWorker takes requests from the queue.
LEMMA NewWorkerKeepsIInv ==
  ASSUME SchedIInv, NEW w \in Workers, newWorker(w)
  PROVE  /\ SchedIInv' /\ (\A q \in Requests : Advance(q))
         /\ \A q \in Working' : q \in DOMAIN on /\ on'[q] = on[q]
<1>1. freeWorker(w, preparing, at) /\ UNCHANGED <<active, active_jobs, callVars, kv, restartVars>>
  BY Zenon DEF newWorker
<1>2. /\ ResourceTypes /\ preparing \in [Workers -> Nat] /\ at \in [Requests -> SchedStages]
      /\ \A r \in queue : at[r] = "queued"
      /\ \A r \in Requests : at[r] \in PrepareStages \cup WorkStages => r \in DOMAIN on
      /\ active' \in [Workers -> Nat] /\ active_jobs' \in Nat
  BY <1>1, SMTT(20), Zenon DEF SchedIInv, Books, ResourceTypes, QueuedWait, Placed, Preparing, Working
<1>3. /\ Booked(preparing, at, on, PrepareStages) /\ Booked(active', at, on, WorkStages)
      /\ active_jobs' = Cardinality({r \in Requests : at[r] \in WorkStages})
  BY <1>1, BalanceIsBooked, Zenon DEF SchedIInv, Books, Working
<1>4. /\ Books'
      /\ \A r \in Requests : at'[r] = at[r] \/ (at[r] = "queued" /\ at'[r] = "assigned")
      /\ \A r \in Working' : r \in DOMAIN on /\ on'[r] = on[r]
  BY <1>1, <1>2, <1>3, FreeKeepsBooks, SMTT(20), Zenon
<1>5. \A q \in Requests : Advance(q)
  BY <1>4, Zenon DEF Advance
<1>6. CallsInv'
  BY <1>1, <1>5, CallsStay, Zenon DEF SchedIInv
<1> QED
  BY <1>1, <1>4, <1>5, <1>6, Zenon DEF SchedIInv, newWorker, KvType

\* scheduleKnown attaches the request to the call of its work.
LEMMA KnownKeepsIInv ==
  ASSUME SchedIInv, NEW r \in Requests, scheduleKnown(r)
  PROVE  SchedIInv'
<1> DEFINE c == kv[WorkId[r]]
<1>1. /\ at[r] = "idle" /\ InKv(r) /\ c \in Calls \cup {Beginning} /\ KvType'
      /\ at \in [Requests -> SchedStages]
      /\ UNCHANGED <<workers, resourceVars, results, posted, calls, kv, restartVars>>
  BY Zenon DEF SchedIInv, Books, ResourceTypes, scheduleKnown, MaySchedule, InKv, KvType
<1>2. /\ at' \in [Requests -> SchedStages] /\ at'[r] \in {"ignored", "delivering", "attached"}
      /\ \A q \in Requests \ {r} : at'[q] = at[q]
  BY <1>1, SMTT(20), Zenon DEF scheduleKnown, SchedStages
<1>3. Books'
  <2>1. r \notin queue
    BY <1>1, SMTT(20), Zenon DEF SchedIInv, Books, QueuedWait
  <2>2. queue \subseteq Requests
    BY Zenon DEF SchedIInv, Books, ResourceTypes
  <2> QED
    BY <1>1, <1>2, <2>1, <2>2, SameBooks, Zenon DEF SchedIInv, PrepareStages, WorkStages
<1>4. CASE UNCHANGED callbacks
  <2>1. \A q \in Requests : Advance(q) \/ at[q] = "idle"
    BY <1>1, <1>2, SMTT(20), Zenon DEF Advance
  <2>2. CallsInv'
    BY <1>1, <1>4, <2>1, CallsStay, Zenon DEF SchedIInv, callVars
  <2> QED
    BY <1>1, <1>3, <2>2, Zenon DEF SchedIInv
<1>5. CASE c # Beginning /\ at' = [at EXCEPT ![r] = "attached"] /\ callbacks' = With(callbacks, c, <<"attached", r>>)
  <2>1. /\ c \in Calls /\ at'[r] = "attached" /\ DOMAIN callbacks' = DOMAIN callbacks \cup {c}
        /\ callbacks'[c] = <<"attached", r>> /\ \A d \in DOMAIN callbacks \ {c} : callbacks'[d] = callbacks[d]
    BY <1>1, <1>5, Zenon DEF With
  <2> HIDE DEF c
  <2>2. CallTypes'
    <3>1. <<"attached", r>> \in Callbacks
      BY Zenon DEF Callbacks
    <3>2. \A d \in DOMAIN callbacks' : d \in Calls /\ callbacks'[d] \in Callbacks
      BY <2>1, <3>1, Zenon DEF SchedIInv, CallsInv, CallTypes
    <3> QED
      BY <1>1, <3>2, SMTT(20), Zenon DEF SchedIInv, CallsInv, CallTypes
  <2>3. CalledOnce'
    BY <1>1, <1>2, <2>1, SMTT(20), Zenon DEF SchedIInv, CallsInv, CallTypes, CalledOnce, Calls, Before
  <2>4. ASSUME NEW cb \in Callbacks, NEW d, CallbackFits(cb, d) PROVE CallbackFits(cb, d)'
    BY <1>1, <1>2, <2>4, Zenon DEF CallbackFits, Callbacks
  <2>5. CallbackFits(<<"attached", r>>, c)'
    BY <2>1, SMTT(20), Zenon DEF CallbackFits
  <2>6. CallbacksFit'
    <3>1. ASSUME NEW d \in DOMAIN callbacks' PROVE CallbackFits(callbacks[d], d)'
      <4>1. CASE d = c
        BY <2>1, <2>5, <4>1, SMTT(20), Zenon DEF CallbackFits
      <4>2. CASE d # c
        <5>1. callbacks'[d] = callbacks[d] /\ callbacks[d] \in Callbacks /\ CallbackFits(callbacks[d], d)
          BY <2>1, <4>2, Zenon DEF SchedIInv, CallsInv, CallTypes, CallbacksFit
        <5> QED
          BY <2>4, <5>1, Zenon DEF CallbackFits
      <4> QED
        BY <4>1, <4>2, Zenon
    <3>2. \A p \in posted' : CallbackFits(p.cb, p.call)'
      BY <1>1, <2>4, Zenon DEF SchedIInv, CallsInv, CallTypes, CallbacksFit
    <3>3. ASSUME NEW p \in posted', ~p.erase PROVE p.cb[1] # "attached"
      BY <1>1, <3>3, Zenon DEF SchedIInv, CallsInv, CallbacksFit
    <3>4. ASSUME NEW p \in posted', ~p.erase, p.call \in DOMAIN callbacks' PROVE callbacks'[p.call][1] = "attached"
      <4>1. CASE p.call = c
        BY <2>1, <4>1
      <4>2. CASE p.call # c
        <5>1. p.call \in DOMAIN callbacks /\ callbacks'[p.call] = callbacks[p.call] /\ p \in posted
          BY <1>1, <2>1, <3>4, <4>2, SMTT(20), Zenon
        <5> QED
          BY <3>4, <5>1, Zenon DEF SchedIInv, CallsInv, CallbacksFit
      <4> QED
        BY <4>1, <4>2, Zenon
    <3> QED
      BY <3>1, <3>2, <3>3, <3>4, Zenon DEF CallbacksFit
  <2> QED
    BY <1>1, <1>3, <2>2, <2>3, <2>6, SMTT(20), Zenon DEF SchedIInv, CallsInv
<1> QED
  BY <1>4, <1>5, SMTT(20), Zenon DEF scheduleKnown

\* scheduleNew refuses, books or queues a request that had made no call.
LEMMA NewKeepsIInv ==
  ASSUME SchedIInv, NEW r \in Requests, scheduleNew(r)
  PROVE  SchedIInv' /\ (\A q \in Working' : q \in DOMAIN on /\ on'[q] = on[q])
<1>1. /\ at[r] = "idle" /\ at \in [Requests -> SchedStages] /\ workers \subseteq Workers
      /\ UNCHANGED <<workers, active, active_jobs, callVars, restartVars>>
      /\ queue \subseteq Requests /\ r \notin queue
  BY SMTT(20), Zenon DEF SchedIInv, Books, ResourceTypes, QueuedWait, scheduleNew, MaySchedule
<1>2. /\ at' \in [Requests -> SchedStages] /\ at'[r] \in {"refused", "assigned", "queued"}
      /\ \A q \in Requests \ {r} : at'[q] = at[q]
  BY <1>1, Zenon DEF scheduleNew, SchedStages
<1>3. CallsInv'
  <2>1. \A q \in Requests : Advance(q) \/ at[q] = "idle"
    BY <1>1, <1>2, Zenon DEF Advance
  <2> QED
    BY <1>1, <2>1, CallsStay, SMTT(20), Zenon DEF SchedIInv
<1>4. KvType'
  BY Zenon DEF SchedIInv, KvType, scheduleNew, With
<1>5. CASE at'[r] # "assigned" /\ UNCHANGED <<preparing, on>> /\ queue' \subseteq queue \cup {q \in {r} : at'[q] = "queued"}
  <2>1. Preparing' = Preparing /\ Working' = Working
    BY <1>1, <1>2, <1>5, Zenon DEF Preparing, Working, PrepareStages, WorkStages
  <2>2. ResourceTypes' /\ ResourcesBalance' /\ Placed'
    BY <1>1, <1>2, <1>5, <2>1, Zenon DEF SchedIInv, Books, ResourceTypes, ResourcesBalance, Placed
  <2>3. QueuedWait'
    BY <1>1, <1>2, <1>5, Zenon DEF SchedIInv, Books, QueuedWait
  <2>4. \A q \in Working' : q \in DOMAIN on /\ on'[q] = on[q]
    BY <1>5, <2>1, Zenon DEF SchedIInv, Books, Placed
  <2> QED
    BY <1>1, <1>3, <1>4, <2>2, <2>3, <2>4, Zenon DEF SchedIInv, Books
<1>6. ASSUME NEW w \in Acceptable(r), preparing' = [preparing EXCEPT ![w] = @ + Need[r]],
             on' = With(on, r, w), at' = [at EXCEPT ![r] = "assigned"], UNCHANGED queue
      PROVE  SchedIInv' /\ (\A q \in Working' : q \in DOMAIN on /\ on'[q] = on[q])
  <2>1. w \in Workers /\ w \in Sel[r]
    BY <1>1, <1>6, Zenon DEF Acceptable
  <2>2. Books' /\ (\A q \in Working' : q \in DOMAIN on /\ on'[q] = on[q])
    BY <1>1, <1>6, <2>1, AssignKeepsBooks, Zenon DEF SchedIInv
  <2> QED
    BY <1>1, <1>3, <1>4, <2>2, SMTT(20), Zenon DEF SchedIInv
<1>7. CASE at' = [at EXCEPT ![r] = "refused"] /\ UNCHANGED <<preparing, queue, on>>
  BY <1>1, <1>5, <1>7, Zenon
<1>8. CASE queue' = queue \cup {r} /\ at' = [at EXCEPT ![r] = "queued"] /\ UNCHANGED <<preparing, on>>
  BY <1>1, <1>5, <1>8, Zenon
<1> QED
  BY <1>6, <1>7, <1>8, SMTT(20), Zenon DEF scheduleNew

\* DeliverResult answers the request with a result that had no callback.
LEMMA DeliverKeepsIInv ==
  ASSUME SchedIInv, NEW r \in Requests, DeliverResult(r)
  PROVE  SchedIInv'
<1>1. /\ at[r] = "delivering" /\ at \in [Requests -> SchedStages] /\ results' \subseteq results
      /\ UNCHANGED <<workers, resourceVars, callbacks, posted, calls, restartVars>>
  BY Zenon DEF SchedIInv, Books, ResourceTypes, DeliverResult
<1>2. /\ at' \in [Requests -> SchedStages] /\ at'[r] = "done"
      /\ \A q \in Requests \ {r} : at'[q] = at[q]
  BY <1>1, SMTT(20), Zenon DEF DeliverResult, SchedStages
<1>3. Books'
  <2>1. \A q \in queue : at'[q] = at[q]
    BY <1>1, <1>2, SMTT(20), Zenon DEF SchedIInv, Books, QueuedWait, ResourceTypes
  <2> QED
    BY <1>1, <1>2, <2>1, SameBooks, Zenon DEF SchedIInv, PrepareStages, WorkStages
<1>4. KvType'
  BY AnsweredKeepsType, Zenon DEF SchedIInv, DeliverResult
<1>5. CallsInv'
  <2>1. \A q \in Requests \ {r} : Advance(q)
    BY <1>2, Zenon DEF Advance
  <2>2. \A c \in DOMAIN callbacks' : callbacks[c][2] = r => CallbackFits(callbacks[c], c)'
    BY <1>1, <1>2, SMTT(20), Zenon DEF SchedIInv, CallsInv, CallbacksFit, CallbackFits
  <2>3. \A p \in posted' : p.cb[2] = r => CallbackFits(p.cb, p.call)'
    BY <1>1, <1>2, Zenon DEF SchedIInv, CallsInv, CallbacksFit, CallbackFits
  <2>4. \A k \in {"prepare", "work"} : at'[r] \in Before(k) => at[r] \in Before(k)
    BY <1>2, SMTT(20), Zenon DEF Before
  <2> QED
    BY <1>1, <2>1, <2>2, <2>3, <2>4, CallsShrink, SMTT(20), Zenon DEF SchedIInv
<1> QED
  BY <1>1, <1>3, <1>4, <1>5, SMTT(20), Zenon DEF SchedIInv

\* Before it is registered or attached a request has no callback.
LEMMA NoCallbackYet ==
  ASSUME CallsInv, NEW r \in Requests, at[r] \notin {"attached", "done", "prepare", "work"}
  PROVE  /\ \A c \in DOMAIN callbacks : callbacks[c][2] # r
         /\ \A p \in posted : p.cb[2] # r
BY DEF CallsInv, CallbacksFit, CallbackFits

\* StartWork makes the work call, or answers the request.
LEMMA StartKeepsBooks ==
  ASSUME SchedIInv, NEW r \in Requests, at[r] \in PrepareStages, StartWork(r)
  PROVE  /\ Books' /\ KvType' /\ (\A q \in Requests \ {r} : Advance(q))
         /\ \A q \in Working' : q \in DOMAIN on /\ on'[q] = on[q]
         /\ \/ at'[r] = "workcall" /\ calls' = calls \cup {workCall(r)} /\ kv' = Recorded(r, on[r])
            \/ at'[r] = "done" /\ calls' = calls /\ Answered(r)
<1>1. at \in [Requests -> SchedStages] /\ r \in DOMAIN on
  BY ZenonT(30) DEF SchedIInv, Books, ResourceTypes, Placed, Preparing
<1>2. CASE /\ at' = [at EXCEPT ![r] = "workcall"] /\ calls' = calls \cup {workCall(r)} /\ kv' = Recorded(r, on[r])
           /\ preparing' = [preparing EXCEPT ![on[r]] = @ - Need[r]]
           /\ active' = [active EXCEPT ![on[r]] = @ + Need[r]]
           /\ active_jobs' = active_jobs + 1 /\ UNCHANGED <<queue, on>>
  <2>1. Books'
    BY <1>2, BeginKeepsBooks, Zenon DEF SchedIInv
  <2>2. at'[r] = "workcall" /\ (\A q \in Requests \ {r} : Advance(q))
    BY <1>1, <1>2, Zenon DEF Advance
  <2>3. \A q \in Working' : q \in DOMAIN on /\ on'[q] = on[q]
    BY <1>2, <2>1, SMTT(20), Zenon DEF Books, Placed
  <2>4. KvType'
    <3>1. workCall(r) \in Calls
      BY Zenon DEF workCall, Calls
    <3> QED
      BY <1>2, <3>1, Zenon DEF SchedIInv, KvType, Recorded, With
  <2> QED
    BY <1>2, <2>1, <2>2, <2>3, <2>4, SMTT(20), Zenon
<1>3. CASE /\ freeWorker(on[r], [preparing EXCEPT ![on[r]] = @ - Need[r]], [at EXCEPT ![r] = "done"])
           /\ Answered(r) /\ UNCHANGED <<calls, active, active_jobs>>
  <2>1. /\ Books' /\ at'[r] = "done" /\ (\A q \in Requests \ {r} : Advance(q))
        /\ \A q \in Working' : q \in DOMAIN on /\ on'[q] = on[q]
    BY <1>3, RefusedKeepsBooks, SMTT(20), Zenon DEF SchedIInv
  <2>2. KvType'
    BY <1>3, AnsweredKeepsType, Zenon DEF SchedIInv
  <2> QED
    BY <1>3, <2>1, <2>2, SMTT(20), Zenon
<1> QED
  BY <1>2, <1>3, Zenon DEF StartWork

\* RunAssigned calls the worker, to prepare or to work.
LEMMA AssignedKeepsIInv ==
  ASSUME SchedIInv, NEW r \in Requests, RunAssigned(r)
  PROVE  SchedIInv'
<1>1. /\ at[r] = "assigned" /\ at \in [Requests -> SchedStages] /\ at[r] \in PrepareStages
      /\ UNCHANGED <<workers, callbacks, results, posted, restartVars>>
  BY SMTT(20), Zenon DEF SchedIInv, Books, ResourceTypes, RunAssigned, PrepareStages
<1>2. ASSUME Books', KvType', \A q \in Requests \ {r} : Advance(q),
             \/ at'[r] = "workcall" /\ calls' = calls \cup {<<"work", r>>}
             \/ at'[r] = "prepcall" /\ calls' = calls \cup {<<"prepare", r>>}
             \/ at'[r] = "done" /\ calls' = calls
      PROVE  SchedIInv'
  <2>1. (\A c \in DOMAIN callbacks : callbacks[c][2] # r) /\ (\A p \in posted : p.cb[2] # r)
    BY <1>1, NoCallbackYet, Zenon DEF SchedIInv
  <2>2. \A k \in {"prepare", "work"} : at'[r] \in Before(k) => at[r] \in Before(k)
    BY <1>1, Zenon DEF Before
  <2>3. \/ calls' = calls
        \/ \E k \in {"prepare", "work"} :
             calls' = calls \cup {<<k, r>>} /\ at[r] \in Before(k) /\ at'[r] \notin Before(k)
    BY <1>1, <1>2, Zenon DEF Before
  <2>4. CallsInv'
    BY <1>1, <1>2, <2>1, <2>2, <2>3, CallsShrink, Zenon DEF SchedIInv
  <2> QED
    BY <1>1, <1>2, <2>4, Zenon DEF SchedIInv
<1>3. CASE StartWork(r)
  BY <1>1, <1>2, <1>3, StartKeepsBooks, Zenon DEF workCall
<1>4. CASE at' = [at EXCEPT ![r] = "prepcall"] /\ calls' = calls \cup {prepareCall(r)} /\ UNCHANGED <<resourceVars, kv>>
  <2>1. /\ at' \in [Requests -> SchedStages] /\ at'[r] = "prepcall"
        /\ \A q \in Requests \ {r} : at'[q] = at[q]
    BY <1>1, <1>4, SMTT(20), Zenon DEF SchedStages
  <2>2. \A q \in queue : at'[q] = at[q]
    BY <1>1, <2>1, SMTT(20), Zenon DEF SchedIInv, Books, QueuedWait, ResourceTypes
  <2>3. Books'
    BY <1>1, <1>4, <2>1, <2>2, SameBooks, Zenon DEF SchedIInv, PrepareStages, WorkStages
  <2>4. KvType' /\ (\A q \in Requests \ {r} : Advance(q))
    BY <1>4, <2>1, SMTT(20), Zenon DEF SchedIInv, KvType, Advance
  <2> QED
    BY <1>2, <1>4, <2>1, <2>3, <2>4, Zenon DEF prepareCall
<1>5. CASE /\ freeWorker(on[r], [preparing EXCEPT ![on[r]] = @ - Need[r]], [at EXCEPT ![r] = "done"])
           /\ Answered(r) /\ UNCHANGED <<calls, active, active_jobs>>
  <2>1. Books' /\ at'[r] = "done" /\ (\A q \in Requests \ {r} : Advance(q))
    BY <1>1, <1>5, RefusedKeepsBooks, Zenon DEF SchedIInv
  <2>2. KvType'
    BY <1>5, AnsweredKeepsType, SMTT(20), Zenon DEF SchedIInv
  <2> QED
    BY <1>2, <1>5, <2>1, <2>2, SMTT(20), Zenon
<1> QED
  BY <1>3, <1>4, <1>5, SMTT(20), Zenon DEF RunAssigned

\* A callback is registered for a call that had none, or posted with its result.
LEMMA RegisterKeepsCalls ==
  ASSUME CallsInv, at \in [Requests -> SchedStages], NEW r \in Requests,
         NEW c \in Calls, NEW cb \in Callbacks, Register(c, cb), UNCHANGED calls,
         c[2] = r, cb[2] = r, cb[1] # "attached", at[r] \in {"prepcall", "workcall"},
         CallbackFits(cb, c)', \A q \in Requests \ {r} : at'[q] = at[q],
         \A k \in {"prepare", "work"} : at'[r] \in Before(k) => at[r] \in Before(k)
  PROVE  CallsInv'
<1>1. (\A d \in DOMAIN callbacks : callbacks[d][2] # r) /\ (\A p \in posted : p.cb[2] # r)
  BY NoCallbackYet, Zenon
<1>2. ASSUME NEW b \in Callbacks, NEW d, CallbackFits(b, d), b[2] # r PROVE CallbackFits(b, d)'
  BY <1>2, SMTT(20), Zenon DEF CallbackFits, Callbacks
<1>3. \A b \in Callbacks : b[2] # r /\ CallbackFits(b, c) => b[1] = "attached"
  BY DEF CallbackFits, prepareCall, workCall
<1>4. \A q \in Requests, k \in {"prepare", "work"} : at'[q] \in Before(k) => at[q] \in Before(k)
  BY Zenon
<1>5. CASE c \notin results /\ callbacks' = With(callbacks, c, cb) /\ UNCHANGED <<posted, results>>
  <2>1. /\ DOMAIN callbacks' = DOMAIN callbacks \cup {c} /\ callbacks'[c] = cb
        /\ \A d \in DOMAIN callbacks \ {c} : callbacks'[d] = callbacks[d]
    BY <1>5, Zenon DEF With
  <2>2. CallTypes'
    BY <1>5, <2>1, SMTT(20), Zenon DEF CallsInv, CallTypes
  <2>3. CalledOnce'
    BY <1>4, <1>5, SMTT(20), Zenon DEF CallsInv, CallTypes, CalledOnce, Calls
  <2>4. ASSUME NEW d \in DOMAIN callbacks' PROVE CallbackFits(callbacks[d], d)'
    <3>1. CASE d = c
      BY <2>1, <3>1, SMTT(20), Zenon DEF CallbackFits
    <3>2. CASE d # c
      <4>1. /\ callbacks'[d] = callbacks[d] /\ callbacks[d] \in Callbacks /\ callbacks[d][2] # r
            /\ CallbackFits(callbacks[d], d)
        BY <1>1, <2>1, <3>2, Zenon DEF CallsInv, CallTypes, CallbacksFit
      <4> QED
        BY <1>2, <4>1, Zenon DEF CallbackFits
    <3> QED
      BY <3>1, <3>2, Zenon
  <2>5. \A p \in posted' : CallbackFits(p.cb, p.call)'
    BY <1>1, <1>2, <1>5, Zenon DEF CallsInv, CallTypes, CallbacksFit
  <2>6. \A p \in posted' : ~p.erase /\ p.call \in DOMAIN callbacks' => callbacks'[p.call][1] = "attached"
    <3> SUFFICES ASSUME NEW p \in posted, ~p.erase, p.call \in DOMAIN callbacks'
                 PROVE  callbacks'[p.call][1] = "attached"
      BY <1>5, Zenon
    <3>1. /\ p.cb \in Callbacks /\ CallbackFits(p.cb, p.call) /\ p.cb[1] # "attached"
          /\ p.call \in DOMAIN callbacks => callbacks[p.call][1] = "attached"
      BY Zenon DEF CallsInv, CallTypes, CallbacksFit
    <3>2. p.call # c
      BY <1>1, <1>3, <3>1, Zenon
    <3>3. p.call \in DOMAIN callbacks \ {c}
      BY <2>1, <3>2, Zenon
    <3>4. callbacks'[p.call] = callbacks[p.call]
      BY <2>1, <3>3, Zenon
    <3> QED
      BY <3>1, <3>3, <3>4, Zenon
  <2>7. CallbacksFit'
    BY <1>5, <2>4, <2>5, <2>6, Zenon DEF CallsInv, CallbacksFit
  <2> QED
    BY <2>2, <2>3, <2>7, SMTT(20), Zenon DEF CallsInv
<1>6. CASE /\ c \in results /\ posted' = posted \cup {[cb |-> cb, call |-> c, erase |-> FALSE]}
           /\ results' = results \ {c} /\ UNCHANGED callbacks
  <2> DEFINE new == [cb |-> cb, call |-> c, erase |-> FALSE]
  <2>8. /\ new \in [cb: Callbacks, call: Calls, erase: BOOLEAN]
        /\ new.cb = cb /\ new.call = c /\ ~new.erase /\ posted' = posted \cup {new}
    BY <1>6, SMTT(20), Zenon
  <2> HIDE DEF new
  <2>1. CallTypes'
    BY <1>6, <2>8, Zenon DEF CallsInv, CallTypes
  <2>2. CalledOnce'
    <3>1. /\ \A d \in calls' \cup results' : at'[d[2]] \notin Before(d[1])
          /\ \A p \in posted' : at'[p.call[2]] \notin Before(p.call[1])
      BY <1>4, <1>6, <2>8, Zenon DEF CallsInv, CallTypes, CalledOnce, Calls
    <3>2. \A p \in posted : p.call # c
      BY <1>6, Zenon DEF CallsInv, CalledOnce
    <3> QED
      BY <1>6, <2>8, <3>1, <3>2, SMTT(20), Zenon DEF CallsInv, CalledOnce
  <2>3. \A d \in DOMAIN callbacks' : CallbackFits(callbacks[d], d)'
    BY <1>1, <1>2, <1>6, Zenon DEF CallsInv, CallTypes, CallbacksFit
  <2>4. \A p \in posted : CallbackFits(p.cb, p.call)'
    BY <1>1, <1>2, Zenon DEF CallsInv, CallTypes, CallbacksFit
  <2>5. \A p \in posted' : CallbackFits(p.cb, p.call)'
    BY <2>4, <2>8, Zenon
  <2>6. c \in DOMAIN callbacks => callbacks[c][1] = "attached"
    BY <1>1, <1>3, Zenon DEF CallsInv, CallTypes, CallbacksFit
  <2>7. CallbacksFit'
    BY <1>6, <2>3, <2>5, <2>6, <2>8, Zenon DEF CallsInv, CallbacksFit
  <2> QED
    BY <2>1, <2>2, <2>7, Zenon DEF CallsInv
<1> QED
  BY <1>5, <1>6, Zenon DEF Register

\* RegisterCall goes with the call that RunAssigned or StartWork made.
LEMMA RegisterCallKeepsIInv ==
  ASSUME SchedIInv, NEW r \in Requests, RegisterCall(r)
  PROVE  SchedIInv'
<1>1. /\ at \in [Requests -> SchedStages] /\ CallsInv
      /\ UNCHANGED <<workers, resourceVars, calls, kv, restartVars>>
  BY SMTT(20), Zenon DEF SchedIInv, Books, ResourceTypes, RegisterCall
<1>2. /\ at' \in [Requests -> SchedStages] /\ \A q \in Requests \ {r} : at'[q] = at[q]
      /\ \/ at[r] = "prepcall" /\ at'[r] = "prepare"
         \/ at[r] = "workcall" /\ at'[r] = "work"
  BY <1>1, Zenon DEF RegisterCall, SchedStages
<1>3. Books'
  <2>1. \A q \in queue : at'[q] = at[q]
    BY <1>1, <1>2, SMTT(20), Zenon DEF SchedIInv, Books, QueuedWait, ResourceTypes
  <2> QED
    BY <1>1, <1>2, <2>1, SameBooks, Zenon DEF SchedIInv, PrepareStages, WorkStages
<1>4. \A k \in {"prepare", "work"} : at'[r] \in Before(k) => at[r] \in Before(k)
  BY <1>2, Zenon DEF Before
<1>5. CASE at[r] = "prepcall" /\ Register(prepareCall(r), <<"prepared", r>>)
  <2>1. /\ prepareCall(r) \in Calls /\ <<"prepared", r>> \in Callbacks /\ prepareCall(r)[2] = r
        /\ CallbackFits(<<"prepared", r>>, prepareCall(r))'
    BY <1>2, <1>5, SMTT(20), Zenon DEF Calls, Callbacks, CallbackFits, prepareCall
  <2>2. CallsInv'
    BY <1>1, <1>2, <1>4, <1>5, <2>1, RegisterKeepsCalls, Zenon
  <2> QED
    BY <1>1, <1>3, <2>2, Zenon DEF SchedIInv, KvType
<1>6. CASE at[r] = "workcall" /\ Register(workCall(r), <<"finish", r>>)
  <2>1. /\ workCall(r) \in Calls /\ <<"finish", r>> \in Callbacks /\ workCall(r)[2] = r
        /\ CallbackFits(<<"finish", r>>, workCall(r))'
    BY <1>2, <1>6, SMTT(20), Zenon DEF Calls, Callbacks, CallbackFits, workCall
  <2>2. CallsInv'
    BY <1>1, <1>2, <1>4, <1>6, <2>1, RegisterKeepsCalls, Zenon
  <2> QED
    BY <1>1, <1>3, <2>2, Zenon DEF SchedIInv, KvType
<1> QED
  BY <1>5, <1>6, Zenon DEF RegisterCall

\* returnResult moves a call to the results or posts its callback.
LEMMA ReturnKeepsIInv ==
  ASSUME SchedIInv, NEW c \in Calls, returnResult(c)
  PROVE  SchedIInv'
<1>1. /\ c \in calls /\ calls' = calls \ {c} /\ CallsInv
      /\ UNCHANGED <<at, workers, resourceVars, callbacks, kv, restartVars>>
  BY Zenon DEF SchedIInv, returnResult
<1>2. Books'
  BY <1>1, SameBooks, SMTT(20), Zenon DEF SchedIInv, Books, ResourceTypes
<1>3. CASE /\ c \in DOMAIN callbacks /\ UNCHANGED results
           /\ posted' = posted \cup {[cb |-> callbacks[c], call |-> c, erase |-> TRUE]}
  <2> DEFINE new == [cb |-> callbacks[c], call |-> c, erase |-> TRUE]
  <2>1. /\ new \in [cb: Callbacks, call: Calls, erase: BOOLEAN]
        /\ new.cb = callbacks[c] /\ new.call = c /\ new.erase /\ posted' = posted \cup {new}
    BY <1>1, <1>3, SMTT(20), Zenon DEF CallsInv, CallTypes
  <2> HIDE DEF new
  <2>2. CallTypes'
    BY <1>1, <1>3, <2>1, SMTT(20), Zenon DEF CallsInv, CallTypes
  <2>3. CalledOnce'
    <3>1. /\ \A d \in calls' \cup results' : at'[d[2]] \notin Before(d[1])
          /\ \A p \in posted' : at'[p.call[2]] \notin Before(p.call[1])
      BY <1>1, <1>3, <2>1, Zenon DEF CallsInv, CalledOnce
    <3>2. c \notin results /\ \A p \in posted : p.call # c
      BY <1>1, Zenon DEF CallsInv, CalledOnce
    <3> QED
      BY <1>1, <1>3, <2>1, <3>1, <3>2, SMTT(20), Zenon DEF CallsInv, CalledOnce
  <2>4. \A b, d : CallbackFits(b, d)' <=> CallbackFits(b, d)
    BY <1>1, Zenon DEF CallbackFits
  <2>5. CallbacksFit'
    <3>1. \A d \in DOMAIN callbacks' : CallbackFits(callbacks[d], d)'
      BY <1>1, <2>4, Zenon DEF CallsInv, CallbacksFit, CallbackFits
    <3>2. \A p \in posted' : CallbackFits(p.cb, p.call)'
      BY <1>1, <1>3, <2>1, <2>4, Zenon DEF CallsInv, CallbacksFit
    <3> QED
      BY <1>1, <2>1, <3>1, <3>2, Zenon DEF CallsInv, CallbacksFit
  <2> QED
    BY <1>1, <1>2, <2>2, <2>3, <2>5, Zenon DEF SchedIInv, CallsInv, KvType
<1>4. CASE results' = results \cup {c} /\ UNCHANGED posted
  <2>1. CallTypes' /\ CalledOnce'
    BY <1>1, <1>4, Zenon DEF CallsInv, CallTypes, CalledOnce
  <2>2. CallbacksFit'
    BY <1>1, <1>4, ZenonT(30) DEF CallsInv, CallbacksFit, CallbackFits
  <2> QED
    BY <1>1, <1>2, <2>1, <2>2, SMTT(20), Zenon DEF SchedIInv, CallsInv, KvType
<1> QED
  BY <1>3, <1>4, SMTT(20), Zenon DEF returnResult

\* RunPosted runs a callback that fits the stage of its request; then no other
\* callback of that stage is left.
LEMMA PostedKeepsIInv ==
  ASSUME SchedIInv, NEW p \in posted, RunPosted(p)
  PROVE  SchedIInv'
<1> DEFINE r == p.cb[2]
<1>1. /\ r \in Requests /\ CallbackFits(p.cb, p.call) /\ at \in [Requests -> SchedStages] /\ p.erase \in BOOLEAN
      /\ CallsInv /\ p.cb \in Callbacks
  BY SMTT(20), Zenon DEF SchedIInv, Books, ResourceTypes, CallsInv, CallTypes, CallbacksFit, Callbacks
<1>2. /\ posted' = posted \ {p} /\ UNCHANGED <<workers, results, restartVars>>
      /\ callbacks' = IF p.erase THEN Without(callbacks, p.call) ELSE callbacks
  BY Zenon DEF RunPosted
<1>3. /\ DOMAIN callbacks' \subseteq DOMAIN callbacks
      /\ \A c \in DOMAIN callbacks' : callbacks'[c] = callbacks[c]
      /\ p.erase => p.call \notin DOMAIN callbacks'
      /\ ~p.erase => callbacks' = callbacks
  BY <1>1, <1>2, SMTT(20), Zenon DEF Without
<1>4. ASSUME p.cb[1] # "attached"
      PROVE  /\ \A c \in DOMAIN callbacks' : callbacks[c][2] # r
             /\ \A q \in posted' : q.cb[2] # r
  <2>1. \/ p.call = prepareCall(r) /\ at[r] = "prepare"
        \/ p.call = workCall(r) /\ at[r] = "work"
    BY <1>1, <1>4, SMTT(20), Zenon DEF CallbackFits
  <2>2. ASSUME NEW b, NEW d, CallbackFits(b, d), b[2] = r PROVE d = p.call /\ b[1] # "attached"
    BY <2>1, <2>2, SMTT(20), Zenon DEF CallbackFits
  <2>3. \A q \in posted' : q.cb[2] # r
    BY <1>1, <1>2, <2>2, SMTT(20), Zenon DEF CallsInv, CallbacksFit, CalledOnce
  <2>4. \A c \in DOMAIN callbacks' : callbacks[c][2] # r
    BY <1>1, <1>3, <2>2, SMTT(20), Zenon DEF CallsInv, CallbacksFit
  <2> QED
    BY <2>3, <2>4, Zenon
<1>5. ASSUME Books', KvType', \A q \in Requests \ {r} : Advance(q), p.cb[1] # "attached",
             \/ at[r] = "prepare" /\ at'[r] = "workcall" /\ calls' = calls \cup {<<"work", r>>}
             \/ at[r] \in {"prepare", "work"} /\ at'[r] = "done" /\ calls' = calls
      PROVE  SchedIInv'
  <2>1. \A k \in {"prepare", "work"} : at'[r] \in Before(k) => at[r] \in Before(k)
    BY <1>5, SMTT(20), Zenon DEF Before
  <2>2. \/ calls' = calls
        \/ \E k \in {"prepare", "work"} :
             calls' = calls \cup {<<k, r>>} /\ at[r] \in Before(k) /\ at'[r] \notin Before(k)
    BY <1>5, Zenon DEF Before
  <2> HIDE DEF r
  <2>3. CallsInv'
    BY <1>1, <1>2, <1>3, <1>4, <1>5, <2>1, <2>2, CallsShrink, Zenon
  <2> QED
    BY <1>2, <1>5, <2>3, Zenon DEF SchedIInv
<1>6. CASE p.cb[1] = "prepared" /\ StartWork(r)
  <2>1. at[r] = "prepare" /\ at[r] \in PrepareStages
    BY <1>1, <1>6, SMTT(20), Zenon DEF CallbackFits, PrepareStages
  <2> HIDE DEF r
  <2>2. /\ Books' /\ KvType' /\ (\A q \in Requests \ {r} : Advance(q))
        /\ \/ at'[r] = "workcall" /\ calls' = calls \cup {workCall(r)}
           \/ at'[r] = "done" /\ calls' = calls
    BY <1>1, <1>6, <2>1, StartKeepsBooks, Zenon
  <2> QED
    BY <1>5, <1>6, <2>1, <2>2, Zenon DEF workCall
<1>7. CASE p.cb[1] = "finish" /\ Finish(r)
  <2>1. at[r] = "work"
    BY <1>1, <1>7, SMTT(20), Zenon DEF CallbackFits
  <2> HIDE DEF r
  <2>2. Books' /\ at'[r] = "done" /\ (\A q \in Requests \ {r} : Advance(q))
    BY <1>1, <1>7, <2>1, FinishKeepsBooks, SMTT(20), Zenon DEF SchedIInv
  <2>3. KvType' /\ calls' = calls
    BY <1>7, AnsweredKeepsType, Zenon DEF SchedIInv, Finish
  <2> QED
    BY <1>5, <1>7, <2>1, <2>2, <2>3, Zenon
<1>8. CASE p.cb[1] = "attached" /\ at' = [at EXCEPT ![r] = "done"] /\ Answered(r) /\ UNCHANGED <<resourceVars, calls>>
  <2>1. at[r] \in {"attached", "done"}
    BY <1>1, <1>8, Zenon DEF CallbackFits
  <2>2. /\ at' \in [Requests -> SchedStages] /\ at'[r] = "done" /\ \A q \in Requests \ {r} : at'[q] = at[q]
    BY <1>1, <1>8, SMTT(20), Zenon DEF SchedStages
  <2>3. Books'
    <3>1. \A q \in queue : at'[q] = at[q]
      BY <2>1, <2>2, SMTT(20), Zenon DEF SchedIInv, Books, QueuedWait, ResourceTypes
    <3> QED
      BY <1>8, <2>1, <2>2, <3>1, SameBooks, Zenon DEF SchedIInv, PrepareStages, WorkStages
  <2>4. KvType'
    BY <1>8, AnsweredKeepsType, SMTT(20), Zenon DEF SchedIInv
  <2>5. \A c \in DOMAIN callbacks' : callbacks[c][2] = r => CallbackFits(callbacks[c], c)'
    <3>1. SUFFICES ASSUME NEW c \in DOMAIN callbacks', callbacks[c][2] = r PROVE CallbackFits(callbacks[c], c)'
      BY Zenon
    <3>2. c \in DOMAIN callbacks /\ callbacks'[c] = callbacks[c] /\ CallbackFits(callbacks[c], c)
      BY <1>1, <1>3, Zenon DEF CallsInv, CallbacksFit
    <3>3. callbacks[c][1] = "attached"
      BY <2>1, <3>1, <3>2, Zenon DEF CallbackFits
    <3> QED
      BY <2>2, <3>1, <3>2, <3>3, SMTT(20), Zenon DEF CallbackFits
  <2>6. \A q \in posted' : q.cb[2] = r => CallbackFits(q.cb, q.call)'
    BY <1>1, <1>2, <2>1, <2>2, Zenon DEF CallsInv, CallbacksFit, CallbackFits
  <2>7. (\A q \in Requests \ {r} : Advance(q)) /\ (\A k \in {"prepare", "work"} : at'[r] \notin Before(k))
    BY <2>2, Zenon DEF Advance, Before
  <2> HIDE DEF r
  <2>8. CallsInv'
    BY <1>1, <1>2, <1>3, <1>8, <2>5, <2>6, <2>7, CallsShrink, ZenonT(30)
  <2> QED
    BY <1>2, <2>3, <2>4, <2>8, SMTT(20), Zenon DEF SchedIInv
<1> QED
  BY <1>6, <1>7, <1>8, Zenon DEF RunPosted

\* A restart empties the books and keeps calls of remote workers.
LEMMA RestartKeepsIInv ==
  ASSUME SchedIInv, Restart
  PROVE  SchedIInv'
<1> USE DEF Restart
<1>1. /\ at' \in [Requests -> {"idle", "refused", "done", "lost"}]
      /\ \A r \in Requests : at'[r] = "idle" => at[r] = "idle"
  BY Zenon DEF SchedIInv, Books, ResourceTypes
<1>2. Preparing' = {} /\ Working' = {}
  BY <1>1, SMTT(20), Zenon DEF Preparing, Working, PrepareStages, WorkStages
<1>3. ResourcesBalance'
  <2>1. Total({}) = 0 /\ Cardinality({}) = 0
    BY TotalEmpty, FS_EmptySet, SMTT(20), Zenon
  <2>2. ASSUME NEW w \in Workers
        PROVE  {r \in Preparing' : on'[r] = w} = {} /\ {r \in Working' : on'[r] = w} = {}
    BY <1>2, Zenon
  <2> QED
    BY <1>2, <2>1, <2>2, Zenon DEF ResourcesBalance
<1>4. ResourceTypes'
  BY <1>1, SMTT(20), Zenon DEF ResourceTypes, SchedStages
<1>5. Placed' /\ QueuedWait'
  BY <1>2, Zenon DEF Placed, QueuedWait
<1>6. CallTypes'
  BY SMTT(20), Zenon DEF SchedIInv, CallsInv, CallTypes
<1>7. CalledOnce'
  BY <1>1, <1>6, Zenon DEF SchedIInv, CallsInv, CallTypes, CalledOnce, Before, Calls
<1>8. CallbacksFit'
  BY Zenon DEF CallbacksFit
<1> QED
  BY <1>3, <1>4, <1>5, <1>6, <1>7, <1>8, Zenon DEF SchedIInv, Books, CallsInv, KvType

\* Every step of the scheduler keeps the invariant.
LEMMA SchedStep ==
  ASSUME SchedIInv, [SchedNext]_schedVars
  PROVE  SchedIInv'
<1>1. CASE SchedNext
  BY <1>1, NewWorkerKeepsIInv, KnownKeepsIInv, NewKeepsIInv, DeliverKeepsIInv, AssignedKeepsIInv,
     RegisterCallKeepsIInv, ReturnKeepsIInv, PostedKeepsIInv, RestartKeepsIInv, Zenon DEF SchedNext
<1>2. CASE UNCHANGED schedVars
  <2> USE DEF schedVars
  <2>1. Books'
    BY <1>2, Zenon DEF SchedIInv, Books, ResourceTypes, ResourcesBalance, Placed, QueuedWait, Preparing, Working
  <2>2. CallsInv'
    BY <1>2, Zenon DEF SchedIInv, CallsInv, CallTypes, CalledOnce, CallbacksFit, CallbackFits
  <2> QED
    BY <1>2, <2>1, <2>2, Zenon DEF SchedIInv, KvType
<1> QED
  BY <1>1, <1>2, Zenon

\* The invariant holds in every reachable state.
LEMMA SchedInvariant == SchedSpec => []SchedIInv
BY SchedInitIInv, SchedStep, PTL DEF SchedSpec

(***************************************************************************)
(* The state of SchedulerImpl is well-typed: above all, what assignWorker  *)
(* takes from a worker's counters never exceeds what it added to them, and *)
(* every request is on a worker that its selector accepts.                 *)
(***************************************************************************)
THEOREM SchedTypeCorrect == SchedSpec => []SchedTypeOK
<1>1. SchedIInv => SchedTypeOK
  BY Zenon DEF SchedIInv, Books, ResourceTypes, CallsInv, CallTypes, KvType, SchedTypeOK
<1> QED
  BY <1>1, SchedInvariant, PTL

(***************************************************************************)
(* The counters of a worker are what its requests need, whoever schedules  *)
(* what, in which order callbacks and results arrive and whenever the      *)
(* process restarts (assignWorker, freeWorker, returnResult).              *)
(***************************************************************************)
THEOREM BooksBalance == SchedSpec => []ResourcesBalance
<1>1. SchedIInv => ResourcesBalance
  BY Zenon DEF SchedIInv, Books
<1> QED
  BY <1>1, SchedInvariant, PTL

-----------------------------------------------------------------------------
(***************************************************************************)
(* No work runs twice when owners wait for their answers.                  *)
(***************************************************************************)

\* Calls are told apart by their kind and their request.
LEMMA CallsDiffer ==
  ASSUME NEW q, NEW r
  PROVE  /\ workCall(q) # Beginning /\ workCall(q) # prepareCall(r)
         /\ workCall(q) = workCall(r) => q = r
BY Zenon DEF workCall, prepareCall, Beginning

\* What is recorded of work that r is not about stays.
OtherRecordsStay(r) ==
  /\ DOMAIN kv \ {WorkId[r]} = DOMAIN kv' \ {WorkId[r]}
  /\ \A i \in DOMAIN kv \ {WorkId[r]} : kv'[i] = kv[i]
  /\ WorkId[r] = NoId => kv' = kv

\* No other request about the work of r is under way.
Alone(r) == WorkId[r] # NoId => \A q \in Requests \ {r} : WorkId[q] = WorkId[r] => ~Live(q)

\* While r is under way it is alone.
LEMMA LiveAlone ==
  ASSUME OnceIInv, NEW r \in Requests, Live(r)
  PROVE  Alone(r)
BY Zenon DEF OnceIInv, OneLive, Alone

(***************************************************************************)
(* A step of one request keeps the invariant when it leaves the records of *)
(* other work alone and those of its own right.                            *)
(***************************************************************************)
LEMMA MoveKeepsOnce ==
  ASSUME OnceIInv, NEW r \in Requests, Alone(r), OtherRecordsStay(r),
         \A q \in Requests \ {r} : Advance(q),
         \A q \in Working' : on'[q] = on[q],
         WorkId[r] # NoId => RecordFits(r)',
         WorkId[r] \in DOMAIN kv' =>
           \/ kv'[WorkId[r]] = Beginning \/ kv'[WorkId[r]] = workCall(r)
           \/ WorkId[r] \in DOMAIN kv /\ kv'[WorkId[r]] = kv[WorkId[r]],
         \A q \in Requests : workCall(q) \in calls' /\ WorkId[q] = WorkId[r] /\ WorkId[q] # NoId =>
           InKv(q)' /\ (kv'[WorkId[q]] = workCall(q) \/ at'[q] \in WorkStages),
         \A q \in Requests : workCall(q) \in calls' /\ WorkId[q] # WorkId[r] => workCall(q) \in calls,
         \A q \in Requests \ {r} :
           at[q] = "delivering" /\ WorkId[q] # NoId /\ kv[WorkId[q]] \in results => kv[WorkId[q]] \in results',
         \A c \in DOMAIN callbacks' :
           \/ callbacks'[c] \in Callbacks /\ callbacks'[c][2] # r /\ AttachedTo(callbacks'[c], c)
           \/ AttachedTo(callbacks[c], c)',
         \A p \in posted' :
           \/ p.cb \in Callbacks /\ p.cb[2] # r /\ AttachedTo(p.cb, p.call)
           \/ AttachedTo(p.cb, p.call)'
  PROVE  OnceIInv'
<1>1. ASSUME NEW q \in Requests \ {r}, WorkId[q] # NoId, Live(q)
      PROVE  WorkId[q] # WorkId[r] /\ (InKv(q) => InKv(q)' /\ kv'[WorkId[q]] = kv[WorkId[q]])
  BY <1>1, Zenon DEF Alone, OtherRecordsStay, InKv
<1>2. ASSUME NEW q \in Requests \ {r}
      PROVE  Live(q)' => Live(q)
  BY Zenon DEF Live, Advance
<1>3. OneLive'
  <2>1. ASSUME NEW q \in Requests, NEW s \in Requests, WorkId[q] = WorkId[s], WorkId[s] # NoId,
               Live(q)', Live(s)'
        PROVE  q = s
    BY <1>1, <1>2, <2>1, Zenon DEF OnceIInv, OneLive
  <2> QED
    BY <2>1, Zenon DEF OneLive, Live
<1>4. RecordsName'
  <2>1. ASSUME NEW i \in DOMAIN kv'
        PROVE  kv'[i] = Beginning \/ \E q \in Requests : kv'[i] = workCall(q) /\ WorkId[q] = i
    <3>1. CASE i = WorkId[r]
      <4>1. \/ kv'[i] = Beginning \/ kv'[i] = workCall(r)
            \/ i \in DOMAIN kv /\ kv'[i] = kv[i]
        BY <2>1, <3>1, Zenon
      <4>2. ASSUME i \in DOMAIN kv
            PROVE  kv[i] = Beginning \/ \E q \in Requests : kv[i] = workCall(q) /\ WorkId[q] = i
        BY <4>2, Zenon DEF OnceIInv, RecordsName
      <4> QED
        BY <3>1, <4>1, <4>2, Zenon
    <3>2. CASE i # WorkId[r]
      <4>1. i \in DOMAIN kv /\ kv'[i] = kv[i]
        BY <3>2, Zenon DEF OtherRecordsStay
      <4> QED
        BY <4>1, ZenonT(30) DEF OnceIInv, RecordsName
    <3> QED
      BY <3>1, <3>2, ZenonT(30)
  <2> QED
    BY <2>1, ZenonT(30) DEF RecordsName, workCall
<1>5. CallsRecorded'
  <2>1. ASSUME NEW q \in Requests, workCall(q) \in calls', WorkId[q] # NoId, WorkId[q] # WorkId[r]
        PROVE  InKv(q)' /\ (kv'[WorkId[q]] = workCall(q) \/ at'[q] \in WorkStages)
    <3>1. workCall(q) \in calls /\ InKv(q) /\ (kv[WorkId[q]] = workCall(q) \/ at[q] \in WorkStages)
      BY <2>1, Zenon DEF OnceIInv, CallsRecorded
    <3>2. InKv(q)' /\ kv'[WorkId[q]] = kv[WorkId[q]]
      BY <2>1, <3>1, Zenon DEF InKv, OtherRecordsStay
    <3>3. at[q] \in WorkStages => at'[q] \in WorkStages
      BY <2>1, Zenon DEF Advance, WorkStages
    <3> QED
      BY <3>1, <3>2, <3>3, Zenon
  <2> QED
    BY <2>1, Zenon DEF CallsRecorded, workCall, InKv
<1>6. ASSUME NEW q \in Requests, WorkId[q] # NoId PROVE RecordFits(q)'
  <2>1. CASE q = r
    BY <1>6, <2>1, Zenon
  <2>2. CASE q # r /\ ~Live(q)
    <3>1. at'[q] \in {"idle", "refused", "done", "lost"}
      BY <2>2, Zenon DEF Live, Advance
    <3> QED
      BY <3>1, Zenon DEF RecordFits, WorkStages
  <2>3. CASE q # r /\ Live(q)
    <3>1. RecordFits(q) /\ (InKv(q) => InKv(q)' /\ kv'[WorkId[q]] = kv[WorkId[q]])
      BY <1>1, <1>6, <2>3, Zenon DEF OnceIInv
    <3>2. at'[q] = at[q] \/ (at[q] = "queued" /\ at'[q] = "assigned")
      BY <2>3, Zenon DEF Advance
    <3>3. at'[q] \in WorkStages => on'[q] = on[q]
      BY Zenon DEF Working
    <3>4. InKv(q)' <=> (WorkId[q] # NoId /\ WorkId[q] \in DOMAIN kv')
      BY Zenon DEF InKv
    <3>5. CASE at[q] \in {"queued", "assigned", "prepcall", "prepare"}
      BY <3>1, <3>2, <3>5, Zenon DEF RecordFits, WorkStages, InKv
    <3>6. CASE at[q] \in WorkStages
      BY <3>1, <3>2, <3>3, <3>6, Zenon DEF RecordFits, WorkStages, InKv, workCall
    <3>7. CASE at[q] = "delivering"
      BY <1>6, <2>3, <3>1, <3>2, <3>7, Zenon DEF RecordFits, WorkStages, InKv
    <3>8. CASE at[q] = "attached"
      BY <3>1, <3>2, <3>8, Zenon DEF RecordFits, WorkStages, InKv
    <3>9. CASE at[q] \notin {"queued", "assigned", "prepcall", "prepare", "delivering", "attached"} \cup WorkStages
      BY <3>2, <3>9, Zenon DEF RecordFits
    <3> QED
      BY <3>5, <3>6, <3>7, <3>8, <3>9, Zenon
  <2> QED
    BY <2>1, <2>2, <2>3, Zenon
<1>7. ASSUME NEW cb \in Callbacks, NEW c, cb[2] # r, AttachedTo(cb, c) PROVE AttachedTo(cb, c)'
  <2>1. SUFFICES ASSUME cb[1] = "attached"
                 PROVE  at'[cb[2]] = "attached" /\ WorkId[cb[2]] # NoId /\ kv'[WorkId[cb[2]]] = c
    BY Zenon DEF AttachedTo
  <2>2. cb[2] \in Requests \ {r} /\ at[cb[2]] = "attached" /\ WorkId[cb[2]] # NoId /\ kv[WorkId[cb[2]]] = c
    BY <1>7, <2>1, Zenon DEF AttachedTo, Callbacks
  <2>3. InKv(cb[2]) /\ Live(cb[2])
    BY <2>2, Zenon DEF OnceIInv, RecordFits, Live
  <2> QED
    BY <1>1, <2>2, <2>3, Zenon DEF Advance
<1>8. ASSUME NEW c \in DOMAIN callbacks' PROVE AttachedTo(callbacks[c], c)'
  <2>1. CASE callbacks'[c] \in Callbacks /\ callbacks'[c][2] # r /\ AttachedTo(callbacks'[c], c)
    <3>1. PICK cb \in Callbacks : cb = callbacks'[c]
      BY <2>1, Zenon
    <3>2. AttachedTo(cb, c)'
      BY <1>7, <2>1, <3>1, ZenonT(30)
    <3> QED
      BY <3>1, <3>2, Zenon DEF AttachedTo
  <2> QED
    BY <2>1, Zenon
<1>9. \A p \in posted' : AttachedTo(p.cb, p.call)'
  BY <1>7, ZenonT(30)
<1> QED
  BY <1>3, <1>4, <1>5, <1>6, <1>8, <1>9, Zenon DEF OnceIInv

\* Callbacks that stay, none of them attached to r.
LEMMA OldCallbacks ==
  ASSUME SchedIInv, OnceIInv, NEW r \in Requests,
         posted' \subseteq posted, DOMAIN callbacks' \subseteq DOMAIN callbacks,
         \A c \in DOMAIN callbacks' : callbacks'[c] = callbacks[c],
         \A c \in DOMAIN callbacks' : callbacks[c][1] = "attached" => callbacks[c][2] # r,
         \A p \in posted' : p.cb[1] = "attached" => p.cb[2] # r
  PROVE  /\ \A c \in DOMAIN callbacks' :
              \/ callbacks'[c] \in Callbacks /\ callbacks'[c][2] # r /\ AttachedTo(callbacks'[c], c)
              \/ AttachedTo(callbacks[c], c)'
         /\ \A p \in posted' :
              \/ p.cb \in Callbacks /\ p.cb[2] # r /\ AttachedTo(p.cb, p.call)
              \/ AttachedTo(p.cb, p.call)'
<1>1. \A c \in DOMAIN callbacks' : callbacks[c] \in Callbacks /\ AttachedTo(callbacks[c], c)
  BY Zenon DEF SchedIInv, CallsInv, CallTypes, OnceIInv
<1>2. \A p \in posted' : p.cb \in Callbacks /\ AttachedTo(p.cb, p.call)
  BY Zenon DEF SchedIInv, CallsInv, CallTypes, OnceIInv
<1>3. \A c \in DOMAIN callbacks' : callbacks[c][1] # "attached" => AttachedTo(callbacks[c], c)'
  BY SMTT(20), Zenon DEF AttachedTo
<1>4. \A p \in posted' : p.cb[1] # "attached" => AttachedTo(p.cb, p.call)'
  BY Zenon DEF AttachedTo
<1> QED
  BY <1>1, <1>2, <1>3, <1>4, ZenonT(30)

\* Only an attached request has an attached callback.
LEMMA AttachedOnly ==
  ASSUME OnceIInv, NEW r, at[r] # "attached"
  PROVE  /\ \A c \in DOMAIN callbacks : callbacks[c][1] = "attached" => callbacks[c][2] # r
         /\ \A p \in posted : p.cb[1] = "attached" => p.cb[2] # r
BY SMTT(20), Zenon DEF OnceIInv, AttachedTo

\* A request is answered when no call of its work runs any more.
LEMMA AnswerKeepsOnce ==
  ASSUME SchedIInv, OnceIInv, NEW r \in Requests, Live(r), at'[r] = "done", Answered(r),
         \A q \in Requests \ {r} : Advance(q),
         \A q \in Working' : on'[q] = on[q],
         calls' = calls,
         WorkId[r] # NoId => \A q \in Requests : WorkId[q] = WorkId[r] => workCall(q) \notin calls,
         \A q \in Requests \ {r} :
           at[q] = "delivering" /\ WorkId[q] # NoId /\ kv[WorkId[q]] \in results => kv[WorkId[q]] \in results',
         posted' \subseteq posted, DOMAIN callbacks' \subseteq DOMAIN callbacks,
         \A c \in DOMAIN callbacks' : callbacks'[c] = callbacks[c],
         \A c \in DOMAIN callbacks' : callbacks[c][1] = "attached" => callbacks[c][2] # r,
         \A p \in posted' : p.cb[1] = "attached" => p.cb[2] # r
  PROVE  OnceIInv'
<1>1. Alone(r)
  BY LiveAlone, Zenon
<1>2. OtherRecordsStay(r) /\ (WorkId[r] \in DOMAIN kv' => WorkId[r] \in DOMAIN kv /\ kv'[WorkId[r]] = kv[WorkId[r]])
  BY Zenon DEF OtherRecordsStay, Answered, Without
<1>3. RecordFits(r)'
  BY Zenon DEF RecordFits, WorkStages
<1>4. \A q \in Requests : workCall(q) \in calls' /\ WorkId[q] = WorkId[r] /\ WorkId[q] # NoId => FALSE
  BY Zenon
<1>5. /\ \A c \in DOMAIN callbacks' :
           \/ callbacks'[c] \in Callbacks /\ callbacks'[c][2] # r /\ AttachedTo(callbacks'[c], c)
           \/ AttachedTo(callbacks[c], c)'
      /\ \A p \in posted' :
           \/ p.cb \in Callbacks /\ p.cb[2] # r /\ AttachedTo(p.cb, p.call)
           \/ AttachedTo(p.cb, p.call)'
  BY OldCallbacks, Zenon
<1> QED
  BY <1>1, <1>2, <1>3, <1>4, <1>5, MoveKeepsOnce, Zenon

\* Before its call is made, r's work has no call running.
LEMMA NoCallBefore ==
  ASSUME OnceIInv, NEW r \in Requests, WorkId[r] # NoId, WorkId[r] \in DOMAIN kv => kv[WorkId[r]] = Beginning,
         at[r] \notin WorkStages, Alone(r)
  PROVE  \A q \in Requests : WorkId[q] = WorkId[r] => workCall(q) \notin calls
<1>1. SUFFICES ASSUME NEW q \in Requests, WorkId[q] = WorkId[r], workCall(q) \in calls PROVE FALSE
  BY Zenon
<1>2. InKv(q) /\ (kv[WorkId[q]] = workCall(q) \/ at[q] \in WorkStages)
  BY <1>1, Zenon DEF OnceIInv, CallsRecorded
<1>3. at[q] \in WorkStages
  BY <1>1, <1>2, CallsDiffer, Zenon DEF InKv
<1>4. Live(q)
  BY <1>3, Zenon DEF Live, WorkStages
<1> QED
  BY <1>1, <1>3, <1>4, Zenon DEF Alone

\* newWorker, and any step that only takes requests from the queue.
LEMMA NewWorkerKeepsOnce ==
  ASSUME SchedIInv, OnceIInv, NEW w \in Workers, newWorker(w)
  PROVE  OnceIInv'
<1>1. UNCHANGED <<callVars, kv>>
  BY SMTT(20), Zenon DEF newWorker
<1>2. (\A q \in Requests : Advance(q)) /\ (\A q \in Working' : on'[q] = on[q])
  BY NewWorkerKeepsIInv, SMTT(20), Zenon
<1>3. OneLive'
  BY <1>2, Zenon DEF OnceIInv, OneLive, Live, Advance
<1>4. RecordsName' /\ CallsRecorded'
  <2>1. \A q \in Requests : at[q] \in WorkStages => at'[q] \in WorkStages
    BY <1>2, Zenon DEF Advance, WorkStages
  <2> QED
    BY <1>1, <2>1, Zenon DEF OnceIInv, RecordsName, CallsRecorded, callVars, InKv, workCall
<1>5. ASSUME NEW r \in Requests, WorkId[r] # NoId PROVE RecordFits(r)'
  <2>1. RecordFits(r) /\ Advance(r) /\ (at'[r] \in WorkStages => on'[r] = on[r])
    BY <1>2, <1>5, Zenon DEF OnceIInv, Working
  <2> QED
    BY <1>1, <2>1, ZenonT(30) DEF RecordFits, Advance, WorkStages, InKv, callVars, workCall
<1>6. ASSUME NEW cb \in Callbacks, NEW c, AttachedTo(cb, c) PROVE AttachedTo(cb, c)'
  BY <1>1, <1>2, <1>6, SMTT(20), Zenon DEF AttachedTo, Advance, Callbacks
<1>7. /\ \A c \in DOMAIN callbacks' : AttachedTo(callbacks[c], c)'
      /\ \A p \in posted' : AttachedTo(p.cb, p.call)'
  <2>1. \A c \in DOMAIN callbacks : callbacks[c] \in Callbacks /\ AttachedTo(callbacks[c], c)
    BY Zenon DEF SchedIInv, CallsInv, CallTypes, OnceIInv
  <2>2. \A p \in posted : p.cb \in Callbacks /\ AttachedTo(p.cb, p.call)
    BY Zenon DEF SchedIInv, CallsInv, CallTypes, OnceIInv
  <2>3. ASSUME NEW c \in DOMAIN callbacks' PROVE AttachedTo(callbacks[c], c)'
    <3>1. PICK cb \in Callbacks : cb = callbacks[c] /\ AttachedTo(cb, c)
      BY <1>1, <2>1, Zenon DEF callVars
    <3>2. AttachedTo(cb, c)' /\ cb = callbacks'[c]
      BY <1>1, <1>6, <3>1, Zenon DEF callVars
    <3> QED
      BY <3>2, SMTT(20), Zenon DEF AttachedTo
  <2> QED
    BY <1>1, <1>6, <2>2, <2>3, Zenon DEF callVars
<1> QED
  BY <1>3, <1>4, <1>5, <1>7, SMTT(20), Zenon DEF OnceIInv

\* Owners that wait for their answers schedule work that no one is about.
LEMMA ScheduledAlone ==
  ASSUME ~Duplicates, NEW r \in Requests, MaySchedule(r)
  PROVE  Alone(r)
BY SMTT(20), Zenon DEF MaySchedule, Alone, Live

\* scheduleKnown
LEMMA KnownKeepsOnce ==
  ASSUME SchedIInv, OnceIInv, ~Duplicates, NEW r \in Requests, scheduleKnown(r)
  PROVE  OnceIInv'
<1> DEFINE c == kv[WorkId[r]]
<1>1. /\ Alone(r) /\ at[r] = "idle" /\ InKv(r) /\ at \in [Requests -> SchedStages]
      /\ UNCHANGED <<workers, resourceVars, results, posted, calls, kv, restartVars>>
  BY ScheduledAlone, Zenon DEF scheduleKnown, MaySchedule, SchedIInv, Books, ResourceTypes
<1>2. /\ \A q \in Requests \ {r} : at'[q] = at[q]
      /\ \/ at'[r] = "ignored" \/ (at'[r] = "delivering" /\ c \in results) \/ at'[r] = "attached"
  BY <1>1, Zenon DEF scheduleKnown
<1>3. OtherRecordsStay(r) /\ (\A q \in Requests \ {r} : Advance(q)) /\ (\A q \in Working' : on'[q] = on[q])
  BY <1>1, <1>2, Zenon DEF OtherRecordsStay, Advance, resourceVars
<1>4. RecordFits(r)'
  BY <1>1, <1>2, Zenon DEF RecordFits, WorkStages, InKv
<1>5. ASSUME NEW q \in Requests, workCall(q) \in calls', WorkId[q] = WorkId[r], WorkId[q] # NoId
      PROVE  InKv(q)' /\ (kv'[WorkId[q]] = workCall(q) \/ at'[q] \in WorkStages)
  <2>1. InKv(q) /\ (kv[WorkId[q]] = workCall(q) \/ at[q] \in WorkStages)
    BY <1>1, <1>5, Zenon DEF OnceIInv, CallsRecorded
  <2>2. at[q] \in WorkStages => at'[q] \in WorkStages
    BY <1>1, <1>2, Zenon DEF WorkStages
  <2> QED
    BY <1>1, <2>1, <2>2, Zenon DEF InKv
<1>6. /\ \A d \in DOMAIN callbacks : callbacks[d] \in Callbacks /\ AttachedTo(callbacks[d], d)
      /\ \A d \in DOMAIN callbacks : callbacks[d][1] = "attached" => callbacks[d][2] # r
      /\ \A p \in posted : p.cb \in Callbacks /\ AttachedTo(p.cb, p.call)
      /\ \A p \in posted : p.cb[1] = "attached" => p.cb[2] # r
  BY <1>1, AttachedOnly, Zenon DEF SchedIInv, CallsInv, CallTypes, OnceIInv
<1>7. ASSUME NEW d \in DOMAIN callbacks'
      PROVE  \/ callbacks'[d] \in Callbacks /\ callbacks'[d][2] # r /\ AttachedTo(callbacks'[d], d)
             \/ AttachedTo(callbacks[d], d)'
  <2>1. CASE d \in DOMAIN callbacks /\ callbacks'[d] = callbacks[d]
    <3>1. callbacks'[d][1] # "attached" => AttachedTo(callbacks[d], d)'
      BY SMTT(20), Zenon DEF AttachedTo
    <3> QED
      BY <1>6, <2>1, <3>1, SMTT(20), Zenon
  <2>2. CASE d = c /\ callbacks'[d] = <<"attached", r>> /\ at'[r] = "attached"
    BY <1>1, <2>2, SMTT(20), Zenon DEF AttachedTo, InKv
  <2>3. \/ callbacks' = callbacks
        \/ callbacks' = With(callbacks, c, <<"attached", r>>) /\ at'[r] = "attached"
    BY <1>1, Zenon DEF scheduleKnown
  <2> HIDE DEF c
  <2>4. CASE callbacks' = With(callbacks, c, <<"attached", r>>) /\ at'[r] = "attached"
    <3>1. /\ d \in DOMAIN callbacks \cup {c}
          /\ callbacks'[d] = IF d = c THEN <<"attached", r>> ELSE callbacks[d]
      BY <2>4, Zenon DEF With
    <3> QED
      BY <2>1, <2>2, <2>4, <3>1, SMTT(20), Zenon
  <2> QED
    BY <2>1, <2>3, <2>4, Zenon
<1>8. ASSUME NEW p \in posted'
      PROVE  \/ p.cb \in Callbacks /\ p.cb[2] # r /\ AttachedTo(p.cb, p.call)
             \/ AttachedTo(p.cb, p.call)'
  <2>1. p.cb[1] # "attached" => AttachedTo(p.cb, p.call)'
    BY Zenon DEF AttachedTo
  <2> QED
    BY <1>1, <1>6, <2>1, Zenon
<1>9. calls' = calls /\ results' = results /\ kv' = kv
  BY <1>1, Zenon
<1> QED
  BY <1>1, <1>3, <1>4, <1>5, <1>7, <1>8, <1>9, MoveKeepsOnce, Zenon

\* scheduleNew
LEMMA NewKeepsOnce ==
  ASSUME SchedIInv, OnceIInv, ~Duplicates, NEW r \in Requests, scheduleNew(r)
  PROVE  OnceIInv'
<1>1. /\ Alone(r) /\ at[r] = "idle" /\ ~InKv(r) /\ at \in [Requests -> SchedStages]
      /\ UNCHANGED callVars
      /\ kv' = IF WorkId[r] = NoId THEN kv ELSE With(kv, WorkId[r], Beginning)
  BY ScheduledAlone, Zenon DEF scheduleNew, MaySchedule, SchedIInv, Books, ResourceTypes
<1>2. (\A q \in Requests \ {r} : at'[q] = at[q]) /\ at'[r] \in {"refused", "assigned", "queued"}
  BY <1>1, Zenon DEF scheduleNew
<1>3. (\A q \in Requests \ {r} : Advance(q)) /\ (\A q \in Working' : on'[q] = on[q])
  BY <1>2, NewKeepsIInv, SMTT(20), Zenon DEF Advance
<1>4. /\ OtherRecordsStay(r)
      /\ WorkId[r] # NoId => WorkId[r] \in DOMAIN kv' /\ kv'[WorkId[r]] = Beginning
      /\ WorkId[r] = NoId => kv' = kv
  BY <1>1, Zenon DEF OtherRecordsStay, With
<1>5. WorkId[r] # NoId => RecordFits(r)'
  BY <1>2, <1>4, Zenon DEF RecordFits, WorkStages, InKv
<1>6. \A q \in Requests : workCall(q) \in calls /\ WorkId[q] = WorkId[r] /\ WorkId[q] # NoId => FALSE
  BY <1>1, Zenon DEF OnceIInv, CallsRecorded, InKv
<1>7. /\ posted' = posted /\ callbacks' = callbacks /\ calls' = calls /\ results' = results
  BY <1>1, Zenon DEF callVars
<1>8. /\ \A c \in DOMAIN callbacks' :
           \/ callbacks'[c] \in Callbacks /\ callbacks'[c][2] # r /\ AttachedTo(callbacks'[c], c)
           \/ AttachedTo(callbacks[c], c)'
      /\ \A p \in posted' :
           \/ p.cb \in Callbacks /\ p.cb[2] # r /\ AttachedTo(p.cb, p.call)
           \/ AttachedTo(p.cb, p.call)'
  <2>1. /\ \A c \in DOMAIN callbacks : callbacks[c][1] = "attached" => callbacks[c][2] # r
        /\ \A p \in posted : p.cb[1] = "attached" => p.cb[2] # r
    BY <1>1, AttachedOnly, ZenonT(30)
  <2> QED
    BY <1>7, <2>1, OldCallbacks, Zenon
<1> QED
  BY <1>1, <1>3, <1>4, <1>5, <1>6, <1>7, <1>8, MoveKeepsOnce, Zenon

\* DeliverResult: the result was that of the recorded call.
LEMMA DeliverKeepsOnce ==
  ASSUME SchedIInv, OnceIInv, NEW r \in Requests, DeliverResult(r)
  PROVE  OnceIInv'
<1> DEFINE c == kv[WorkId[r]]
<1>1. /\ at[r] = "delivering" /\ Live(r) /\ at \in [Requests -> SchedStages] /\ Answered(r)
      /\ results' = IF InKv(r) THEN results \ {c} ELSE results
      /\ UNCHANGED <<workers, resourceVars, callbacks, posted, calls, restartVars>>
  BY Zenon DEF DeliverResult, Live, SchedIInv, Books, ResourceTypes
<1>2. at'[r] = "done" /\ \A q \in Requests \ {r} : at'[q] = at[q]
  BY <1>1, Zenon DEF DeliverResult
<1>3. WorkId[r] # NoId => InKv(r) /\ c \in results /\ c \in Calls
  BY <1>1, Zenon DEF OnceIInv, RecordFits, SchedIInv, CallsInv, CallTypes
<1>4. ASSUME WorkId[r] # NoId, NEW q \in Requests, WorkId[q] = WorkId[r] PROVE workCall(q) \notin calls
  <2>1. SUFFICES ASSUME workCall(q) \in calls PROVE FALSE
    BY SMTT(20), Zenon
  <2>2. kv[WorkId[q]] = workCall(q) \/ at[q] \in WorkStages
    BY <1>4, <2>1, SMTT(20), Zenon DEF OnceIInv, CallsRecorded
  <2>3. CASE kv[WorkId[q]] = workCall(q)
    BY <1>3, <1>4, <2>1, <2>3, Zenon DEF SchedIInv, CallsInv, CalledOnce
  <2>4. CASE at[q] \in WorkStages
    <3>1. Live(q) /\ q # r
      BY <1>1, <2>4, Zenon DEF Live, WorkStages
    <3> QED
      BY <1>1, <1>4, <3>1, LiveAlone, SMTT(20), Zenon DEF Alone
  <2> QED
    BY <2>2, <2>3, <2>4, Zenon
<1>5. ASSUME NEW q \in Requests \ {r}, at[q] = "delivering", WorkId[q] # NoId, kv[WorkId[q]] \in results
      PROVE  kv[WorkId[q]] \in results'
  <2>1. CASE InKv(r)
    <3>1. Live(q) /\ WorkId[r] # NoId /\ WorkId[r] \in DOMAIN kv
      BY <1>5, <2>1, Zenon DEF Live, InKv
    <3>2. WorkId[q] # WorkId[r] /\ InKv(q) /\ kv[WorkId[q]] \in Calls /\ c \in Calls
      BY <1>1, <1>3, <1>5, <3>1, LiveAlone, Zenon DEF Alone, OnceIInv, RecordFits, SchedIInv, CallsInv, CallTypes
    <3>3. Beginning \notin Calls
      BY SMTT(20), Zenon DEF Beginning, Calls
    <3>4. PICK x \in Requests : kv[WorkId[q]] = workCall(x) /\ WorkId[x] = WorkId[q]
      BY <3>2, <3>3, Zenon DEF OnceIInv, RecordsName, InKv
    <3>5. PICK y \in Requests : c = workCall(y) /\ WorkId[y] = WorkId[r]
      BY <3>1, <3>2, <3>3, Zenon DEF OnceIInv, RecordsName
    <3>6. kv[WorkId[q]] # c
      BY <3>2, <3>4, <3>5, CallsDiffer, SMTT(20), Zenon
    <3> QED
      BY <1>1, <1>5, <3>6, SMTT(20), Zenon
  <2>2. CASE ~InKv(r)
    BY <1>1, <1>5, <2>2, Zenon
  <2> QED
    BY <2>1, <2>2, SMTT(20), Zenon
<1>6. /\ \A d \in DOMAIN callbacks : callbacks[d][1] = "attached" => callbacks[d][2] # r
      /\ \A p \in posted : p.cb[1] = "attached" => p.cb[2] # r
  BY <1>1, AttachedOnly, SMTT(20), Zenon
<1>7. (\A q \in Requests \ {r} : Advance(q)) /\ (\A q \in Working' : on'[q] = on[q])
  BY <1>1, <1>2, SMTT(20), Zenon DEF Advance, resourceVars
<1> HIDE DEF c
<1> QED
  BY <1>1, <1>2, <1>4, <1>5, <1>6, <1>7, AnswerKeepsOnce, ZenonT(30)

\* StartWork: the record said that the work had no call.
LEMMA StartKeepsOnce ==
  ASSUME SchedIInv, OnceIInv, NEW r \in Requests, at[r] \in PrepareStages, StartWork(r), results' = results,
         posted' \subseteq posted, DOMAIN callbacks' \subseteq DOMAIN callbacks,
         \A c \in DOMAIN callbacks' : callbacks'[c] = callbacks[c]
  PROVE  OnceIInv'
<1>1. /\ \A q \in Requests \ {r} : Advance(q)
      /\ \A q \in Working' : on'[q] = on[q]
      /\ \/ at'[r] = "workcall" /\ calls' = calls \cup {workCall(r)} /\ kv' = Recorded(r, on[r])
         \/ at'[r] = "done" /\ calls' = calls /\ Answered(r)
  BY StartKeepsBooks, Zenon
<1>2. Live(r) /\ Alone(r) /\ at[r] \notin WorkStages /\ at[r] # "attached"
  BY LiveAlone, SMTT(20), Zenon DEF Live, PrepareStages, WorkStages
<1>3. WorkId[r] # NoId => InKv(r) /\ kv[WorkId[r]] = Beginning
  BY SMTT(20), Zenon DEF OnceIInv, RecordFits, PrepareStages
<1>4. WorkId[r] # NoId => \A q \in Requests : WorkId[q] = WorkId[r] => workCall(q) \notin calls
  BY <1>2, <1>3, NoCallBefore, Zenon
<1>5. /\ \A c \in DOMAIN callbacks' : callbacks[c][1] = "attached" => callbacks[c][2] # r
      /\ \A p \in posted' : p.cb[1] = "attached" => p.cb[2] # r
  BY <1>2, AttachedOnly, Zenon
<1>6. CASE at'[r] = "done" /\ calls' = calls /\ Answered(r)
  BY <1>1, <1>2, <1>4, <1>5, <1>6, AnswerKeepsOnce, Zenon
<1>7. CASE at'[r] = "workcall" /\ calls' = calls \cup {workCall(r)} /\ kv' = Recorded(r, on[r])
  <2>1. /\ OtherRecordsStay(r)
        /\ WorkId[r] # NoId => InKv(r)' /\ kv'[WorkId[r]] = IF on[r] \in Remote THEN workCall(r) ELSE Beginning
        /\ WorkId[r] = NoId => kv' = kv
    BY <1>3, <1>7, SMTT(20), Zenon DEF OtherRecordsStay, Recorded, With, InKv
  <2>2. on'[r] = on[r]
    BY <1>1, <1>7, Zenon DEF Working, WorkStages
  <2>3. WorkId[r] # NoId => RecordFits(r)'
    BY <1>7, <2>1, <2>2, Zenon DEF RecordFits, WorkStages, workCall
  <2>4. \A q \in Requests : workCall(q) \in calls' /\ WorkId[q] = WorkId[r] /\ WorkId[q] # NoId => q = r
    BY <1>4, <1>7, CallsDiffer, ZenonT(30)
  <2>5. WorkId[r] # NoId => InKv(r)' /\ at'[r] \in WorkStages
    BY <1>7, <2>1, Zenon DEF WorkStages
  <2>6. \A q \in Requests : workCall(q) \in calls' /\ WorkId[q] # WorkId[r] => workCall(q) \in calls
    BY <1>7, CallsDiffer, SMTT(20), Zenon
  <2>7. ASSUME NEW q \in Requests, workCall(q) \in calls', WorkId[q] = WorkId[r], WorkId[q] # NoId
        PROVE  InKv(q)' /\ (kv'[WorkId[q]] = workCall(q) \/ at'[q] \in WorkStages)
    BY <2>4, <2>5, <2>7, ZenonT(30)
  <2>8. /\ \A c \in DOMAIN callbacks' :
             \/ callbacks'[c] \in Callbacks /\ callbacks'[c][2] # r /\ AttachedTo(callbacks'[c], c)
             \/ AttachedTo(callbacks[c], c)'
        /\ \A p \in posted' :
             \/ p.cb \in Callbacks /\ p.cb[2] # r /\ AttachedTo(p.cb, p.call)
             \/ AttachedTo(p.cb, p.call)'
    BY <1>5, OldCallbacks, Zenon
  <2>9. WorkId[r] \in DOMAIN kv' =>
          \/ kv'[WorkId[r]] = Beginning \/ kv'[WorkId[r]] = workCall(r)
          \/ WorkId[r] \in DOMAIN kv /\ kv'[WorkId[r]] = kv[WorkId[r]]
    BY <2>1, Zenon
  <2> QED
    BY <1>1, <1>2, <2>1, <2>3, <2>6, <2>7, <2>8, <2>9, MoveKeepsOnce, Zenon
<1> QED
  BY <1>1, <1>6, <1>7, Zenon

\* A step that moves r within the stages of its calls, and changes no record.
LEMMA StageKeepsOnce ==
  ASSUME SchedIInv, OnceIInv, NEW r \in Requests, UNCHANGED <<kv, on>>,
         \A q \in Requests \ {r} : at'[q] = at[q],
         \/ at[r] \in PrepareStages /\ at'[r] \in {"prepcall", "prepare"}
         \/ at[r] \in WorkStages /\ at'[r] \in WorkStages,
         \A q \in Requests : workCall(q) \in calls' => workCall(q) \in calls,
         \A q \in Requests \ {r} :
           at[q] = "delivering" /\ WorkId[q] # NoId /\ kv[WorkId[q]] \in results => kv[WorkId[q]] \in results',
         \A c \in DOMAIN callbacks' : callbacks'[c][1] # "attached" \/ (c \in DOMAIN callbacks /\ callbacks'[c] = callbacks[c]),
         \A p \in posted' : p.cb[1] # "attached" \/ p \in posted
  PROVE  OnceIInv'
<1>1. Alone(r) /\ at[r] # "attached"
  BY LiveAlone, Zenon DEF Live, PrepareStages, WorkStages
<1>2. OtherRecordsStay(r) /\ (\A q \in Requests \ {r} : Advance(q)) /\ (\A q \in Working' : on'[q] = on[q])
  BY Zenon DEF OtherRecordsStay, Advance
<1>3. WorkId[r] # NoId => RecordFits(r)'
  <2>1. WorkId[r] # NoId => RecordFits(r)
    BY Zenon DEF OnceIInv
  <2> QED
    BY <2>1, Zenon DEF RecordFits, PrepareStages, WorkStages, InKv, workCall
<1>4. ASSUME NEW q \in Requests, workCall(q) \in calls', WorkId[q] = WorkId[r], WorkId[q] # NoId
      PROVE  InKv(q)' /\ (kv'[WorkId[q]] = workCall(q) \/ at'[q] \in WorkStages)
  <2>1. InKv(q) /\ (kv[WorkId[q]] = workCall(q) \/ at[q] \in WorkStages)
    BY <1>4, Zenon DEF OnceIInv, CallsRecorded
  <2>2. at[q] \in WorkStages => at'[q] \in WorkStages
    BY Zenon DEF PrepareStages, WorkStages
  <2> QED
    BY <2>1, <2>2, Zenon DEF InKv
<1>5. /\ \A d \in DOMAIN callbacks : callbacks[d] \in Callbacks /\ AttachedTo(callbacks[d], d)
      /\ \A d \in DOMAIN callbacks : callbacks[d][1] = "attached" => callbacks[d][2] # r
      /\ \A p \in posted : p.cb \in Callbacks /\ AttachedTo(p.cb, p.call)
      /\ \A p \in posted : p.cb[1] = "attached" => p.cb[2] # r
  BY <1>1, AttachedOnly, Zenon DEF SchedIInv, CallsInv, CallTypes, OnceIInv
<1>6. ASSUME NEW d \in DOMAIN callbacks'
      PROVE  \/ callbacks'[d] \in Callbacks /\ callbacks'[d][2] # r /\ AttachedTo(callbacks'[d], d)
             \/ AttachedTo(callbacks[d], d)'
  <2>1. callbacks'[d][1] # "attached" => AttachedTo(callbacks[d], d)'
    BY Zenon DEF AttachedTo
  <2> QED
    BY <1>5, <2>1, Zenon
<1>7. ASSUME NEW p \in posted'
      PROVE  \/ p.cb \in Callbacks /\ p.cb[2] # r /\ AttachedTo(p.cb, p.call)
             \/ AttachedTo(p.cb, p.call)'
  <2>1. p.cb[1] # "attached" => AttachedTo(p.cb, p.call)'
    BY ZenonT(30) DEF AttachedTo
  <2> QED
    BY <1>5, <2>1, ZenonT(30)
<1> QED
  BY <1>1, <1>2, <1>3, <1>4, <1>6, <1>7, MoveKeepsOnce, Zenon

\* RunAssigned
LEMMA AssignedKeepsOnce ==
  ASSUME SchedIInv, OnceIInv, NEW r \in Requests, RunAssigned(r)
  PROVE  OnceIInv'
<1>1. /\ at[r] = "assigned" /\ at \in [Requests -> SchedStages] /\ at[r] \in PrepareStages
      /\ UNCHANGED <<workers, callbacks, results, posted, restartVars>>
  BY Zenon DEF SchedIInv, Books, ResourceTypes, RunAssigned, PrepareStages
<1>2. CASE StartWork(r)
  BY <1>1, <1>2, StartKeepsOnce, SMTT(20), Zenon
<1>3. CASE at' = [at EXCEPT ![r] = "prepcall"] /\ calls' = calls \cup {prepareCall(r)} /\ UNCHANGED <<resourceVars, kv>>
  <2>1. at'[r] = "prepcall" /\ (\A q \in Requests \ {r} : at'[q] = at[q]) /\ UNCHANGED <<kv, on>>
    BY <1>1, <1>3, Zenon DEF resourceVars
  <2>2. \A q \in Requests : workCall(q) \in calls' => workCall(q) \in calls
    BY <1>3, CallsDiffer, SMTT(20), Zenon
  <2> QED
    BY <1>1, <2>1, <2>2, StageKeepsOnce, Zenon
<1>4. CASE /\ freeWorker(on[r], [preparing EXCEPT ![on[r]] = @ - Need[r]], [at EXCEPT ![r] = "done"])
           /\ Answered(r) /\ UNCHANGED <<calls, active, active_jobs>>
  <2>1. /\ at'[r] = "done" /\ (\A q \in Requests \ {r} : Advance(q))
        /\ \A q \in Working' : on'[q] = on[q]
    BY <1>1, <1>4, RefusedKeepsBooks, Zenon DEF SchedIInv
  <2>2. Live(r) /\ Alone(r) /\ at[r] \notin WorkStages /\ at[r] # "attached"
    BY <1>1, LiveAlone, Zenon DEF Live, WorkStages
  <2>3. WorkId[r] # NoId => kv[WorkId[r]] = Beginning
    BY <1>1, ZenonT(30) DEF OnceIInv, RecordFits
  <2>4. WorkId[r] # NoId => \A q \in Requests : WorkId[q] = WorkId[r] => workCall(q) \notin calls
    BY <2>2, <2>3, NoCallBefore, Zenon
  <2>5. /\ \A c \in DOMAIN callbacks : callbacks[c][1] = "attached" => callbacks[c][2] # r
        /\ \A p \in posted : p.cb[1] = "attached" => p.cb[2] # r
    BY <2>2, AttachedOnly, SMTT(20), Zenon
  <2> QED
    BY <1>1, <1>4, <2>1, <2>2, <2>4, <2>5, AnswerKeepsOnce, Zenon
<1> QED
  BY <1>2, <1>3, <1>4, Zenon DEF RunAssigned

\* RegisterCall: the result it takes is of r's own call, which is nobody's
\* record but r's.
LEMMA RegisterCallKeepsOnce ==
  ASSUME SchedIInv, OnceIInv, NEW r \in Requests, RegisterCall(r)
  PROVE  OnceIInv'
<1>1. /\ at \in [Requests -> SchedStages] /\ UNCHANGED <<kv, on, calls>>
  BY Zenon DEF SchedIInv, Books, ResourceTypes, RegisterCall, resourceVars
<1>2. /\ \A q \in Requests \ {r} : at'[q] = at[q]
      /\ \/ at[r] = "prepcall" /\ at'[r] = "prepare"
         \/ at[r] = "workcall" /\ at'[r] = "work"
  BY <1>1, SMTT(20), Zenon DEF RegisterCall
<1>3. PICK c \in {prepareCall(r), workCall(r)}, cb \in {<<"prepared", r>>, <<"finish", r>>} : Register(c, cb)
  BY Zenon DEF RegisterCall
<1>4. cb[1] # "attached"
  BY <1>3
<1>5. \A d \in DOMAIN callbacks' : callbacks'[d][1] # "attached" \/ (d \in DOMAIN callbacks /\ callbacks'[d] = callbacks[d])
  BY <1>3, <1>4, SMTT(20), Zenon DEF Register, With
<1>6. \A p \in posted' : p.cb[1] # "attached" \/ p \in posted
  BY <1>3, <1>4, SMTT(20), Zenon DEF Register
<1>7. ASSUME NEW q \in Requests \ {r}, at[q] = "delivering", WorkId[q] # NoId, kv[WorkId[q]] \in results
      PROVE  kv[WorkId[q]] \in results'
  <2>1. InKv(q) /\ Live(q) /\ Live(r) /\ kv[WorkId[q]] \in Calls /\ Beginning \notin Calls
    BY <1>2, <1>7, Zenon DEF OnceIInv, RecordFits, Live, SchedIInv, CallsInv, CallTypes, Beginning, Calls
  <2>2. PICK x \in Requests : kv[WorkId[q]] = workCall(x) /\ WorkId[x] = WorkId[q]
    BY <2>1, Zenon DEF OnceIInv, RecordsName, InKv
  <2>3. kv[WorkId[q]] # c
    <3>1. x # r
      BY <1>7, <2>1, <2>2, Zenon DEF OnceIInv, OneLive
    <3> QED
      BY <1>3, <2>2, <3>1, CallsDiffer, SMTT(20), Zenon
  <2> QED
    BY <1>3, <1>7, <2>3, SMTT(20), Zenon DEF Register
<1> QED
  BY <1>1, <1>2, <1>5, <1>6, <1>7, StageKeepsOnce, Zenon DEF PrepareStages, WorkStages

\* returnResult
LEMMA ReturnKeepsOnce ==
  ASSUME SchedIInv, OnceIInv, NEW c \in Calls, returnResult(c)
  PROVE  OnceIInv'
<1>1. /\ calls' \subseteq calls /\ results \subseteq results' /\ UNCHANGED <<at, on, callbacks, kv>>
      /\ \A p \in posted' : p \in posted \/ (c \in DOMAIN callbacks /\ p.cb = callbacks[c] /\ p.call = c)
  BY SMTT(20), Zenon DEF returnResult, resourceVars
<1>2. OneLive' /\ RecordsName' /\ CallsRecorded'
  BY <1>1, SMTT(20), Zenon DEF OnceIInv, OneLive, Live, RecordsName, CallsRecorded, InKv, workCall
<1>3. ASSUME NEW r \in Requests, WorkId[r] # NoId PROVE RecordFits(r)'
  BY <1>1, <1>3, ZenonT(30) DEF OnceIInv, RecordFits, InKv, workCall
<1>4. \A cb, d : AttachedTo(cb, d)' <=> AttachedTo(cb, d)
  BY <1>1, ZenonT(30) DEF AttachedTo
<1>5. \A d \in DOMAIN callbacks' : AttachedTo(callbacks[d], d)'
  BY <1>1, Zenon DEF OnceIInv, AttachedTo
<1>6. \A p \in posted' : AttachedTo(p.cb, p.call)'
  BY <1>1, <1>4, Zenon DEF OnceIInv
<1> QED
  BY <1>2, <1>3, <1>5, <1>6, SMTT(20), Zenon DEF OnceIInv

\* RunPosted: the call that was posted does not run, and it is the record.
LEMMA PostedKeepsOnce ==
  ASSUME SchedIInv, OnceIInv, NEW p \in posted, RunPosted(p)
  PROVE  OnceIInv'
<1> DEFINE r == p.cb[2]
<1>1. /\ r \in Requests /\ CallbackFits(p.cb, p.call) /\ at \in [Requests -> SchedStages] /\ p.erase \in BOOLEAN
      /\ CallsInv /\ p.call \notin calls /\ AttachedTo(p.cb, p.call)
  BY Zenon DEF SchedIInv, Books, ResourceTypes, CallsInv, CallTypes, CalledOnce, CallbacksFit, Callbacks, OnceIInv
<1>2. /\ posted' = posted \ {p} /\ results' = results
      /\ callbacks' = IF p.erase THEN Without(callbacks, p.call) ELSE callbacks
  BY Zenon DEF RunPosted
<1>3. /\ posted' \subseteq posted /\ DOMAIN callbacks' \subseteq DOMAIN callbacks
      /\ \A c \in DOMAIN callbacks' : callbacks'[c] = callbacks[c]
      /\ p.erase => p.call \notin DOMAIN callbacks'
  BY <1>1, <1>2, Zenon DEF Without
<1>4. CASE p.cb[1] = "prepared" /\ StartWork(r)
  <2>1. at[r] \in PrepareStages
    BY <1>1, <1>4, Zenon DEF CallbackFits, PrepareStages
  <2> HIDE DEF r
  <2> QED
    BY <1>1, <1>2, <1>3, <1>4, <2>1, StartKeepsOnce, Zenon
<1>5. ASSUME Live(r), WorkId[r] # NoId,
             kv[WorkId[r]] \in {p.call, Beginning}, at[r] \in WorkStages => p.call = workCall(r)
      PROVE  \A q \in Requests : WorkId[q] = WorkId[r] => workCall(q) \notin calls
  <2>1. SUFFICES ASSUME NEW q \in Requests, WorkId[q] = WorkId[r], workCall(q) \in calls PROVE FALSE
    BY Zenon
  <2>2. kv[WorkId[q]] = workCall(q) \/ at[q] \in WorkStages
    BY <1>5, <2>1, Zenon DEF OnceIInv, CallsRecorded
  <2>3. kv[WorkId[q]] # workCall(q)
    BY <1>1, <1>5, <2>1, CallsDiffer, Zenon
  <2>4. Live(q) /\ at[q] \in WorkStages
    BY <2>2, <2>3, Zenon DEF Live, WorkStages
  <2>5. q = r
    BY <1>1, <1>5, <2>1, <2>4, LiveAlone, Zenon DEF Alone
  <2> QED
    BY <1>1, <1>5, <2>1, <2>4, <2>5, Zenon
<1>6. CASE p.cb[1] = "finish" /\ Finish(r)
  <2>1. at[r] = "work" /\ p.call = workCall(r) /\ Live(r)
    BY <1>1, <1>6, Zenon DEF CallbackFits, Live
  <2>2. WorkId[r] # NoId => kv[WorkId[r]] \in {p.call, Beginning}
    BY <1>1, <2>1, Zenon DEF OnceIInv, RecordFits, WorkStages
  <2>3. WorkId[r] # NoId => \A q \in Requests : WorkId[q] = WorkId[r] => workCall(q) \notin calls
    BY <1>5, <2>1, <2>2, SMTT(20), Zenon
  <2> HIDE DEF r
  <2>4. /\ at'[r] = "done" /\ (\A q \in Requests \ {r} : Advance(q)) /\ (\A q \in Working' : on'[q] = on[q])
        /\ Answered(r) /\ calls' = calls
    BY <1>1, <1>6, <2>1, FinishKeepsBooks, Zenon DEF SchedIInv, Finish
  <2>5. /\ \A c \in DOMAIN callbacks' : callbacks[c][1] = "attached" => callbacks[c][2] # r
        /\ \A q \in posted' : q.cb[1] = "attached" => q.cb[2] # r
    BY <1>3, <2>1, AttachedOnly, Zenon
  <2> QED
    BY <1>1, <1>2, <1>3, <2>1, <2>3, <2>4, <2>5, AnswerKeepsOnce, Zenon
<1>7. CASE p.cb[1] = "attached" /\ at' = [at EXCEPT ![r] = "done"] /\ Answered(r) /\ UNCHANGED <<resourceVars, calls>>
  <2>1. at[r] = "attached" /\ WorkId[r] # NoId /\ kv[WorkId[r]] = p.call /\ Live(r) /\ p.erase
    BY <1>1, <1>7, Zenon DEF AttachedTo, Live, CallsInv, CallbacksFit
  <2>2. \A q \in Requests : WorkId[q] = WorkId[r] => workCall(q) \notin calls
    BY <1>5, <2>1, SMTT(20), Zenon DEF WorkStages
  <2>3. \A c \in DOMAIN callbacks' : callbacks[c][1] = "attached" => callbacks[c][2] # r
    BY <1>3, <2>1, SMTT(20), Zenon DEF OnceIInv, AttachedTo
  <2>4. \A q \in posted' : q.cb[1] = "attached" => q.cb[2] # r
    <3>1. SUFFICES ASSUME NEW q \in posted', q.cb[1] = "attached", q.cb[2] = r PROVE FALSE
      BY Zenon
    <3>2. q \in posted /\ q # p
      BY <1>2, SMTT(20), Zenon
    <3>3. q.call = p.call
      BY <2>1, <3>1, <3>2, Zenon DEF OnceIInv, AttachedTo
    <3> QED
      BY <1>1, <3>2, <3>3, Zenon DEF CallsInv, CalledOnce
  <2>5. /\ at'[r] = "done" /\ (\A q \in Requests \ {r} : Advance(q)) /\ (\A q \in Working' : on'[q] = on[q])
        /\ calls' = calls
    BY <1>1, <1>7, Zenon DEF Advance, resourceVars
  <2> HIDE DEF r
  <2> QED
    BY <1>1, <1>2, <1>3, <1>7, <2>1, <2>2, <2>3, <2>4, <2>5, AnswerKeepsOnce, Zenon
<1> QED
  BY <1>4, <1>6, <1>7, Zenon DEF RunPosted

\* A restart keeps the records of the calls it keeps.
LEMMA RestartKeepsOnce ==
  ASSUME SchedIInv, OnceIInv, Restart
  PROVE  OnceIInv'
<1> USE DEF Restart
<1>1. at' \in [Requests -> {"idle", "refused", "done", "lost"}]
  BY Zenon DEF SchedIInv, Books, ResourceTypes
<1>2. OneLive' /\ RecordsName'
  BY <1>1, Zenon DEF OneLive, Live, OnceIInv, RecordsName
<1>3. CallsRecorded'
  <2>1. ASSUME NEW r \in Requests, workCall(r) \in calls', WorkId[r] # NoId
        PROVE  InKv(r)' /\ kv'[WorkId[r]] = workCall(r)
    <3>1. workCall(r) \in calls /\ InKv(r) /\ (r \in DOMAIN on => on[r] \in Remote)
      BY <2>1, SMTT(20), Zenon DEF OnceIInv, CallsRecorded, workCall
    <3>2. at[r] \in WorkStages => r \in DOMAIN on
      BY Zenon DEF SchedIInv, Books, Placed, Working
    <3>3. kv[WorkId[r]] = workCall(r)
      BY <2>1, <3>1, <3>2, Zenon DEF OnceIInv, CallsRecorded, RecordFits
    <3> QED
      BY <3>1, <3>3, CallsDiffer, SMTT(20), Zenon DEF InKv, Kept
  <2> QED
    BY <2>1, ZenonT(30) DEF CallsRecorded, workCall, InKv
<1>4. \A r \in Requests : RecordFits(r)'
  BY <1>1, Zenon DEF RecordFits, WorkStages
<1> QED
  BY <1>2, <1>3, <1>4, Zenon DEF OnceIInv

\* Every step keeps the second invariant when owners wait for their answers.
LEMMA OnceStep ==
  ASSUME SchedIInv, OnceIInv, ~Duplicates, [SchedNext]_schedVars
  PROVE  OnceIInv'
<1>1. CASE SchedNext
  BY <1>1, NewWorkerKeepsOnce, KnownKeepsOnce, NewKeepsOnce, DeliverKeepsOnce, AssignedKeepsOnce,
     RegisterCallKeepsOnce, ReturnKeepsOnce, PostedKeepsOnce, RestartKeepsOnce, SMTT(20), Zenon DEF SchedNext
<1>2. CASE UNCHANGED schedVars
  BY <1>2, Zenon DEF schedVars, OnceIInv, OneLive, Live, RecordsName, CallsRecorded, RecordFits, InKv, AttachedTo
<1> QED
  BY <1>1, <1>2, SMTT(20), Zenon

\* The second invariant tells every call of some work.
LEMMA OnceIsOnce ==
  ASSUME SchedIInv, OnceIInv
  PROVE  NoDoubleWork
<1>1. SUFFICES ASSUME NEW i, i # NoId
               PROVE  Cardinality({c \in calls : c[1] = "work" /\ WorkId[c[2]] = i}) <= 1
  BY Zenon DEF NoDoubleWork
<1> DEFINE C == {c \in calls : c[1] = "work" /\ WorkId[c[2]] = i}
<1>2. ASSUME NEW c \in C PROVE c[2] \in Requests /\ c = workCall(c[2]) /\ WorkId[c[2]] = i
  BY <1>2 DEF SchedIInv, CallsInv, CallTypes, Calls, workCall
<1>3. ASSUME NEW q \in Requests, NEW r \in Requests, workCall(q) \in calls, workCall(r) \in calls,
             WorkId[q] = i, WorkId[r] = i
      PROVE  q = r
  <2>1. /\ kv[i] = workCall(q) \/ at[q] \in WorkStages
        /\ kv[i] = workCall(r) \/ at[r] \in WorkStages
    BY <1>1, <1>3, Zenon DEF OnceIInv, CallsRecorded
  <2>2. /\ at[q] \in WorkStages => kv[i] \in {workCall(q), Beginning} /\ Live(q)
        /\ at[r] \in WorkStages => kv[i] \in {workCall(r), Beginning} /\ Live(r)
    BY <1>1, <1>3, Zenon DEF OnceIInv, RecordFits, Live, WorkStages
  <2>3. CASE at[q] \in WorkStages /\ at[r] \in WorkStages
    BY <1>1, <1>3, <2>2, <2>3, Zenon DEF OnceIInv, OneLive
  <2>4. CASE kv[i] = workCall(q)
    BY <2>1, <2>2, <2>4, CallsDiffer, SMTT(20), Zenon
  <2>5. CASE kv[i] = workCall(r)
    BY <2>1, <2>2, <2>5, CallsDiffer, SMTT(20), Zenon
  <2> QED
    BY <2>1, <2>3, <2>4, <2>5, SMTT(20), Zenon
<1>4. \A c, d \in C : c = d
  BY <1>2, <1>3, SMTT(20), Zenon
<1>5. CASE C = {}
  BY <1>5, FS_EmptySet
<1>6. CASE C # {}
  <2>1. PICK c \in C : C = {c}
    BY <1>4, <1>6, Zenon
  <2> HIDE DEF C
  <2>2. Cardinality(C) = 1
    BY <2>1, FS_Singleton, Zenon
  <2> QED
    BY <2>2, SMTT(20), Zenon DEF C
<1> QED
  BY <1>5, <1>6, Zenon

(***************************************************************************)
(* The accounts of SchedulerImpl are true for any number of requests,      *)
(* workers and restarts: when the owner of work waits for its answer (or   *)
(* loses it in a restart) before it schedules the work again, the work     *)
(* never runs twice, thanks to the records of call_kv_.                    *)
(***************************************************************************)
THEOREM WorkRunsOnce ==
  ASSUME ~Duplicates
  PROVE  SchedSpec => []WorkIsCounted
<1>1. SchedInit => OnceIInv
  BY Zenon DEF SchedInit, OnceIInv, OneLive, Live, RecordsName, CallsRecorded, RecordFits, WorkStages
<1>2. SchedIInv /\ OnceIInv /\ [SchedNext]_schedVars => OnceIInv'
  BY OnceStep, Zenon
<1>3. SchedIInv /\ OnceIInv => WorkIsCounted
  BY OnceIsOnce, Zenon DEF WorkIsCounted, SchedIInv, Books
<1> QED
  BY <1>1, <1>2, <1>3, SchedInvariant, PTL DEF SchedSpec
=============================================================================
