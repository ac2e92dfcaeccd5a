----------------------------- MODULE Scheduler ------------------------------
(***************************************************************************)
(* The scheduler of sealing work (core/sector_storage/impl/                *)
(* scheduler_impl.cpp; new_scheduler_impl.cpp differs in which acceptable  *)
(* worker it prefers, and any is allowed here).                            *)
(*                                                                         *)
(* schedule() assigns a request to a worker or queues it.  A task of the   *)
(* io context then calls the worker, first to prepare (fetch the sector's  *)
(* files), then to work.  A call returns an id at once; its result comes   *)
(* later through returnResult, possibly before the callback for that id is *)
(* registered.  Work with an id is recorded in a persistent map call_kv_,  *)
(* so that after a restart the owner, scheduling it again, gets the result *)
(* of the call that is still running on a remote worker.                   *)
(***************************************************************************)
EXTENDS Naturals, FiniteSets

CONSTANTS
  Requests,    \* calls of schedule()
  WorkId, NoId,\* WorkId[r]: the id of r's work, or NoId for boost::none
  HasPrepare,  \* the Requests with a prepare action
  Need,        \* Need[r]: the resources r takes, one number for all kinds
  Workers, Capacity,
  Sel,         \* Sel[r]: the Workers that satisfy r's selector
  Remote,      \* the Workers that outlive a restart of this process
  Duplicates,  \* whether work is scheduled again before it is answered
  MaxCrashes

ASSUME SchedulerAssumption ==
  /\ IsFiniteSet(Requests)
  /\ \A r \in Requests : Need[r] \in Nat \ {0} /\ Sel[r] \subseteq Workers
  /\ HasPrepare \subseteq Requests /\ Remote \subseteq Workers
  /\ Duplicates \in BOOLEAN /\ MaxCrashes \in Nat

VARIABLES
  at,          \* how far each request is
  on,          \* on[r]: the worker r is assigned to
  workers,     \* the registered Workers
  preparing,   \* resources of each worker: reserved by assigned requests ...
  active,      \* ... and used by running work
  active_jobs,
  queue,       \* request_queue_
  callbacks,   \* callbacks_: call -> callback
  results,     \* results_: calls that returned before they had a callback
  posted,      \* callbacks posted to the io context with a result
  calls,       \* calls the Workers are executing
  kv,          \* call_kv_: work id -> Beginning, or the call in progress
  crashes,
  dropped      \* history: calls whose result a restart threw away

schedVars == <<at, on, workers, preparing, active, active_jobs, queue, callbacks, results,
          posted, calls, kv, crashes, dropped>>

resourceVars == <<preparing, active, active_jobs, queue, on>>
callVars == <<callbacks, results, posted, calls>>
restartVars == <<crashes, dropped>>

prepareCall(r) == <<"prepare", r>>
workCall(r) == <<"work", r>>
Calls == {"prepare", "work"} \X Requests

\* The record of work that has no call in progress (WorkStatus::kStart).
Beginning == <<"start", NoId>>

(***************************************************************************)
(* "prepared" and "finish": the callbacks of assignWorker for r's two      *)
(* calls; "attached": the callback of a request whose work is in progress. *)
(***************************************************************************)
Callbacks == {"prepared", "finish", "attached"} \X Requests

SchedStages == {"idle", "refused", "ignored", "attached", "delivering", "queued", "assigned",
           "prepcall", "prepare", "workcall", "work", "done", "lost"}

Without(f, x) == [y \in DOMAIN f \ {x} |-> f[y]]
With(f, x, v) == [y \in DOMAIN f \cup {x} |-> IF y = x THEN v ELSE f[y]]

\* What requests need together: the number of their units.
Units(S) == UNION {{r} \X (1..Need[r]) : r \in S}
Total(S) == Cardinality(Units(S))

SchedInit ==
  /\ at = [r \in Requests |-> "idle"]
  /\ on = [r \in {} |-> {}]
  /\ workers = {}
  /\ preparing = [w \in Workers |-> 0] /\ active = [w \in Workers |-> 0]
  /\ active_jobs = 0
  /\ queue = {}
  /\ callbacks = [c \in {} |-> {}] /\ results = {} /\ posted = {} /\ calls = {}
  /\ kv = [i \in {} |-> {}]
  /\ crashes = 0 /\ dropped = {}

canHandleRequest(w, prep, n) == prep[w] + n <= Capacity[w]

(***************************************************************************)
(* freeWorker gives w the queued requests that fit, in the order of a set  *)
(* of pointers: some set of them that leaves no room for another.  prep    *)
(* and stages are preparing and at as the caller left them.                *)
(***************************************************************************)
Fills(w, prep) ==
  LET fit == {r \in queue : w \in Sel[r]} IN
  {S \in SUBSET fit : /\ S = {} \/ canHandleRequest(w, prep, Total(S))
                      /\ \A r \in fit \ S : ~canHandleRequest(w, prep, Total(S) + Need[r])}

freeWorker(w, prep, stages) ==
  \E S \in Fills(w, prep) :
    /\ preparing' = [prep EXCEPT ![w] = @ + Total(S)]
    /\ queue' = queue \ S
    /\ on' = [r \in DOMAIN on \cup S |-> IF r \in S THEN w ELSE on[r]]
    /\ at' = [r \in Requests |-> IF r \in S THEN "assigned" ELSE stages[r]]

\* The callback with a work id removes the record when it has been called.
Answered(r) == kv' = IF WorkId[r] = NoId THEN kv ELSE Without(kv, WorkId[r])
-----------------------------------------------------------------------------
\* newWorker
newWorker(w) ==
  /\ w \notin workers
  /\ workers' = workers \cup {w}
  /\ freeWorker(w, preparing, at)
  /\ UNCHANGED <<active, active_jobs, callVars, kv, restartVars>>

\* The owner of work waits for its answer, unless Duplicates.
MaySchedule(r) ==
  /\ at[r] = "idle"
  /\ \/ WorkId[r] = NoId \/ Duplicates
     \/ \A q \in Requests : WorkId[q] = WorkId[r] => at[q] \in {"idle", "refused", "done", "lost"}

InKv(r) == WorkId[r] # NoId /\ WorkId[r] \in DOMAIN kv

\* schedule: a record in call_kv_ says that the work is under way.
scheduleKnown(r) ==
  LET c == kv[WorkId[r]] IN
  /\ MaySchedule(r) /\ InKv(r)
  /\ \/ /\ c = Beginning
        /\ at' = [at EXCEPT ![r] = "ignored"]
        /\ UNCHANGED callbacks
     \/ /\ c # Beginning /\ c \in results
        /\ at' = [at EXCEPT ![r] = "delivering"]
        /\ UNCHANGED callbacks
     \/ /\ c # Beginning /\ c \notin results
        /\ at' = [at EXCEPT ![r] = "attached"]
        /\ callbacks' = With(callbacks, c, <<"attached", r>>)
  /\ UNCHANGED <<workers, resourceVars, results, posted, calls, kv, restartVars>>

(***************************************************************************)
(* ... and calls the callback with the mutex released.  With Duplicates    *)
(* the result may be gone by then; the code erases it without asking.      *)
(***************************************************************************)
DeliverResult(r) ==
  /\ at[r] = "delivering"
  /\ results' = IF InKv(r) THEN results \ {kv[WorkId[r]]} ELSE results
  /\ Answered(r)
  /\ at' = [at EXCEPT ![r] = "done"]
  /\ UNCHANGED <<workers, resourceVars, callbacks, posted, calls, restartVars>>

\* schedule: new work, and maybeScheduleRequest.
Acceptable(r) ==
  {w \in workers \cap Sel[r] :
     canHandleRequest(w, preparing, Need[r]) \/ (Cardinality(workers) = 1 /\ active_jobs = 0)}

scheduleNew(r) ==
  /\ MaySchedule(r) /\ ~InKv(r)
  /\ kv' = IF WorkId[r] = NoId THEN kv ELSE With(kv, WorkId[r], Beginning)
  /\ \/ \* no worker satisfies the selector, or the selector fails
        /\ at' = [at EXCEPT ![r] = "refused"]
        /\ UNCHANGED <<preparing, queue, on>>
     \/ \E w \in Acceptable(r) :
          /\ preparing' = [preparing EXCEPT ![w] = @ + Need[r]]
          /\ on' = With(on, r, w)
          /\ at' = [at EXCEPT ![r] = "assigned"]
          /\ UNCHANGED queue
     \/ /\ workers \cap Sel[r] # {} /\ Acceptable(r) = {}
        /\ queue' = queue \cup {r}
        /\ at' = [at EXCEPT ![r] = "queued"]
        /\ UNCHANGED <<preparing, on>>
  /\ UNCHANGED <<workers, active, active_jobs, callVars, restartVars>>

\* Work with an id on a remote worker is recorded as in progress.
Recorded(r, w) ==
  IF WorkId[r] # NoId /\ w \in Remote THEN With(kv, WorkId[r], workCall(r)) ELSE kv

\* The callback of a prepare call, or no prepare action: start the work.
StartWork(r) ==
  LET w == on[r]
      prep == [preparing EXCEPT ![w] = @ - Need[r]]
  IN \/ /\ at' = [at EXCEPT ![r] = "workcall"]
        /\ calls' = calls \cup {workCall(r)}
        /\ kv' = Recorded(r, w)
        /\ preparing' = prep
        /\ active' = [active EXCEPT ![w] = @ + Need[r]]
        /\ active_jobs' = active_jobs + 1
        /\ UNCHANGED <<queue, on>>
     \/ \* the worker refuses the call
        /\ freeWorker(w, prep, [at EXCEPT ![r] = "done"])
        /\ Answered(r)
        /\ UNCHANGED <<calls, active, active_jobs>>

\* The task assignWorker posts.
RunAssigned(r) ==
  /\ at[r] = "assigned"
  /\ \/ /\ r \notin HasPrepare
        /\ StartWork(r)
     \/ /\ r \in HasPrepare
        /\ at' = [at EXCEPT ![r] = "prepcall"]
        /\ calls' = calls \cup {prepareCall(r)}
        /\ UNCHANGED <<resourceVars, kv>>
     \/ /\ r \in HasPrepare
        /\ freeWorker(on[r], [preparing EXCEPT ![on[r]] = @ - Need[r]], [at EXCEPT ![r] = "done"])
        /\ Answered(r)
        /\ UNCHANGED <<calls, active, active_jobs>>
  /\ UNCHANGED <<workers, callbacks, results, posted, restartVars>>

\* Register the callback of call c, or post it if the result is there.
Register(c, cb) ==
  \/ /\ c \notin results
     /\ callbacks' = With(callbacks, c, cb)
     /\ UNCHANGED <<posted, results>>
  \/ /\ c \in results
     /\ posted' = posted \cup {[cb |-> cb, call |-> c, erase |-> FALSE]}
     /\ results' = results \ {c}
     /\ UNCHANGED callbacks

RegisterCall(r) ==
  /\ \/ /\ at[r] = "prepcall"
        /\ Register(prepareCall(r), <<"prepared", r>>)
        /\ at' = [at EXCEPT ![r] = "prepare"]
     \/ /\ at[r] = "workcall"
        /\ Register(workCall(r), <<"finish", r>>)
        /\ at' = [at EXCEPT ![r] = "work"]
  /\ UNCHANGED <<workers, resourceVars, calls, kv, restartVars>>

\* returnResult: the callback stays registered until it has run.
returnResult(c) ==
  /\ c \in calls
  /\ calls' = calls \ {c}
  /\ \/ /\ c \in DOMAIN callbacks
        /\ posted' = posted \cup {[cb |-> callbacks[c], call |-> c, erase |-> TRUE]}
        /\ UNCHANGED results
     \/ /\ c \notin DOMAIN callbacks
        /\ results' = results \cup {c}
        /\ UNCHANGED posted
  /\ UNCHANGED <<at, workers, resourceVars, callbacks, kv, restartVars>>

\* Mutant: the worker's queue is not looked at.
FinishNoFree(r) ==
  /\ active' = [active EXCEPT ![on[r]] = @ - Need[r]]
  /\ active_jobs' = active_jobs - 1
  /\ at' = [at EXCEPT ![r] = "done"]
  /\ Answered(r)
  /\ UNCHANGED <<calls, preparing, queue, on>>

\* Mutant: the job is not counted out.
FinishStillActive(r) ==
  /\ active' = [active EXCEPT ![on[r]] = @ - Need[r]]
  /\ freeWorker(on[r], preparing, [at EXCEPT ![r] = "done"])
  /\ Answered(r)
  /\ UNCHANGED <<active_jobs, calls>>

\* Mutant: clear() runs twice.
FinishTwice(r) ==
  /\ active' = [active EXCEPT ![on[r]] = @ - Need[r]]
  /\ active_jobs' = active_jobs - 2
  /\ freeWorker(on[r], preparing, [at EXCEPT ![r] = "done"])
  /\ Answered(r)
  /\ UNCHANGED calls

\* The callback of a work call: answer the owner, free the worker.
Finish(r) ==
  /\ active' = [active EXCEPT ![on[r]] = @ - Need[r]]
  /\ active_jobs' = active_jobs - 1
  /\ freeWorker(on[r], preparing, [at EXCEPT ![r] = "done"])
  /\ Answered(r)
  /\ UNCHANGED calls

RunPosted(p) ==
  LET r == p.cb[2] IN
  /\ p \in posted
  /\ posted' = posted \ {p}
  /\ callbacks' = IF p.erase THEN Without(callbacks, p.call) ELSE callbacks
  /\ \/ p.cb[1] = "prepared" /\ StartWork(r)
     \/ p.cb[1] = "finish" /\ Finish(r)
     \/ /\ p.cb[1] = "attached"
        /\ at' = [at EXCEPT ![r] = "done"]
        /\ Answered(r)
        /\ UNCHANGED <<resourceVars, calls>>
  /\ UNCHANGED <<workers, results, restartVars>>

\* Mutant: resetWorks forgets what is in progress.
KeptNone(i) == FALSE

Kept(i) == kv[i] # Beginning

(***************************************************************************)
(* The process stops and starts again: resetWorks keeps the records of     *)
(* work in progress, and remote Workers keep working.                      *)
(***************************************************************************)
Restart ==
  /\ crashes < MaxCrashes
  /\ crashes' = crashes + 1
  /\ dropped' = dropped \cup results \cup {p.call : p \in posted}
  /\ at' = [r \in Requests |->
              IF at[r] \in {"idle", "refused", "done"} THEN at[r] ELSE "lost"]
  /\ on' = [r \in {} |-> {}]
  /\ workers' = {}
  /\ preparing' = [w \in Workers |-> 0] /\ active' = [w \in Workers |-> 0]
  /\ active_jobs' = 0
  /\ queue' = {}
  /\ callbacks' = [c \in {} |-> {}] /\ results' = {} /\ posted' = {}
  /\ calls' = {c \in calls : c[2] \in DOMAIN on => on[c[2]] \in Remote}
  /\ kv' = [i \in {j \in DOMAIN kv : Kept(j)} |-> kv[i]]

SchedNext ==
  \/ \E w \in Workers : newWorker(w)
  \/ \E r \in Requests : scheduleKnown(r) \/ scheduleNew(r)
  \/ \E r \in Requests : DeliverResult(r) \/ RunAssigned(r) \/ RegisterCall(r)
  \/ \E c \in Calls : returnResult(c)
  \/ \E p \in posted : RunPosted(p)
  \/ Restart

SchedSpec == SchedInit /\ [][SchedNext]_schedVars

(***************************************************************************)
(* The io context runs what is posted, threads inside the scheduler go on, *)
(* and Workers return every result.  Nobody has to schedule or register.   *)
(***************************************************************************)
SchedFairness ==
  /\ \A r \in Requests :
       WF_schedVars(DeliverResult(r)) /\ WF_schedVars(RunAssigned(r)) /\ WF_schedVars(RegisterCall(r))
  /\ \A c \in Calls : WF_schedVars(returnResult(c))
  /\ WF_schedVars(\E p \in posted : RunPosted(p))

-----------------------------------------------------------------------------
SchedTypeOK ==
  /\ at \in [Requests -> SchedStages]
  /\ DOMAIN on \subseteq Requests /\ \A r \in DOMAIN on : on[r] \in Sel[r]
  /\ workers \subseteq Workers
  /\ preparing \in [Workers -> Nat] /\ active \in [Workers -> Nat] /\ active_jobs \in Nat
  /\ queue \subseteq Requests
  /\ DOMAIN callbacks \subseteq Calls /\ \A c \in DOMAIN callbacks : callbacks[c] \in Callbacks
  /\ results \subseteq Calls /\ calls \subseteq Calls
  /\ posted \subseteq [cb: Callbacks, call: Calls, erase: BOOLEAN]
  /\ \A i \in DOMAIN kv : kv[i] \in Calls \cup {Beginning}

PrepareStages == {"assigned", "prepcall", "prepare"}
WorkStages == {"workcall", "work"}
Preparing == {r \in Requests : at[r] \in PrepareStages}
Working == {r \in Requests : at[r] \in WorkStages}

(***************************************************************************)
(* The counters of assignWorker balance: what a worker has reserved and    *)
(* uses is what its requests need, and every running job is counted.       *)
(***************************************************************************)
ResourcesBalance ==
  /\ \A w \in Workers :
       /\ preparing[w] = Total({r \in Preparing : on[r] = w})
       /\ active[w] = Total({r \in Working : on[r] = w})
  /\ active_jobs = Cardinality(Working)

(***************************************************************************)
(* After a restart, work still in progress on a remote worker is not       *)
(* started a second time.                                                  *)
(***************************************************************************)
NoDoubleWork ==
  \A i \in {WorkId[r] : r \in Requests} \ {NoId} :
    Cardinality({c \in calls : c[1] = "work" /\ WorkId[c[2]] = i}) <= 1

(***************************************************************************)
(* The accounts of SchedulerImpl are true: what workers are booked for is  *)
(* what runs on them, and no work runs twice, across restarts too.         *)
(***************************************************************************)
WorkIsCounted == ResourcesBalance /\ NoDoubleWork

(***************************************************************************)
(* Every accepted request is answered, unless the process stops, its work  *)
(* was refused before, a restart threw its result away, or it is too large *)
(* for every registered worker (such a request, once queued, is stuck:     *)
(* freeWorker makes no exception for a sole worker).                       *)
(***************************************************************************)
Answerable(r) ==
  /\ at[r] \notin {"idle", "refused", "ignored"}
  /\ at[r] = "queued" => \E w \in workers \cap Sel[r] : Need[r] <= Capacity[w]
  /\ ~\E c \in dropped \cap DOMAIN callbacks : callbacks[c] = <<"attached", r>>

\* Every accepted request that Answerable does not except is answered at last.
AcceptedIsAnswered == \A r \in Requests : Answerable(r) ~> at[r] \in {"done", "lost"}

(***************************************************************************)
(* scheduler_test.cpp:324-326: of two schedules of one work the first      *)
(* works and the second just changes the callback.  So the job still ends: *)
(* the worker's resources are given back.                                  *)
(***************************************************************************)
WorkEnds == \A r \in Requests : at[r] = "work" ~> at[r] # "work"
=============================================================================
