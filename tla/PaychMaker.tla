----------------------------- MODULE PaychMaker -----------------------------
(***************************************************************************)
(* Creating and topping up the payment channel between one pair of         *)
(* addresses (core/paych/maker.cpp).                                       *)
(*                                                                         *)
(* make() collects callers in a queue; the queue works on one message at a *)
(* time, through a chain of asynchronous calls (StateNetworkVersion,       *)
(* MpoolPushMessage, StateWaitMsg).  Its row is kept in a key-value store, *)
(* so that a node that restarts goes on waiting for its message; the       *)
(* callers are not kept, and the funds they asked for become unused.       *)
(* Every critical section of PaychMaker::mutex is one action.              *)
(***************************************************************************)
EXTENDS Integers, FiniteSets

CONSTANTS
  Calls,       \* calls of make(), each made once
  Amount,      \* the amount each call asks for
  MaxRestarts  \* bound on restarts of the node

ASSUME PaychMakerAssumption ==
  /\ IsFiniteSet(Calls)
  /\ Amount \in [Calls -> Nat]
  /\ MaxRestarts \in Nat

VARIABLES
  inmap,     \* the queue is in PaychMaker::map
  gen,       \* how many queues the map has held; an iterator has its number
  row,       \* Queue::row
  waiting_cb, \* Queue::waiting_cb, by call
  pending,   \* Queue::pending_cb, by call; pending_amount is their sum
  disk,      \* the row in the key-value store, NoRow before the first save
  op,        \* the asynchronous call whose callback holds the iterator
  nexts,     \* calls of next() made but not begun: <<caller, iterator>>
  msg,       \* value of the message last pushed
  balance,   \* what has been paid to the channel on the chain
  outcome,   \* per call: "new", "made", "ok", "error", "lost" (by a restart)
  dangling,  \* next() was given an iterator that had been erased
  restarts,
  overcounted, \* history: a restart made funds unused that were not paid in
  unmade       \* history: a row without channel and without message was saved

makerVars == <<inmap, gen, row, waiting_cb, pending, disk, op, nexts, msg, balance,
          outcome, dangling, restarts, overcounted, unmade>>

history == <<restarts, overcounted, unmade>>

NoAmount == -1

\* waiting_cid is set exactly while waits; actor stands for "is some".
NewRow == [actor |-> FALSE, unused |-> 0, waits |-> FALSE, waiting_amount |-> NoAmount]

NoRow == [none |-> TRUE]

OnWait == "onWait"

\* pending_amount and the like: what the calls ask for, counted unit by unit.
Units(calls) == UNION {{c} \X (1..Amount[c]) : c \in calls}
Sum(calls) == Cardinality(Units(calls))

MakerInit ==
  /\ inmap = FALSE /\ gen = 0
  /\ row = NewRow /\ waiting_cb = {} /\ pending = {}
  /\ disk = NoRow
  /\ op = "none" /\ nexts = {}
  /\ msg = 0 /\ balance = 0
  /\ outcome = [c \in Calls |-> "new"]
  /\ dangling = FALSE
  /\ restarts = 0 /\ overcounted = FALSE /\ unmade = FALSE

\* The queue's row: in the map, else in the store, else a new one.
CurrentRow == IF inmap THEN row ELSE IF disk = NoRow THEN NewRow ELSE disk

(***************************************************************************)
(* make: the caller joins the queue.  The first caller makes the queue:    *)
(* with no stored row it starts a channel, with a stored message it waits  *)
(* for it, otherwise, as for every later caller, next() is called, after   *)
(* the mutex has been released.                                            *)
(***************************************************************************)
make(c) ==
  /\ ~dangling
  /\ outcome[c] = "new"
  /\ outcome' = [outcome EXCEPT ![c] = "made"]
  /\ inmap' = TRUE
  /\ gen' = IF inmap THEN gen ELSE gen + 1
  /\ pending' = pending \cup {c}
  /\ row' = CurrentRow
  /\ CASE ~inmap /\ disk = NoRow -> op' = "network" /\ UNCHANGED nexts
       [] ~inmap /\ disk # NoRow /\ row'.waits -> op' = "wait" /\ UNCHANGED nexts
       [] OTHER -> nexts' = nexts \cup {<<c, gen'>>} /\ UNCHANGED op
  /\ UNCHANGED <<waiting_cb, disk, msg, balance, dangling, history>>

Tell(calls, what) == [c \in Calls |-> IF c \in calls THEN what ELSE outcome[c]]

\* Mutant: only the callers whose message failed are told.
onErrorWaitingOnly ==
  /\ outcome' = Tell(waiting_cb, "error")
  /\ waiting_cb' = {}
  /\ pending' = {}
  /\ inmap' = FALSE
  /\ op' = "none"

\* onError: all callers are told, and the queue is erased from the map.
onError ==
  /\ outcome' = Tell(waiting_cb \cup pending, "error")
  /\ waiting_cb' = {}
  /\ pending' = {}
  /\ inmap' = FALSE
  /\ op' = "none"

\* shift: the pending callers become those the next message is for.
shift(r) ==
  /\ waiting_cb' = pending
  /\ pending' = {}
  /\ row' = [r EXCEPT !.waiting_amount = Sum(pending)]

onNetworkError ==
  /\ op = "network"
  /\ onError
  /\ UNCHANGED <<gen, row, disk, nexts, msg, balance, dangling, history>>

\* onNetwork: msgCreate pays the whole amount.
onNetwork ==
  /\ op = "network"
  /\ shift(row)
  /\ msg' = row'.waiting_amount
  /\ op' = "push"
  /\ UNCHANGED <<inmap, gen, disk, nexts, balance, outcome, dangling, history>>

onPushError ==
  /\ op = "push"
  /\ row' = [row EXCEPT !.waiting_amount = NoAmount]
  /\ disk' = row'
  /\ onError
  /\ unmade' = (unmade \/ ~row.actor)
  /\ UNCHANGED <<gen, nexts, msg, balance, dangling, restarts, overcounted>>

onPush ==
  /\ op = "push"
  /\ row' = [row EXCEPT !.waits = TRUE]
  /\ disk' = row'
  /\ op' = "wait"
  /\ UNCHANGED <<inmap, gen, waiting_cb, pending, nexts, msg, balance, outcome, dangling, history>>

\* StateWaitMsg fails, or the result cannot be decoded: the row is kept.
onWaitError ==
  /\ op = "wait"
  /\ onError
  /\ UNCHANGED <<gen, row, disk, nexts, msg, balance, dangling, history>>

\* The message failed on the chain.
onWaitExitCode ==
  /\ op = "wait"
  /\ row' = [row EXCEPT !.waiting_amount = NoAmount, !.waits = FALSE]
  /\ disk' = row'
  /\ onError
  /\ unmade' = (unmade \/ ~row.actor)
  /\ UNCHANGED <<gen, nexts, msg, balance, dangling, restarts, overcounted>>

Min2(a, b) == IF a < b THEN a ELSE b

\* Mutant: more can be reused than there is.
UnusedNegative(r, callers) ==
  IF callers = {} THEN r.unused + r.waiting_amount ELSE r.unused - r.waiting_amount

\* What is left unused once the message for callers is on the chain.
Unused(r, callers) ==
  IF callers = {} THEN r.unused + r.waiting_amount
                  ELSE r.unused - Min2(r.unused, r.waiting_amount)

\* Mutant: next() is not called afterwards.
onWaitNoNext ==
  /\ op = "wait"
  /\ row' = [actor |-> TRUE, unused |-> Unused(row, waiting_cb), waits |-> FALSE, waiting_amount |-> NoAmount]
  /\ disk' = row'
  /\ balance' = balance + msg
  /\ overcounted' = (overcounted \/ (waiting_cb = {} /\ msg < row.waiting_amount))
  /\ outcome' = Tell(waiting_cb, "ok")
  /\ waiting_cb' = {}
  /\ op' = "none"
  /\ UNCHANGED <<inmap, gen, pending, nexts, msg, dangling, restarts, unmade>>

(***************************************************************************)
(* onWait: the message is on the chain.  Its callers are told; when a      *)
(* restart has lost them, all of the amount becomes unused.                *)
(***************************************************************************)
onWait ==
  /\ op = "wait"
  /\ row' = [actor |-> TRUE, unused |-> Unused(row, waiting_cb), waits |-> FALSE, waiting_amount |-> NoAmount]
  /\ disk' = row'
  /\ balance' = balance + msg
  /\ overcounted' = (overcounted \/ (waiting_cb = {} /\ msg < row.waiting_amount))
  /\ outcome' = Tell(waiting_cb, "ok")
  /\ waiting_cb' = {}
  /\ op' = "none"
  /\ nexts' = nexts \cup {<<OnWait, gen>>}
  /\ UNCHANGED <<inmap, gen, pending, msg, dangling, restarts, unmade>>

\* next() finds its iterator erased by onError: undefined behaviour.
nextDangling(n) ==
  /\ ~(inmap /\ n[2] = gen)
  /\ dangling' = TRUE
  /\ UNCHANGED <<inmap, gen, row, waiting_cb, pending, disk, op, msg, balance, outcome, history>>

nextBusy == ~row.actor \/ row.waits \/ row.waiting_amount # NoAmount \/ pending = {}

\* Mutant: unused funds are handed out without being taken off.
nextUnusedTwice ==
  /\ row.unused >= Sum(pending)
  /\ row' = row
  /\ disk' = row'
  /\ outcome' = Tell(pending, "ok")
  /\ pending' = {}
  /\ UNCHANGED <<waiting_cb, op, msg>>

\* The unused funds are enough for all pending callers.
nextUnused ==
  /\ row.unused >= Sum(pending)
  /\ row' = [row EXCEPT !.unused = @ - Sum(pending)]
  /\ disk' = row'
  /\ outcome' = Tell(pending, "ok")
  /\ pending' = {}
  /\ UNCHANGED <<waiting_cb, op, msg>>

\* msgAdd pays what is missing.
nextAdd ==
  /\ row.unused < Sum(pending)
  /\ shift(row)
  /\ disk' = row'
  /\ msg' = row'.waiting_amount - row.unused
  /\ op' = "push"
  /\ UNCHANGED outcome

next(n) ==
  /\ ~dangling
  /\ nexts' = nexts \ {n}
  /\ \/ nextDangling(n)
     \/ /\ inmap /\ n[2] = gen
        /\ \/ nextBusy /\ UNCHANGED <<row, waiting_cb, pending, disk, op, msg, outcome>>
           \/ ~nextBusy /\ (nextUnused \/ nextAdd)
        /\ UNCHANGED <<inmap, gen, balance, dangling, history>>

\* The node restarts: only the store is left.
Restart ==
  /\ ~dangling
  /\ restarts < MaxRestarts
  /\ restarts' = restarts + 1
  /\ inmap' = FALSE
  /\ row' = NewRow
  /\ outcome' = [c \in Calls |-> IF outcome[c] = "made" THEN "lost" ELSE outcome[c]]
  /\ waiting_cb' = {} /\ pending' = {} /\ nexts' = {}
  /\ op' = "none"
  /\ UNCHANGED <<gen, disk, msg, balance, dangling, overcounted, unmade>>

Answer == ~dangling /\ (onNetworkError \/ onNetwork \/ onPushError \/ onPush \/ onWaitError \/ onWaitExitCode \/ onWait)

MakerNext == (\E c \in Calls : make(c)) \/ Answer \/ (\E n \in nexts : next(n)) \/ Restart

MakerSpec == MakerInit /\ [][MakerNext]_makerVars

\* The node answers its asynchronous calls and threads go on.
MakerFairness == WF_makerVars(Answer) /\ WF_makerVars(\E n \in nexts : next(n))
-----------------------------------------------------------------------------
Rows == [actor: BOOLEAN, unused: Nat, waits: BOOLEAN, waiting_amount: Nat \cup {NoAmount}]

\* The queue, its row and the calls are well-formed.
MakerTypeOK ==
  /\ inmap \in BOOLEAN /\ gen \in Nat
  /\ row \in Rows /\ (disk = NoRow \/ disk \in Rows)
  /\ waiting_cb \subseteq Calls /\ pending \subseteq Calls
  /\ op \in {"none", "network", "push", "wait"}
  /\ nexts \subseteq (Calls \cup {OnWait}) \X Nat
  /\ msg \in Nat /\ balance \in Nat
  /\ outcome \in [Calls -> {"new", "made", "ok", "error", "lost"}]

(***************************************************************************)
(* A caller waits in exactly one of the two lists until it is told, and is *)
(* told once.                                                              *)
(***************************************************************************)
CallersWaitOnce ==
  /\ waiting_cb \cap pending = {}
  /\ \A c \in Calls : outcome[c] = "made" <=> c \in waiting_cb \cup pending

(***************************************************************************)
(* What callers were told is theirs and what is kept as unused has been    *)
(* paid to the channel.  The exception is real: onWait adds the whole      *)
(* waiting_amount to the unused funds when a restart lost the callers of a *)
(* top-up, although the message paid less because unused funds were        *)
(* reused.                                                                 *)
(***************************************************************************)
Solvent ==
  ~overcounted => Sum({c \in Calls : outcome[c] = "ok"}) + CurrentRow.unused <= balance

(***************************************************************************)
(* Both: every caller of make waits in one place, and the funds promised   *)
(* to callers were paid (PaychMaker and its stored row).                   *)
(***************************************************************************)
MakerIsSound == CallersWaitOnce /\ Solvent

(***************************************************************************)
(* The queue can stand still with callers in it only when next() cannot go *)
(* on: the row has no channel and no message (left behind by a message     *)
(* that failed), or an amount without a message (a restart during a push). *)
(***************************************************************************)
Wedged == (unmade /\ ~row.actor) \/ (restarts > 0 /\ row.waiting_amount # NoAmount /\ ~row.waits)

(***************************************************************************)
(* Every caller is told at last, or lost by a restart, or waits in a queue *)
(* that is wedged; a dangling iterator ends it all.                        *)
(***************************************************************************)
CallersAreTold ==
  \A c \in Calls : outcome[c] = "made" ~> outcome[c] # "made" \/ Wedged \/ dangling
=============================================================================
