----------------------------- MODULE MsgWaiter ------------------------------
(***************************************************************************)
(* MsgWaiter (core/storage/chain/msg_waiter.cpp) answers StateWaitMsg and  *)
(* StateSearchMsg: in which tipset was a message executed?  A wait wants   *)
(* that tipset to be Confidence epochs below the head.                     *)
(*                                                                         *)
(* When the sender's nonce says that the message was executed already, a   *)
(* search walks back from the head, one tipset per task of the io thread;  *)
(* the mutex is free between two tasks, so the head may move meanwhile.    *)
(* Otherwise the callback is kept until a head change applies the message. *)
(* Head changes arrive one tipset at a time: REVERT of the head, APPLY of  *)
(* a child.  Loads from the block store succeed, except that a request may *)
(* be about a message that is not stored.                                  *)
(***************************************************************************)
EXTENDS Integers, FiniteSets, Sequences

CONSTANTS
  Tipsets, Genesis, Parent, Height,   \* the block tree
  Messages,
  Nonce,       \* all Messages have one sender
  Stored,      \* the Messages in the block store
  Msgs,        \* Msgs[t]: the Messages in the blocks of t, executed by t's child
  Requests,    \* calls of wait() and search()
  Waits,       \* those of wait()
  Msg, Confidence, Lookback,          \* their arguments
  SearchFrom,  \* the tipsets search() is called with
  NoTs         \* a null TipsetCPtr

\* A set that holds the parent of each of its members.
HasParents(S) == \A t \in S \ {Genesis} : Parent[t] \in S

\* t and its ancestors.
Chain == [t \in Tipsets |->
  {u \in Tipsets : \A S \in SUBSET Tipsets : t \in S /\ HasParents(S) => u \in S}]

\* The Messages whose execution t's parent state root includes.
Executed(t) == UNION {Msgs[u] : u \in Chain[t] \ {t}}

ASSUME ChainAssumption ==
  /\ Genesis \in Tipsets /\ Height \in [Tipsets -> Nat] /\ Height[Genesis] = 0
  /\ \A t \in Tipsets \ {Genesis} :
       Parent[t] \in Tipsets /\ Height[Parent[t]] < Height[t]
  /\ Msgs \in [Tipsets -> SUBSET Messages] /\ Msgs[Genesis] = {}
  /\ \A t \in Tipsets : \A m \in Msgs[t] : Nonce[m] = Cardinality(Executed(t))

ASSUME RequestAssumption ==
  /\ Waits \subseteq Requests /\ Msg \in [Requests -> Messages]
  /\ Confidence \in [Waits -> Int] /\ Lookback \in [Requests -> Int]
  /\ SearchFrom \subseteq Tipsets /\ NoTs \notin Tipsets

VARIABLES
  head,
  waiting,    \* MsgWaiter::waiting: message -> [callbacks, ts]
  searching,  \* MsgWaiter::searching: request -> [ts, min_height, overtaken]
  calls,      \* the Requests made so far
  replies,    \* what the callback of each request was called with, in order
  suspect,    \* history: messages with a wait whose search saw a REVERT
  crashed     \* a null pointer was dereferenced

waiterVars == <<head, waiting, searching, calls, replies, suspect, crashed>>

\* Whether t executed m, which is what the receipts of t are for.
Executes(t, m) == t # Genesis /\ m \in Msgs[Parent[t]]

\* The sender's nonce in the head's parent state has passed the message's.
isSearch(m) == Nonce[m] < Cardinality(Executed(head))

WaiterInit ==
  /\ head = Genesis
  /\ waiting = [m \in {} |-> {}]
  /\ searching = [r \in {} |-> {}]
  /\ calls = {}
  /\ replies = [r \in Requests |-> <<>>]
  /\ suspect = {}
  /\ crashed = FALSE

(***************************************************************************)
(* checkWait on the entries of the messages M of the map W: callbacks with *)
(* enough confidence are called and removed, and an entry without          *)
(* callbacks is erased.                                                    *)
(***************************************************************************)
\* Mutant: one epoch less than asked for is enough.
ReadyEarly(e, h) ==
  {r \in e.callbacks : e.ts # NoTs /\ Height[h] - Height[e.ts] + 1 >= Confidence[r]}

Ready(e, h) ==
  {r \in e.callbacks : e.ts # NoTs /\ Height[h] - Height[e.ts] >= Confidence[r]}

\* Mutant: the callback stays in the map after it was called.
checkWaitKeeping(W, M, h) ==
  /\ waiting' = W
  /\ replies' = [r \in Requests |->
       IF \E m \in M : r \in Ready(W[m], h) THEN Append(replies[r], W[Msg[r]].ts)
       ELSE replies[r]]

\* Mutant: an entry whose callbacks were all called is not erased.
checkWaitNotErasing(W, M, h) ==
  /\ waiting' = [m \in DOMAIN W |->
       [W[m] EXCEPT !.callbacks = IF m \in M THEN @ \ Ready(W[m], h) ELSE @]]
  /\ replies' = [r \in Requests |->
       IF \E m \in M : r \in Ready(W[m], h) THEN Append(replies[r], W[Msg[r]].ts)
       ELSE replies[r]]

checkWait(W, M, h) ==
  LET left(m) == IF m \in M THEN W[m].callbacks \ Ready(W[m], h) ELSE W[m].callbacks
      erased == {m \in M : W[m].ts # NoTs /\ left(m) = {}}
  IN /\ waiting' = [m \in DOMAIN W \ erased |-> [callbacks |-> left(m), ts |-> W[m].ts]]
     /\ replies' = [r \in Requests |->
          IF \E m \in M : r \in Ready(W[m], h) THEN Append(replies[r], W[Msg[r]].ts)
          ELSE replies[r]]

Reply(r, ts) ==
  /\ replies' = [replies EXCEPT ![r] = Append(@, ts)]
  /\ UNCHANGED waiting

(***************************************************************************)
(* waiting with one more callback; ts is kept only when the entry has none *)
(***************************************************************************)
AddCallback(r, ts) ==
  LET m == Msg[r]
      e == IF m \in DOMAIN waiting THEN waiting[m] ELSE [callbacks |-> {}, ts |-> NoTs]
  IN [n \in DOMAIN waiting \cup {m} |->
        IF n = m THEN [callbacks |-> e.callbacks \cup {r},
                       ts |-> IF e.ts = NoTs THEN ts ELSE e.ts]
        ELSE waiting[n]]

(***************************************************************************)
(* What wait() does with the result of its search.  A tipset above the     *)
(* head is known to be reverted.                                           *)
(***************************************************************************)
OnFound(r, ts) ==
  LET revert == Height[head] < Height[ts] IN
  IF ts # NoTs /\ (revert \/ Height[head] - Height[ts] < Confidence[r])
  THEN checkWait(AddCallback(r, IF revert THEN NoTs ELSE ts), {Msg[r]}, head)
  ELSE Reply(r, ts)

SearchEnds(r, s, ts) ==
  /\ IF r \in Waits THEN OnFound(r, ts) ELSE Reply(r, ts)
  /\ searching' = [q \in DOMAIN searching \ {r} |-> searching[q]]
  /\ suspect' = IF s.overtaken /\ r \in Waits THEN suspect \cup {Msg[r]} ELSE suspect

(***************************************************************************)
(* One turn of searchLoop: look at one tipset, then post the next turn or  *)
(* finish.                                                                 *)
(***************************************************************************)
searchLoop(r, s) ==
  LET inRange == Height[s.ts] # 0 /\ Height[s.ts] >= s.min_height
      found == inRange /\ Executes(s.ts, Msg[r])
  IN \/ /\ inRange /\ ~found
        /\ searching' = [q \in DOMAIN searching \cup {r} |->
                           IF q = r THEN [s EXCEPT !.ts = Parent[s.ts]] ELSE searching[q]]
        /\ UNCHANGED <<waiting, replies, suspect>>
     \/ found /\ SearchEnds(r, s, s.ts)
     \/ ~inRange /\ SearchEnds(r, s, NoTs)

_search(r, ts) ==
  searchLoop(r, [ts |-> ts, overtaken |-> FALSE,
                 min_height |-> IF Lookback[r] = -1 THEN 0 ELSE Height[head] - Lookback[r]])

Call(r) == r \notin calls /\ ~crashed /\ calls' = calls \cup {r}

\* search() from a tipset of the caller's choice.
search(r) ==
  /\ r \notin Waits
  /\ Call(r)
  /\ IF Msg[r] \in Stored /\ isSearch(Msg[r])
     THEN \E ts \in SearchFrom : _search(r, ts)
     ELSE Reply(r, NoTs) /\ UNCHANGED <<searching, suspect>>
  /\ UNCHANGED <<head, crashed>>

\* Mutant: wait() never looks back.
waitWithoutSearch(r) ==
  /\ r \in Waits
  /\ Call(r)
  /\ waiting' = AddCallback(r, NoTs)
  /\ UNCHANGED <<head, searching, replies, suspect, crashed>>

wait(r) ==
  /\ r \in Waits
  /\ Call(r)
  /\ \/ /\ Msg[r] \notin Stored
        /\ Reply(r, NoTs)
        /\ UNCHANGED <<searching, suspect>>
     \/ /\ Msg[r] \in Stored /\ isSearch(Msg[r])
        /\ _search(r, head)
     \/ /\ Msg[r] \in Stored /\ ~isSearch(Msg[r])
        /\ waiting' = AddCallback(r, NoTs)
        /\ UNCHANGED <<searching, replies, suspect>>
  /\ UNCHANGED <<head, crashed>>

\* The posted task goes on with the search.
SearchTask(r) ==
  /\ r \in DOMAIN searching /\ ~crashed
  /\ searchLoop(r, searching[r])
  /\ UNCHANGED <<head, calls, crashed>>

(***************************************************************************)
(* onHeadChange                                                            *)
(***************************************************************************)
Apply(t) ==
  LET W == [m \in DOMAIN waiting |->
              IF Executes(t, m) THEN [waiting[m] EXCEPT !.ts = t] ELSE waiting[m]]
  IN /\ t # Genesis /\ Parent[t] = head /\ ~crashed
     /\ head' = t
     /\ checkWait(W, DOMAIN W, t)
     /\ UNCHANGED <<searching, calls, suspect, crashed>>

Overtake == searching' = [r \in DOMAIN searching |-> [searching[r] EXCEPT !.overtaken = TRUE]]

Revert ==
  LET seen == {m \in DOMAIN waiting : Executes(head, m)}
      W == [m \in DOMAIN waiting |->
              IF m \in seen /\ waiting[m].ts = head
              THEN [waiting[m] EXCEPT !.ts = NoTs] ELSE waiting[m]]
  IN /\ head # Genesis /\ ~crashed
     /\ IF \E m \in seen : waiting[m].ts = NoTs   \* it->second.ts->key
        THEN /\ crashed' = TRUE
             /\ UNCHANGED <<head, waiting, replies, searching>>
        ELSE /\ head' = Parent[head]
             /\ checkWait(W, DOMAIN W, Parent[head])
             /\ Overtake
             /\ UNCHANGED crashed
     /\ UNCHANGED <<calls, suspect>>

WaiterNext ==
  \/ \E r \in Requests : wait(r) \/ search(r) \/ SearchTask(r)
  \/ \E t \in Tipsets : Apply(t)
  \/ Revert

WaiterSpec == WaiterInit /\ [][WaiterNext]_waiterVars

\* The io thread runs what is posted.  Head changes may stop at any time.
WaiterFairness == \A r \in Requests : WF_waiterVars(SearchTask(r))
-----------------------------------------------------------------------------
Entries(m) == [callbacks: (SUBSET {r \in Waits : Msg[r] = m}) \ {{}}, ts: Tipsets \cup {NoTs}]

Searches == [ts: Tipsets, min_height: Int, overtaken: BOOLEAN]

(***************************************************************************)
(* Types; an entry of the waiting map always has a callback (checkWait     *)
(* erases it otherwise).                                                   *)
(***************************************************************************)
WaiterTypeOK ==
  /\ head \in Tipsets
  /\ DOMAIN waiting \subseteq Messages
  /\ \A m \in DOMAIN waiting : waiting[m] \in Entries(m)
  /\ calls \subseteq Requests /\ DOMAIN searching \subseteq calls
  /\ \A r \in DOMAIN searching : searching[r] \in Searches
  /\ replies \in [Requests -> Seq(Tipsets \cup {NoTs})]
  /\ suspect \subseteq Messages /\ crashed \in BOOLEAN

(***************************************************************************)
(* No callback is lost and none is called twice: once its request is made  *)
(* it is held by a search, or by the waiting map, or was called once.      *)
(***************************************************************************)
OneCallback ==
  \A r \in Requests :
    LET held == (IF r \in DOMAIN searching THEN 1 ELSE 0)
                + Cardinality({m \in DOMAIN waiting : r \in waiting[m].callbacks})
    IN held + Len(replies[r]) = IF r \in calls THEN 1 ELSE 0

\* What is reported in this step is on the new head's chain, deep enough.
Reports ==
  \A r \in Waits :
    replies'[r] # replies[r] /\ Msg[r] \notin suspect' =>
      LET ts == replies'[r][Len(replies'[r])] IN
      ts # NoTs => /\ ts \in Chain[head']
                   /\ Executes(ts, Msg[r])
                   /\ Height[head'] - Height[ts] >= Confidence[r]

(***************************************************************************)
(* What a wait reports is then on the head's chain with the confidence     *)
(* asked for, at the moment it is reported, unless a search for the        *)
(* message ran into a REVERT.                                              *)
(***************************************************************************)
ReportedOnChain == [][Reports]_waiterVars

Deep(r) ==
  \E t \in Chain[head] : Executes(t, Msg[r]) /\ Height[head] - Height[t] >= Confidence[r]

(***************************************************************************)
(* A message that stays deep enough on the chain is reported, or reported  *)
(* as not found, unless a search for it ran into a REVERT.                 *)
(***************************************************************************)
DeepIsReported ==
  \A r \in Waits :
    <>[](r \in calls /\ Msg[r] \notin suspect /\ Deep(r)) => <>(replies[r] # <<>>)
=============================================================================
