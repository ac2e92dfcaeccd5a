-------------------------- MODULE PaychMakerProofs --------------------------
(***************************************************************************)
(* Proofs about MsgWaiter and about PaychMaker, which waits through it.    *)
(* For every block tree, every set of requests and every order of calls,   *)
(* search tasks and head changes no callback of the waiter is lost or      *)
(* called twice, and a tipset reported to a wait is on the head's chain,   *)
(* executed the message and is deep enough.  For any finite number of      *)
(* callers and any amounts every caller of the maker waits in one place,   *)
(* and the vouchers a channel may issue are covered by what was sent to it.*)
(***************************************************************************)
EXTENDS MsgWaiter, PaychMaker, FiniteSetTheorems, TLAPS

-----------------------------------------------------------------------------
(***************************************************************************)
(* The chain of a tipset.                                                  *)
(***************************************************************************)
LEMMA ChainHasParents ==
  ASSUME NEW t \in Tipsets, NEW u \in Chain[t], u # Genesis
  PROVE  Parent[u] \in Chain[t] /\ Parent[u] \in Tipsets
<1>1. u \in Tipsets
  BY Zenon DEF Chain
<1>2. Parent[u] \in Tipsets
  BY <1>1, ChainAssumption, Zenon
<1>3. ASSUME NEW S \in SUBSET Tipsets, t \in S, HasParents(S) PROVE Parent[u] \in S
  <2>1. u \in S
    BY <1>3, Zenon DEF Chain
  <2> QED
    BY <1>3, <2>1, Zenon DEF HasParents
<1> QED
  BY <1>2, <1>3, Zenon DEF Chain

\* A chain is a set of tipsets that holds the one it ends with.
LEMMA ChainHolds == ASSUME NEW t \in Tipsets PROVE t \in Chain[t] /\ Chain[t] \in SUBSET Tipsets
BY Zenon DEF Chain

\* A child's chain is its parent's and the child.
LEMMA ChainGrows ==
  ASSUME NEW t \in Tipsets, t # Genesis
  PROVE  Chain[t] = {t} \cup Chain[Parent[t]]
<1> DEFINE p == Parent[t]
           S == {t} \cup Chain[p]
<1>1. p \in Tipsets /\ p \in Chain[t]
  BY ChainHolds, ChainHasParents, Zenon
<1>2. ASSUME NEW u \in Chain[t] PROVE u \in S
  <2>1. S \in SUBSET Tipsets /\ t \in S
    BY <1>1, ChainHolds, Zenon
  <2>2. p \in Chain[p]
    BY <1>1, ChainHolds, Zenon
  <2>3. HasParents(S)
    BY <1>1, <2>2, ChainHasParents, Zenon DEF HasParents
  <2> HIDE DEF S
  <2> QED
    BY <2>1, <2>3, Zenon DEF Chain
<1>3. ASSUME NEW u \in Chain[p] PROVE u \in Chain[t]
  <2>1. u \in Tipsets
    BY <1>1, ChainHolds, Zenon
  <2>2. ASSUME NEW T \in SUBSET Tipsets, t \in T, HasParents(T) PROVE u \in T
    <3>1. p \in T
      BY <2>2, Zenon DEF HasParents
    <3> QED
      BY <1>1, <2>2, <3>1, Zenon DEF Chain
  <2> QED
    BY <2>1, <2>2, Zenon DEF Chain
<1> QED
  BY <1>2, <1>3, ChainHolds, Zenon

(***************************************************************************)
(* The inductive invariant.                                                *)
(***************************************************************************)
\* A well-formed waiting map.
MapOK(W) == DOMAIN W \subseteq Messages /\ \A m \in DOMAIN W : W[m] \in Entries(m)

In(W, r) == Msg[r] \in DOMAIN W /\ r \in W[Msg[r]].callbacks

\* A request that was made (C) is with a search (D), in the map, or was answered once.
Once(W, D, C) ==
  \A r \in Requests :
    /\ r \in D => ~In(W, r)
    /\ r \in D \/ In(W, r) => r \in C /\ replies[r] = <<>>
    /\ r \in C /\ r \notin D /\ ~In(W, r) => Len(replies[r]) = 1
    /\ r \notin C => replies[r] = <<>>

HeldOnce == Once(waiting, DOMAIN searching, calls)

\* The tipset of an entry is on h's chain, but for the messages S.
EntryIsOnChain(W, h, S) ==
  \A m \in DOMAIN W : m \notin S /\ W[m].ts # NoTs => W[m].ts \in Chain[h] /\ Executes(W[m].ts, m)

\* So is the tipset a search has come to, unless a REVERT overtook it.
SearchIsOnChain ==
  \A r \in DOMAIN searching \cap Waits : ~searching[r].overtaken => searching[r].ts \in Chain[head]

WaiterIInv ==
  /\ WaiterTypeOK
  /\ HeldOnce
  /\ EntryIsOnChain(waiting, head, suspect)
  /\ SearchIsOnChain

\* A waiter that has not been called yet satisfies the invariant.
LEMMA WaiterInitIInv == WaiterInit => WaiterIInv
<1> SUFFICES ASSUME WaiterInit PROVE WaiterIInv
  BY Zenon
<1>1. DOMAIN waiting = {} /\ DOMAIN searching = {}
  BY Zenon DEF WaiterInit
<1>2. WaiterTypeOK
  <2>1. replies \in [Requests -> Seq(Tipsets \cup {NoTs})]
    BY DEF WaiterInit
  <2>2. head \in Tipsets
    BY ChainAssumption, Zenon DEF WaiterInit
  <2> QED
    BY <1>1, <2>1, <2>2, Zenon DEF WaiterInit, WaiterTypeOK
<1>3. HeldOnce
  BY <1>1, Zenon DEF WaiterInit, HeldOnce, Once, In
<1>4. EntryIsOnChain(waiting, head, suspect) /\ SearchIsOnChain
  BY <1>1, Zenon DEF EntryIsOnChain, SearchIsOnChain
<1> QED
  BY <1>2, <1>3, <1>4, Zenon DEF WaiterIInv

(***************************************************************************)
(* checkWait: a callback is called with its entry's tipset, deep enough    *)
(* below h, and leaves the map; or nothing happens to it.                  *)
(***************************************************************************)
Called(W, h, r) ==
  /\ r \in Waits /\ In(W, r) /\ ~In(waiting', r)
  /\ W[Msg[r]].ts \in Tipsets
  /\ Height[h] - Height[W[Msg[r]].ts] >= Confidence[r]
  /\ replies'[r] = Append(replies[r], W[Msg[r]].ts)

Kept(W, r) == replies'[r] = replies[r] /\ (In(waiting', r) <=> In(W, r))

\* checkWait calls each callback it takes out once and keeps the others, and
\* gives no entry another tipset.
LEMMA CheckWait ==
  ASSUME replies \in [Requests -> Seq(Tipsets \cup {NoTs})],
         NEW W, MapOK(W), NEW M \in SUBSET DOMAIN W, NEW h \in Tipsets, checkWait(W, M, h)
  PROVE  /\ MapOK(waiting')
         /\ replies' \in [Requests -> Seq(Tipsets \cup {NoTs})]
         /\ \A r \in Requests : Called(W, h, r) \/ Kept(W, r)
         /\ \A m \in DOMAIN waiting' : m \in DOMAIN W /\ waiting'[m].ts = W[m].ts
<1> DEFINE left(m) == IF m \in M THEN W[m].callbacks \ Ready(W[m], h) ELSE W[m].callbacks
           erased == {m \in M : W[m].ts # NoTs /\ left(m) = {}}
           calledBack(r) == \E m \in M : r \in Ready(W[m], h)
<1>1. waiting' = [m \in DOMAIN W \ erased |-> [callbacks |-> left(m), ts |-> W[m].ts]]
  BY Zenon DEF checkWait
<1>2. replies' = [r \in Requests |-> IF calledBack(r) THEN Append(replies[r], W[Msg[r]].ts)
                                     ELSE replies[r]]
  BY Zenon DEF checkWait
<1>3. DOMAIN waiting' = DOMAIN W \ erased
      /\ \A m \in DOMAIN W \ erased : waiting'[m].callbacks = left(m) /\ waiting'[m].ts = W[m].ts
  BY <1>1, Zenon
<1>4. \A m \in DOMAIN W : /\ W[m].callbacks # {} /\ W[m].ts \in Tipsets \cup {NoTs}
                          /\ W[m].callbacks \subseteq {r \in Waits : Msg[r] = m}
  BY Zenon DEF MapOK, Entries
<1>5. \A m \in DOMAIN W : left(m) \subseteq W[m].callbacks
  BY Zenon
<1>6. \A m \in DOMAIN W \ erased : left(m) # {}
  <2> SUFFICES ASSUME NEW m \in DOMAIN W, left(m) = {} PROVE m \in erased
    BY Zenon
  <2>1. m \in M
    BY <1>4, Zenon
  <2>2. Ready(W[m], h) # {}
    BY <1>4, <2>1
  <2>3. W[m].ts # NoTs
    BY <2>2, Zenon DEF Ready
  <2> QED
    BY <2>1, <2>3, Zenon
<1>7. MapOK(waiting')
  <2> SUFFICES ASSUME NEW m \in DOMAIN W \ erased PROVE waiting'[m] \in Entries(m) /\ m \in Messages
    BY <1>3, Zenon DEF MapOK
  <2>1. waiting'[m] = [callbacks |-> left(m), ts |-> W[m].ts]
    BY <1>1, Zenon
  <2>2. left(m) \in (SUBSET {r \in Waits : Msg[r] = m}) \ {{}}
    BY <1>4, <1>5, <1>6, Zenon
  <2> HIDE DEF left
  <2> QED
    BY <1>4, <2>1, <2>2 DEF Entries, MapOK
<1>8. ASSUME NEW r \in Requests, calledBack(r) PROVE Called(W, h, r)
  <2>1. PICK m \in M : r \in Ready(W[m], h)
    BY <1>8, Zenon
  <2>2. m = Msg[r] /\ m \in DOMAIN W /\ r \in Waits /\ r \in W[m].callbacks
    BY <1>4, <2>1, Zenon DEF Ready
  <2>3. W[m].ts # NoTs /\ Height[h] - Height[W[m].ts] >= Confidence[r]
    BY <2>1, Zenon DEF Ready
  <2>4. r \notin left(m)
    BY <2>1, Zenon
  <2>5. ~In(waiting', r)
    BY <1>3, <2>2, <2>4, Zenon DEF In
  <2>6. replies'[r] = Append(replies[r], W[m].ts)
    BY <1>2, <1>8, <2>2, Zenon
  <2> QED
    BY <1>4, <2>2, <2>3, <2>5, <2>6, Zenon DEF Called, In
<1>9. ASSUME NEW r \in Requests, ~calledBack(r) PROVE Kept(W, r)
  <2>1. replies'[r] = replies[r]
    BY <1>2, <1>9, Zenon
  <2>2. ASSUME In(W, r) PROVE In(waiting', r)
    <3>1. Msg[r] \in DOMAIN W /\ r \in left(Msg[r])
      BY <1>9, <2>2, Zenon DEF In
    <3> QED
      BY <1>3, <3>1, Zenon DEF In
  <2>3. ASSUME In(waiting', r) PROVE In(W, r)
    BY <1>3, <1>5, <2>3, Zenon DEF In
  <2> QED
    BY <2>1, <2>2, <2>3, Zenon DEF Kept
<1>10. replies' \in [Requests -> Seq(Tipsets \cup {NoTs})]
  <2>1. ASSUME NEW r \in Requests, calledBack(r) PROVE W[Msg[r]].ts \in Tipsets \cup {NoTs}
    BY <2>1, <1>8, Zenon DEF Called
  <2> HIDE DEF calledBack
  <2> QED
    BY <1>2, <2>1
<1> HIDE DEF left, erased, calledBack
<1> QED
  BY <1>3, <1>7, <1>8, <1>9, <1>10, Zenon

\* A callback added to an entry is the only new one of the map.
LEMMA AddsCallback ==
  ASSUME WaiterTypeOK, NEW r \in Waits, NEW ts \in Tipsets \cup {NoTs}
  PROVE  LET W == AddCallback(r, ts) IN
         /\ MapOK(W) /\ In(W, r) /\ Msg[r] \in DOMAIN W
         /\ \A q \in Requests \ {r} : In(W, q) <=> In(waiting, q)
         /\ \A m \in DOMAIN W : \/ m \in DOMAIN waiting /\ W[m].ts = waiting[m].ts
                                \/ m = Msg[r] /\ W[m].ts = ts
<1> DEFINE m0 == Msg[r]
           e == IF m0 \in DOMAIN waiting THEN waiting[m0] ELSE [callbacks |-> {}, ts |-> NoTs]
           W == AddCallback(r, ts)
           new == [callbacks |-> e.callbacks \cup {r}, ts |-> IF e.ts = NoTs THEN ts ELSE e.ts]
<1>1. W = [n \in DOMAIN waiting \cup {m0} |-> IF n = m0 THEN new ELSE waiting[n]]
  BY Zenon DEF AddCallback
<1>2. m0 \in Messages /\ r \in Requests
  BY RequestAssumption, Zenon
<1>3. e.callbacks \subseteq {q \in Waits : Msg[q] = m0} /\ e.ts \in Tipsets \cup {NoTs}
  BY Zenon DEF WaiterTypeOK, Entries
<1>4. DOMAIN W = DOMAIN waiting \cup {m0} /\ W[m0] = new
      /\ \A n \in DOMAIN waiting \ {m0} : W[n] = waiting[n]
  BY <1>1, Zenon
<1>5. new.callbacks = e.callbacks \cup {r} /\ new.ts = IF e.ts = NoTs THEN ts ELSE e.ts
  BY Zenon
<1>6. new \in Entries(m0)
  BY <1>3, Zenon DEF Entries
<1>7. MapOK(W)
  BY <1>2, <1>4, <1>6, Zenon DEF MapOK, WaiterTypeOK
<1>8. In(W, r)
  BY <1>4, <1>5, Zenon DEF In
<1>9. ASSUME NEW q \in Requests \ {r} PROVE In(W, q) <=> In(waiting, q)
  <2>1. CASE Msg[q] = m0
    BY <2>1, <1>4, <1>5, Zenon DEF In
  <2>2. CASE Msg[q] # m0
    BY <2>2, <1>4, Zenon DEF In
  <2> QED
    BY <2>1, <2>2, Zenon
<1>10. ASSUME NEW m \in DOMAIN W
       PROVE \/ m \in DOMAIN waiting /\ W[m].ts = waiting[m].ts
             \/ m = m0 /\ W[m].ts = ts
  <2>1. CASE m = m0
    BY <2>1, <1>4, <1>5, Zenon
  <2>2. CASE m # m0
    BY <2>2, <1>4, Zenon
  <2> QED
    BY <2>1, <2>2, Zenon
<1> HIDE DEF W, new, e
<1> QED
  BY <1>4, <1>7, <1>8, <1>9, <1>10, Zenon DEF W

\* A map that is sound for the new head stays so when its callbacks are called.
LEMMA MapStep ==
  ASSUME WaiterTypeOK, head' \in Tipsets,
         NEW W, MapOK(W), NEW M \in SUBSET DOMAIN W, checkWait(W, M, head'),
         Once(W, DOMAIN searching', calls'), EntryIsOnChain(W, head', suspect')
  PROVE  /\ MapOK(waiting') /\ replies' \in [Requests -> Seq(Tipsets \cup {NoTs})]
         /\ HeldOnce' /\ EntryIsOnChain(waiting', head', suspect') /\ Reports
<1>1. replies \in [Requests -> Seq(Tipsets \cup {NoTs})]
  BY Zenon DEF WaiterTypeOK
<1>2. /\ MapOK(waiting')
      /\ replies' \in [Requests -> Seq(Tipsets \cup {NoTs})]
      /\ \A r \in Requests : Called(W, head', r) \/ Kept(W, r)
      /\ \A m \in DOMAIN waiting' : m \in DOMAIN W /\ waiting'[m].ts = W[m].ts
  BY <1>1, CheckWait, Zenon
<1>3. EntryIsOnChain(waiting', head', suspect')
  BY <1>2, Zenon DEF EntryIsOnChain
<1>4. HeldOnce'
  <2> SUFFICES ASSUME NEW r \in Requests
               PROVE /\ r \in DOMAIN searching' => ~In(waiting', r)
                     /\ r \in DOMAIN searching' \/ In(waiting', r) => r \in calls' /\ replies'[r] = <<>>
                     /\ r \in calls' /\ r \notin DOMAIN searching' /\ ~In(waiting', r) => Len(replies'[r]) = 1
                     /\ r \notin calls' => replies'[r] = <<>>
    BY Zenon DEF HeldOnce, Once, In
  <2>1. CASE Called(W, head', r)
    <3>1. r \notin DOMAIN searching' /\ r \in calls' /\ replies[r] = <<>> /\ ~In(waiting', r)
      BY <2>1, Zenon DEF Called, Once
    <3>2. replies'[r] = Append(<<>>, W[Msg[r]].ts) /\ W[Msg[r]].ts \in Tipsets
      BY <2>1, <3>1, Zenon DEF Called
    <3>3. Len(replies'[r]) = 1
      BY <3>2
    <3> QED
      BY <3>1, <3>3, Zenon
  <2>2. CASE Kept(W, r)
    BY <2>2, Zenon DEF Kept, Once
  <2> QED
    BY <1>2, <2>1, <2>2, Zenon
<1>5. Reports
  <2> SUFFICES ASSUME NEW r \in Waits, replies'[r] # replies[r], Msg[r] \notin suspect',
                      replies'[r][Len(replies'[r])] # NoTs
               PROVE  LET ts == replies'[r][Len(replies'[r])] IN
                      /\ ts \in Chain[head'] /\ Executes(ts, Msg[r])
                      /\ Height[head'] - Height[ts] >= Confidence[r]
    BY Zenon DEF Reports
  <2>1. r \in Requests /\ Called(W, head', r)
    BY <1>2, RequestAssumption, Zenon DEF Kept
  <2> DEFINE ts == W[Msg[r]].ts
  <2>2. replies'[r] = Append(replies[r], ts) /\ replies[r] \in Seq(Tipsets \cup {NoTs}) /\ ts \in Tipsets
    BY <1>1, <2>1, Zenon DEF Called
  <2>3. replies'[r][Len(replies'[r])] = ts
    BY <2>2
  <2>4. Msg[r] \in DOMAIN W /\ ts # NoTs
    BY <2>1, <2>2, RequestAssumption, Zenon DEF Called, In
  <2>5. ts \in Chain[head'] /\ Executes(ts, Msg[r])
    BY <2>4, Zenon DEF EntryIsOnChain
  <2> QED
    BY <2>1, <2>3, <2>5, Zenon DEF Called
<1> QED
  BY <1>2, <1>3, <1>4, <1>5, Zenon

\* Request r, in no list, is searched for no more (or never was).
Freed(r) ==
  /\ r \in Requests /\ ~In(waiting, r) /\ replies[r] = <<>>
  /\ calls' = calls \cup {r}
  /\ UNCHANGED <<head, crashed>>
  /\ DOMAIN searching' = DOMAIN searching \ {r}
  /\ \A q \in DOMAIN searching \ {r} : searching'[q] = searching[q]
  /\ suspect \subseteq suspect' /\ suspect' \subseteq Messages

\* When r leaves the searches, those that stay are as they were.
LEMMA FreedKeepsRest ==
  ASSUME WaiterIInv, NEW r, Freed(r),
         MapOK(waiting'), replies' \in [Requests -> Seq(Tipsets \cup {NoTs})]
  PROVE  WaiterTypeOK' /\ SearchIsOnChain'
<1>1. WaiterTypeOK'
  BY Zenon DEF WaiterIInv, WaiterTypeOK, Freed, MapOK
<1>2. SearchIsOnChain'
  BY Zenon DEF WaiterIInv, SearchIsOnChain, Freed
<1> QED
  BY <1>1, <1>2, Zenon

\* A step that answers r at once keeps the invariant; what it answers to a
\* wait is on the chain and deep enough.
LEMMA ReplyStep ==
  ASSUME WaiterIInv, NEW r \in Requests, NEW ts \in Tipsets \cup {NoTs}, Freed(r), Reply(r, ts),
         r \in Waits /\ Msg[r] \notin suspect' /\ ts # NoTs =>
           /\ ts \in Chain[head] /\ Executes(ts, Msg[r])
           /\ Height[head] - Height[ts] >= Confidence[r]
  PROVE  WaiterIInv' /\ Reports
<1> USE DEF WaiterIInv
<1>1. replies \in [Requests -> Seq(Tipsets \cup {NoTs})] /\ waiting' = waiting
  BY Zenon DEF WaiterTypeOK, Reply
<1>2. replies' = [replies EXCEPT ![r] = Append(@, ts)]
  BY Zenon DEF Reply
<1>3. replies'[r] = Append(<<>>, ts) /\ (\A q \in Requests \ {r} : replies'[q] = replies[q])
  BY <1>1, <1>2, Zenon DEF Freed
<1>4. Len(replies'[r]) = 1 /\ replies'[r][Len(replies'[r])] = ts
  BY <1>3
<1>5. replies' \in [Requests -> Seq(Tipsets \cup {NoTs})]
  BY <1>1, <1>2
<1>6. MapOK(waiting')
  BY <1>1, Zenon DEF MapOK, WaiterTypeOK
<1>7. WaiterTypeOK' /\ SearchIsOnChain'
  BY <1>5, <1>6, FreedKeepsRest, Zenon
<1>8. EntryIsOnChain(waiting', head', suspect')
  BY <1>1, Zenon DEF EntryIsOnChain, Freed
<1>9. HeldOnce'
  BY <1>1, <1>3, <1>4, Zenon DEF HeldOnce, Once, In, Freed
<1>10. Reports
  <2> SUFFICES ASSUME NEW q \in Waits, replies'[q] # replies[q], Msg[q] \notin suspect',
                      replies'[q][Len(replies'[q])] # NoTs
               PROVE  LET t == replies'[q][Len(replies'[q])] IN
                      /\ t \in Chain[head'] /\ Executes(t, Msg[q])
                      /\ Height[head'] - Height[t] >= Confidence[q]
    BY Zenon DEF Reports
  <2>1. q = r
    BY <1>3, RequestAssumption, Zenon
  <2> QED
    BY <2>1, <1>4, Zenon DEF Freed
<1> QED
  BY <1>7, <1>8, <1>9, <1>10, Zenon

\* Request r joins the map.
LEMMA JoinStep ==
  ASSUME WaiterIInv, NEW r \in Waits, NEW ts \in Tipsets \cup {NoTs}, Freed(r),
         ts # NoTs /\ Msg[r] \notin suspect' => ts \in Chain[head] /\ Executes(ts, Msg[r])
  PROVE  LET W == AddCallback(r, ts) IN
         /\ MapOK(W) /\ Msg[r] \in DOMAIN W
         /\ Once(W, DOMAIN searching', calls') /\ EntryIsOnChain(W, head', suspect')
<1> USE DEF WaiterIInv
<1> DEFINE W == AddCallback(r, ts)
<1>1. /\ MapOK(W) /\ In(W, r) /\ Msg[r] \in DOMAIN W
      /\ \A q \in Requests \ {r} : In(W, q) <=> In(waiting, q)
      /\ \A m \in DOMAIN W : \/ m \in DOMAIN waiting /\ W[m].ts = waiting[m].ts
                             \/ m = Msg[r] /\ W[m].ts = ts
  BY AddsCallback, Zenon
<1> HIDE DEF W
<1>2. Once(W, DOMAIN searching', calls')
  BY <1>1, RequestAssumption, Zenon DEF HeldOnce, Once, Freed
<1>3. EntryIsOnChain(W, head', suspect')
  BY <1>1, Zenon DEF EntryIsOnChain, Freed
<1> QED
  BY <1>1, <1>2, <1>3, Zenon DEF W

\* A step that puts r in the map and checks its entry keeps the invariant.
LEMMA AddStep ==
  ASSUME WaiterIInv, NEW r \in Waits, NEW ts \in Tipsets \cup {NoTs}, Freed(r),
         checkWait(AddCallback(r, ts), {Msg[r]}, head),
         ts # NoTs /\ Msg[r] \notin suspect' => ts \in Chain[head] /\ Executes(ts, Msg[r])
  PROVE  WaiterIInv' /\ Reports
<1> DEFINE W == AddCallback(r, ts)
<1>1. /\ MapOK(W) /\ Msg[r] \in DOMAIN W
      /\ Once(W, DOMAIN searching', calls') /\ EntryIsOnChain(W, head', suspect')
  BY JoinStep, Zenon
<1>2. WaiterTypeOK /\ head' \in Tipsets /\ checkWait(W, {Msg[r]}, head')
  BY Zenon DEF WaiterIInv, WaiterTypeOK, Freed
<1> HIDE DEF W
<1>3. /\ MapOK(waiting') /\ replies' \in [Requests -> Seq(Tipsets \cup {NoTs})]
      /\ HeldOnce' /\ EntryIsOnChain(waiting', head', suspect') /\ Reports
  BY <1>1, <1>2, MapStep, Zenon
<1>4. WaiterTypeOK' /\ SearchIsOnChain'
  BY <1>3, FreedKeepsRest, Zenon
<1> QED
  BY <1>3, <1>4, Zenon DEF WaiterIInv

\* A turn of a search whose request is in no list.
LEMMA SearchStep ==
  ASSUME WaiterIInv, NEW r \in Requests, NEW s \in Searches, searchLoop(r, s),
         ~In(waiting, r), replies[r] = <<>>, calls' = calls \cup {r}, UNCHANGED <<head, crashed>>,
         r \in Waits /\ ~s.overtaken => s.ts \in Chain[head]
  PROVE  WaiterIInv' /\ Reports
<1> USE DEF WaiterIInv
<1> DEFINE inRange == Height[s.ts] # 0 /\ Height[s.ts] >= s.min_height
           found == inRange /\ Executes(s.ts, Msg[r])
<1>0. s.ts \in Tipsets /\ s.overtaken \in BOOLEAN /\ s.min_height \in Int
  BY Zenon DEF Searches
<1>1. CASE /\ inRange /\ ~found
           /\ searching' = [q \in DOMAIN searching \cup {r} |->
                              IF q = r THEN [s EXCEPT !.ts = Parent[s.ts]] ELSE searching[q]]
           /\ UNCHANGED <<waiting, replies, suspect>>
  <2>1. s.ts # Genesis
    BY <1>1, ChainAssumption, Zenon
  <2>2. Parent[s.ts] \in Tipsets
    BY <1>0, <2>1, ChainAssumption, Zenon
  <2>3. r \in Waits /\ ~s.overtaken => Parent[s.ts] \in Chain[head]
    BY <2>1, ChainHasParents, Zenon DEF WaiterTypeOK
  <2> DEFINE s1 == [s EXCEPT !.ts = Parent[s.ts]]
  <2>4. s1 \in Searches /\ s1.ts = Parent[s.ts] /\ s1.overtaken = s.overtaken
    BY <2>2, Zenon DEF Searches
  <2> HIDE DEF s1
  <2>5. /\ DOMAIN searching' = DOMAIN searching \cup {r} /\ searching'[r] = s1
        /\ \A q \in DOMAIN searching \ {r} : searching'[q] = searching[q]
    BY <1>1, Zenon DEF s1
  <2>6. WaiterTypeOK'
    BY <1>1, <2>4, <2>5, Zenon DEF WaiterTypeOK
  <2>7. SearchIsOnChain'
    BY <2>3, <2>4, <2>5, Zenon DEF SearchIsOnChain
  <2>8. HeldOnce' /\ EntryIsOnChain(waiting', head', suspect')
    BY <1>1, <2>5, Zenon DEF HeldOnce, Once, In, EntryIsOnChain
  <2>9. Reports
    BY <1>1, Zenon DEF Reports
  <2> QED
    BY <2>6, <2>7, <2>8, <2>9, Zenon
<1>2. ASSUME NEW ts \in Tipsets \cup {NoTs}, SearchEnds(r, s, ts),
             ts # NoTs => ts = s.ts /\ Executes(ts, Msg[r])
      PROVE  WaiterIInv' /\ Reports
  <2>1. Freed(r)
    <3>1. /\ DOMAIN searching' = DOMAIN searching \ {r}
          /\ \A q \in DOMAIN searching \ {r} : searching'[q] = searching[q]
      BY <1>2, Zenon DEF SearchEnds
    <3>2. suspect \subseteq suspect' /\ suspect' \subseteq Messages
      BY <1>2, RequestAssumption, Zenon DEF SearchEnds, WaiterTypeOK
    <3> QED
      BY <3>1, <3>2, Zenon DEF Freed
  <2>2. r \in Waits /\ ts # NoTs /\ Msg[r] \notin suspect' => ts \in Chain[head] /\ Executes(ts, Msg[r])
    BY <1>2, Zenon DEF SearchEnds
  <2>3. CASE r \in Waits /\ ts # NoTs /\ (Height[head] < Height[ts] \/ Height[head] - Height[ts] < Confidence[r])
    <3> DEFINE to == IF Height[head] < Height[ts] THEN NoTs ELSE ts
    <3>1. checkWait(AddCallback(r, to), {Msg[r]}, head)
      BY <1>2, <2>3, Zenon DEF SearchEnds, OnFound
    <3>2. to \in Tipsets \cup {NoTs} /\ (to # NoTs => to = ts)
      BY Zenon
    <3> HIDE DEF to
    <3>3. to # NoTs /\ Msg[r] \notin suspect' => to \in Chain[head] /\ Executes(to, Msg[r])
      BY <2>2, <2>3, <3>2, Zenon
    <3> QED
      BY <2>1, <2>3, <3>1, <3>2, <3>3, AddStep, Zenon
  <2>4. CASE ~(r \in Waits /\ ts # NoTs /\ (Height[head] < Height[ts] \/ Height[head] - Height[ts] < Confidence[r]))
    <3>1. Reply(r, ts)
      BY <1>2, <2>4, Zenon DEF SearchEnds, OnFound
    <3>2. r \in Waits /\ ts # NoTs => Height[head] - Height[ts] >= Confidence[r]
      <4> SUFFICES ASSUME r \in Waits, ts # NoTs PROVE Height[head] - Height[ts] >= Confidence[r]
        BY Zenon
      <4>1. Height[head] \in Nat /\ Height[ts] \in Nat /\ Confidence[r] \in Int
        BY ChainAssumption, RequestAssumption, Zenon DEF WaiterTypeOK
      <4> QED
        BY <2>4, <4>1
    <3> QED
      BY <2>1, <2>2, <3>1, <3>2, ReplyStep, Zenon
  <2> QED
    BY <2>3, <2>4, Zenon
<1>3. CASE found /\ SearchEnds(r, s, s.ts)
  BY <1>0, <1>2, <1>3, Zenon
<1>4. CASE ~inRange /\ SearchEnds(r, s, NoTs)
  BY <1>2, <1>4, Zenon
<1> QED
  BY <1>1, <1>3, <1>4, Zenon DEF searchLoop

\* What a new request finds.
LEMMA CallIsNew ==
  ASSUME WaiterIInv, NEW r \in Requests, Call(r)
  PROVE  r \notin DOMAIN searching /\ ~In(waiting, r) /\ replies[r] = <<>> /\ calls' = calls \cup {r}
BY Zenon DEF WaiterIInv, WaiterTypeOK, HeldOnce, Once, Call

\* Searches begin inside the tree.
LEMMA SearchBegins ==
  ASSUME WaiterIInv, NEW r \in Requests, Call(r), NEW ts \in Tipsets, _search(r, ts),
         UNCHANGED <<head, crashed>>, r \in Waits => ts = head
  PROVE  WaiterIInv' /\ Reports
<1> DEFINE s == [ts |-> ts, overtaken |-> FALSE,
                 min_height |-> IF Lookback[r] = -1 THEN 0 ELSE Height[head] - Lookback[r]]
<1>1. Height[head] \in Nat /\ Lookback[r] \in Int /\ head \in Tipsets
  BY ChainAssumption, RequestAssumption, Zenon DEF WaiterIInv, WaiterTypeOK
<1>2. s \in Searches /\ s.ts = ts
  BY <1>1 DEF Searches
<1>3. searchLoop(r, s)
  BY Zenon DEF _search
<1> HIDE DEF s
<1>4. r \in Waits => s.ts \in Chain[head]
  BY <1>1, <1>2, ChainHolds, Zenon
<1> QED
  BY <1>2, <1>3, <1>4, CallIsNew, SearchStep, Zenon

\* Answered at once: the message is not stored, or was not executed yet.
LEMMA NotFound ==
  ASSUME WaiterIInv, NEW r \in Requests, Call(r), Reply(r, NoTs),
         UNCHANGED <<searching, suspect, head, crashed>>
  PROVE  WaiterIInv' /\ Reports
<1>1. Freed(r)
  BY CallIsNew, Zenon DEF Freed, WaiterIInv, WaiterTypeOK
<1> QED
  BY <1>1, ReplyStep, Zenon

\* search hands the callback to a task.
LEMMA SearchKeepsIInv == ASSUME WaiterIInv, NEW r \in Requests, search(r) PROVE WaiterIInv' /\ Reports
<1>1. Call(r) /\ r \notin Waits /\ UNCHANGED <<head, crashed>>
  BY Zenon DEF search
<1>2. CASE Msg[r] \in Stored /\ isSearch(Msg[r])
  <2>1. PICK ts \in SearchFrom : _search(r, ts)
    BY <1>2, Zenon DEF search
  <2> QED
    BY <1>1, <2>1, SearchBegins, RequestAssumption, Zenon
<1>3. CASE ~(Msg[r] \in Stored /\ isSearch(Msg[r]))
  <2>1. Reply(r, NoTs) /\ UNCHANGED <<searching, suspect>>
    BY <1>3, Zenon DEF search
  <2> QED
    BY <1>1, <2>1, NotFound, Zenon
<1> QED
  BY <1>2, <1>3, Zenon

\* wait answers at once, joins an entry, or makes one and searches.
LEMMA WaitKeepsIInv == ASSUME WaiterIInv, NEW r \in Requests, wait(r) PROVE WaiterIInv' /\ Reports
<1>1. Call(r) /\ r \in Waits /\ UNCHANGED <<head, crashed>> /\ head \in Tipsets
  BY Zenon DEF wait, WaiterIInv, WaiterTypeOK
<1>2. CASE Reply(r, NoTs) /\ UNCHANGED <<searching, suspect>>
  BY <1>1, <1>2, NotFound, Zenon
<1>3. CASE _search(r, head)
  BY <1>1, <1>3, SearchBegins, Zenon
<1>4. CASE waiting' = AddCallback(r, NoTs) /\ UNCHANGED <<searching, replies, suspect>>
  <2>1. Freed(r)
    BY <1>1, <1>4, CallIsNew, Zenon DEF Freed, WaiterIInv, WaiterTypeOK
  <2>2. /\ MapOK(waiting')
        /\ Once(waiting', DOMAIN searching', calls') /\ EntryIsOnChain(waiting', head', suspect')
    BY <1>1, <1>4, <2>1, JoinStep, Zenon
  <2>3. HeldOnce'
    BY <1>4, <2>2, Zenon DEF HeldOnce, Once, In
  <2>4. replies' \in [Requests -> Seq(Tipsets \cup {NoTs})]
    BY <1>4, Zenon DEF WaiterIInv, WaiterTypeOK
  <2>5. WaiterTypeOK' /\ SearchIsOnChain'
    BY <2>1, <2>2, <2>4, FreedKeepsRest, Zenon
  <2>6. Reports
    BY <1>4, Zenon DEF Reports
  <2> QED
    BY <2>2, <2>3, <2>5, <2>6, Zenon DEF WaiterIInv
<1> QED
  BY <1>2, <1>3, <1>4, Zenon DEF wait

\* A step of the search task looks at one more tipset of the chain.
LEMMA TaskKeepsIInv == ASSUME WaiterIInv, NEW r \in Requests, SearchTask(r) PROVE WaiterIInv' /\ Reports
<1>1. /\ r \in DOMAIN searching /\ searching[r] \in Searches /\ ~In(waiting, r)
      /\ replies[r] = <<>> /\ r \in calls
  BY Zenon DEF SearchTask, WaiterIInv, WaiterTypeOK, HeldOnce, Once
<1>2. searchLoop(r, searching[r]) /\ UNCHANGED <<head, crashed>> /\ calls' = calls \cup {r}
  BY <1>1, Zenon DEF SearchTask
<1>3. r \in Waits /\ ~searching[r].overtaken => searching[r].ts \in Chain[head]
  BY <1>1, Zenon DEF WaiterIInv, SearchIsOnChain
<1> QED
  BY <1>1, <1>2, <1>3, SearchStep, Zenon

\* A new head: what was on the old head's chain is on its chain.
LEMMA ApplyKeepsIInv == ASSUME WaiterIInv, NEW t \in Tipsets, Apply(t) PROVE WaiterIInv' /\ Reports
<1> USE DEF WaiterIInv
<1> DEFINE W == [m \in DOMAIN waiting |->
                   IF Executes(t, m) THEN [waiting[m] EXCEPT !.ts = t] ELSE waiting[m]]
<1>1. /\ t # Genesis /\ Parent[t] = head /\ head' = t /\ checkWait(W, DOMAIN W, head')
      /\ UNCHANGED <<searching, calls, suspect, crashed>>
  BY Zenon DEF Apply
<1>2. Chain[head'] = {t} \cup Chain[head]
  BY <1>1, ChainGrows, Zenon
<1>3. DOMAIN W = DOMAIN waiting
  BY Zenon
<1>4. ASSUME NEW m \in DOMAIN waiting
      PROVE  /\ W[m] \in Entries(m) /\ W[m].callbacks = waiting[m].callbacks
             /\ W[m].ts = IF Executes(t, m) THEN t ELSE waiting[m].ts
  BY Zenon DEF WaiterTypeOK, Entries
<1> HIDE DEF W
<1>5. MapOK(W)
  BY <1>3, <1>4, Zenon DEF MapOK, WaiterTypeOK
<1>6. Once(W, DOMAIN searching', calls')
  BY <1>1, <1>3, <1>4, Zenon DEF HeldOnce, Once, In
<1>7. EntryIsOnChain(W, head', suspect')
  BY <1>1, <1>2, <1>3, <1>4, Zenon DEF EntryIsOnChain
<1>8. /\ MapOK(waiting') /\ replies' \in [Requests -> Seq(Tipsets \cup {NoTs})]
      /\ HeldOnce' /\ EntryIsOnChain(waiting', head', suspect') /\ Reports
  BY <1>1, <1>5, <1>6, <1>7, MapStep, Zenon
<1>9. WaiterTypeOK'
  BY <1>1, <1>8, Zenon DEF WaiterTypeOK, MapOK
<1>10. SearchIsOnChain'
  BY <1>1, <1>2, Zenon DEF SearchIsOnChain
<1> QED
  BY <1>8, <1>9, <1>10, Zenon

\* REVERT of the head: an entry keeps its tipset only if it is below.
LEMMA RevertKeepsIInv == ASSUME WaiterIInv, Revert PROVE WaiterIInv' /\ Reports
<1> USE DEF WaiterIInv
<1> DEFINE seen == {m \in DOMAIN waiting : Executes(head, m)}
           W == [m \in DOMAIN waiting |->
                   IF m \in seen /\ waiting[m].ts = head
                   THEN [waiting[m] EXCEPT !.ts = NoTs] ELSE waiting[m]]
<1>1. head # Genesis /\ head \in Tipsets /\ UNCHANGED <<calls, suspect>>
  BY Zenon DEF Revert, WaiterTypeOK
<1>2. CASE crashed' = TRUE /\ UNCHANGED <<head, waiting, replies, searching>>
  BY <1>1, <1>2, Zenon DEF WaiterTypeOK, HeldOnce, Once, In, EntryIsOnChain, SearchIsOnChain, Reports
<1>3. CASE /\ head' = Parent[head] /\ checkWait(W, DOMAIN W, Parent[head])
           /\ Overtake /\ UNCHANGED crashed
  <2>1. head' \in Tipsets /\ Chain[head] = {head} \cup Chain[head']
    BY <1>1, <1>3, ChainGrows, ChainAssumption, Zenon
  <2>2. DOMAIN W = DOMAIN waiting /\ checkWait(W, DOMAIN W, head')
    BY <1>3, Zenon
  <2>3. ASSUME NEW m \in DOMAIN waiting
        PROVE  /\ W[m] \in Entries(m) /\ W[m].callbacks = waiting[m].callbacks
               /\ W[m].ts = IF Executes(head, m) /\ waiting[m].ts = head THEN NoTs ELSE waiting[m].ts
    BY DEF WaiterTypeOK, Entries
  <2> HIDE DEF W
  <2>4. DOMAIN searching' = DOMAIN searching
        /\ \A r \in DOMAIN searching : searching'[r] \in Searches /\ searching'[r].overtaken
    BY <1>3, Zenon DEF Overtake, WaiterTypeOK, Searches
  <2>5. MapOK(W)
    BY <2>2, <2>3, Zenon DEF MapOK, WaiterTypeOK
  <2>6. Once(W, DOMAIN searching', calls')
    BY <1>1, <2>2, <2>3, <2>4, Zenon DEF HeldOnce, Once, In
  <2>7. EntryIsOnChain(W, head', suspect')
    BY <1>1, <2>1, <2>2, <2>3, Zenon DEF EntryIsOnChain
  <2>8. /\ MapOK(waiting') /\ replies' \in [Requests -> Seq(Tipsets \cup {NoTs})]
        /\ HeldOnce' /\ EntryIsOnChain(waiting', head', suspect') /\ Reports
    BY <2>1, <2>2, <2>5, <2>6, <2>7, MapStep, Zenon
  <2>9. WaiterTypeOK' /\ SearchIsOnChain'
    BY <1>1, <1>3, <2>1, <2>4, <2>8, Zenon DEF WaiterTypeOK, MapOK, SearchIsOnChain
  <2> QED
    BY <2>8, <2>9, Zenon
<1> QED
  BY <1>2, <1>3, Zenon DEF Revert

\* Every step keeps the invariant, and reports only what is on the chain.
LEMMA WaiterInductive == WaiterIInv /\ [WaiterNext]_waiterVars => WaiterIInv' /\ [Reports]_waiterVars
<1> SUFFICES ASSUME WaiterIInv, [WaiterNext]_waiterVars PROVE WaiterIInv' /\ [Reports]_waiterVars
  BY Zenon
<1>1. CASE \E r \in Requests : wait(r) \/ search(r) \/ SearchTask(r)
  BY <1>1, WaitKeepsIInv, SearchKeepsIInv, TaskKeepsIInv, Zenon
<1>2. CASE \E t \in Tipsets : Apply(t)
  BY <1>2, ApplyKeepsIInv, Zenon
<1>3. CASE Revert
  BY <1>3, RevertKeepsIInv, Zenon
<1>4. CASE UNCHANGED waiterVars
  BY <1>4, Zenon DEF waiterVars, WaiterIInv, WaiterTypeOK, HeldOnce, Once, In, EntryIsOnChain, SearchIsOnChain
<1> QED
  BY <1>1, <1>2, <1>3, <1>4, Zenon DEF WaiterNext

(***************************************************************************)
(* The maps of MsgWaiter stay well-formed, and checkWait leaves no entry   *)
(* without a callback.                                                     *)
(***************************************************************************)
THEOREM WaiterTypeCorrect == WaiterSpec => []WaiterTypeOK
<1>1. WaiterIInv => WaiterTypeOK
  BY Zenon DEF WaiterIInv
<1> QED
  BY <1>1, WaiterInitIInv, WaiterInductive, PTL DEF WaiterSpec

(***************************************************************************)
(* Every callback of wait and search is in one place until it is called,   *)
(* and is called once, whatever the order of tasks and head changes.       *)
(***************************************************************************)
THEOREM CallbacksHeldOnce == WaiterSpec => []OneCallback
<1>1. ASSUME WaiterIInv PROVE OneCallback
  <2> SUFFICES ASSUME NEW r \in Requests
               PROVE  (IF r \in DOMAIN searching THEN 1 ELSE 0)
                      + Cardinality({m \in DOMAIN waiting : r \in waiting[m].callbacks})
                      + Len(replies[r]) = IF r \in calls THEN 1 ELSE 0
    BY Zenon DEF OneCallback
  <2> DEFINE holders == {m \in DOMAIN waiting : r \in waiting[m].callbacks}
  <2>1. holders = IF In(waiting, r) THEN {Msg[r]} ELSE {}
    BY <1>1 DEF WaiterIInv, WaiterTypeOK, Entries, In
  <2>2. Cardinality(holders) = IF In(waiting, r) THEN 1 ELSE 0
    BY <2>1, FS_Singleton, FS_EmptySet, Zenon
  <2> HIDE DEF holders
  <2>3. /\ r \in DOMAIN searching => ~In(waiting, r)
        /\ r \in DOMAIN searching \/ In(waiting, r) => r \in calls /\ replies[r] = <<>>
        /\ r \in calls /\ r \notin DOMAIN searching /\ ~In(waiting, r) => Len(replies[r]) = 1
        /\ r \notin calls => replies[r] = <<>>
    BY <1>1, Zenon DEF WaiterIInv, HeldOnce, Once
  <2>4. Len(<<>>) = 0
    BY Zenon
  <2>5. (IF r \in DOMAIN searching THEN 1 ELSE 0) + Cardinality(holders) + Len(replies[r])
          = IF r \in calls THEN 1 ELSE 0
    <3>1. CASE r \in DOMAIN searching
      BY <2>2, <2>3, <2>4, <3>1
    <3>2. CASE r \notin DOMAIN searching /\ In(waiting, r)
      BY <2>2, <2>3, <2>4, <3>2
    <3>3. CASE r \notin DOMAIN searching /\ ~In(waiting, r) /\ r \in calls
      BY <2>2, <2>3, <3>3
    <3>4. CASE r \notin DOMAIN searching /\ ~In(waiting, r) /\ r \notin calls
      BY <2>2, <2>3, <2>4, <3>4
    <3> QED
      BY <3>1, <3>2, <3>3, <3>4, Zenon
  <2> QED
    BY <2>5, Zenon DEF holders
<1> QED
  BY <1>1, WaiterInitIInv, WaiterInductive, PTL DEF WaiterSpec

(***************************************************************************)
(* A tipset reported to a wait is on the head's chain, executed the        *)
(* message and has the confidence asked for, unless a search for the       *)
(* message ran into a REVERT.                                              *)
(***************************************************************************)
THEOREM ReportsAreOnChain == WaiterSpec => ReportedOnChain
BY WaiterInitIInv, WaiterInductive, PTL DEF WaiterSpec, ReportedOnChain

-----------------------------------------------------------------------------
(***************************************************************************)
(* Sums of amounts.                                                        *)
(***************************************************************************)

\* A finite number of units, and none for no callers.
LEMMA SumType ==
  ASSUME NEW S \in SUBSET Calls
  PROVE  IsFiniteSet(Units(S)) /\ Sum(S) \in Nat
<1>1. IsFiniteSet(S)
  BY PaychMakerAssumption, FS_Subset, Zenon
<1> DEFINE part(c) == {c} \X (1..Amount[c])
<1>2. ASSUME NEW c \in S
      PROVE  IsFiniteSet(part(c))
  <2>1. Amount[c] \in Int
    BY PaychMakerAssumption
  <2>2. IsFiniteSet(1..Amount[c])
    BY <2>1, FS_Interval
  <2>3. IsFiniteSet({c})
    BY FS_Singleton, Zenon
  <2> QED
    BY <2>2, <2>3, FS_Product, Zenon
<1>3. IsFiniteSet({part(c) : c \in S})
  <2>1. [c \in S |-> part(c)] \in Surjection(S, {part(c) : c \in S})
    BY Zenon DEF Surjection
  <2> QED
    BY <1>1, <2>1, FS_Surjection, Zenon
<1>4. IsFiniteSet(UNION {part(c) : c \in S})
  BY <1>2, <1>3, FS_UNION, Zenon
<1> QED
  BY <1>4, FS_CardinalityType, Zenon DEF Units, Sum

\* No callers ask for nothing.
LEMMA SumEmpty == Sum({}) = 0
<1>1. Units({}) = {}
  BY Zenon DEF Units
<1> QED
  BY <1>1, FS_EmptySet, Zenon DEF Sum

\* Sums of disjoint sets of callers add up.
LEMMA SumDisjoint ==
  ASSUME NEW S \in SUBSET Calls, NEW T \in SUBSET Calls, S \cap T = {}
  PROVE  Sum(S \cup T) = Sum(S) + Sum(T)
<1>1. Units(S \cup T) = Units(S) \cup Units(T)
  BY Zenon DEF Units
<1>2. Units(S) \cap Units(T) = {}
  BY DEF Units
<1>3. IsFiniteSet(Units(S)) /\ IsFiniteSet(Units(T)) /\ Sum(S) \in Nat /\ Sum(T) \in Nat
  BY SumType, Zenon
<1>4. Cardinality(Units(S) \cup Units(T))
        = Cardinality(Units(S)) + Cardinality(Units(T)) - Cardinality(Units(S) \cap Units(T))
  BY <1>3, FS_Union, Zenon
<1>5. Cardinality(Units(S) \cap Units(T)) = 0
  BY <1>2, FS_EmptySet, Zenon
<1> QED
  BY <1>1, <1>3, <1>4, <1>5 DEF Sum

-----------------------------------------------------------------------------
(***************************************************************************)
(* The maker.  Its inductive invariant says, besides CallersWaitOnce and   *)
(* Solvent, which asynchronous call the row and the list of waiting        *)
(* callers belong to, that the stored row has the same unused funds as the *)
(* one in memory, and that a message pays what its callers ask for beyond  *)
(* the unused funds.                                                       *)
(***************************************************************************)

DiskUnused == IF disk = NoRow THEN 0 ELSE disk.unused

\* The row says what is being waited for.
OpMatchesRow ==
  /\ op # "none" => inmap
  /\ op = "network" => ~row.actor /\ ~row.waits
  /\ op = "push" => ~row.waits /\ row.waiting_amount \in Nat
  /\ op = "wait" => row.waits
  /\ row.waits => row.waiting_amount \in Nat
  /\ disk # NoRow /\ disk.waits => disk.waiting_amount \in Nat

\* The row in memory has the unused funds of the stored one.
RowIsStored == inmap => row.unused = DiskUnused

\* A message covers those who wait for it, together with the unused funds.
MessageCovers ==
  waiting_cb # {} => /\ op \in {"push", "wait"}
                     /\ row.waiting_amount = Sum(waiting_cb)
                     /\ row.waiting_amount <= row.unused + msg

Paid == {c \in Calls : outcome[c] = "ok"}

MakerIInv ==
  /\ MakerTypeOK /\ CallersWaitOnce
  /\ OpMatchesRow /\ RowIsStored /\ MessageCovers
  /\ ~overcounted => Sum(Paid) + DiskUnused <= balance

\* NoRow is none of the rows.
LEMMA RowIsNotNone == \A r \in Rows : r # NoRow
BY DEF Rows, NoRow

\* The row that make stores first is a row.
LEMMA NewRowType == NewRow \in Rows
BY Zenon DEF Rows, NewRow, NoAmount

\* A maker without callers satisfies the invariant.
LEMMA MakerInitIInv == MakerInit => MakerIInv
<1> SUFFICES ASSUME MakerInit PROVE MakerIInv
  BY Zenon
<1>1. MakerTypeOK
  BY NewRowType, Zenon DEF MakerInit, MakerTypeOK
<1>2. CallersWaitOnce
  BY Zenon DEF MakerInit, CallersWaitOnce
<1>3. OpMatchesRow /\ RowIsStored /\ MessageCovers
  BY Zenon DEF MakerInit, OpMatchesRow, RowIsStored, MessageCovers, NewRow
<1>4. Sum(Paid) + DiskUnused <= balance
  <2>1. Paid = {} /\ DiskUnused = 0 /\ balance = 0
    BY Zenon DEF MakerInit, Paid, DiskUnused
  <2> QED
    BY <2>1, SumEmpty
<1> QED
  BY <1>1, <1>2, <1>3, <1>4, Zenon DEF MakerIInv

\* onError: all callers are told, none is paid.
LEMMA ErrorPaysNobody ==
  ASSUME MakerIInv, onError
  PROVE  /\ outcome' \in [Calls -> {"new", "made", "ok", "error", "lost"}]
         /\ CallersWaitOnce' /\ Paid' = Paid
<1>1. \A c \in Calls : outcome'[c] = IF outcome[c] = "made" THEN "error" ELSE outcome[c]
  BY Zenon DEF onError, Tell, MakerIInv, CallersWaitOnce
<1>2. outcome' \in [Calls -> {"new", "made", "ok", "error", "lost"}]
  BY <1>1, Zenon DEF onError, Tell, MakerIInv, MakerTypeOK
<1>3. CallersWaitOnce'
  BY <1>1, Zenon DEF CallersWaitOnce, onError
<1>4. Paid' = Paid
  BY <1>1, Zenon DEF Paid
<1> QED
  BY <1>2, <1>3, <1>4, Zenon

\* Telling callers that wait that they are paid adds what they asked for.
LEMMA TellPays ==
  ASSUME MakerIInv, NEW S \in SUBSET Calls, \A c \in S : outcome[c] = "made",
         outcome' = Tell(S, "ok")
  PROVE  /\ outcome' \in [Calls -> {"new", "made", "ok", "error", "lost"}]
         /\ Sum(Paid') = Sum(Paid) + Sum(S)
<1>1. outcome' \in [Calls -> {"new", "made", "ok", "error", "lost"}]
  BY Zenon DEF Tell, MakerIInv, MakerTypeOK
<1>2. Paid' = Paid \cup S /\ Paid \cap S = {}
  BY Zenon DEF Paid, Tell
<1>3. Paid \in SUBSET Calls
  BY Zenon DEF Paid
<1> QED
  BY <1>1, <1>2, <1>3, SumDisjoint, Zenon

\* make puts the caller in the queue, with the row of the map, the disk or a
\* new one.
LEMMA MakeKeepsIInv == ASSUME MakerIInv, NEW c \in Calls, make(c) PROVE MakerIInv'
<1> USE DEF MakerIInv
<1>1. row' \in Rows /\ (inmap => row' = row) /\ (~inmap /\ disk = NoRow => row' = NewRow)
      /\ (~inmap /\ disk # NoRow => row' = disk)
  BY NewRowType, Zenon DEF make, MakerTypeOK, CurrentRow
<1>2. gen' \in Nat /\ (inmap => gen' = gen)
  BY DEF make, MakerTypeOK
<1>3. op' \in {"none", "network", "push", "wait"} /\ nexts' \subseteq (Calls \cup {OnWait}) \X Nat
  BY <1>2 DEF make, MakerTypeOK
<1>4. MakerTypeOK'
  BY <1>1, <1>2, <1>3, Zenon DEF make, MakerTypeOK
<1>5. CallersWaitOnce'
  BY Zenon DEF make, CallersWaitOnce, MakerTypeOK
<1>6. OpMatchesRow'
  <2>1. CASE inmap
    BY <2>1, <1>1, Zenon DEF make, OpMatchesRow
  <2>2. CASE ~inmap /\ disk = NoRow
    BY <2>2, <1>1 DEF make, OpMatchesRow, NewRow
  <2>3. CASE ~inmap /\ disk # NoRow
    BY <2>3, <1>1, Zenon DEF make, OpMatchesRow
  <2> QED
    BY <2>1, <2>2, <2>3, Zenon
<1>7. RowIsStored'
  BY <1>1 DEF make, RowIsStored, DiskUnused, NewRow
<1>8. MessageCovers'
  <2>1. CASE inmap
    BY <2>1, <1>1, Zenon DEF make, MessageCovers
  <2>2. CASE ~inmap
    BY <2>2, Zenon DEF make, MessageCovers, OpMatchesRow
  <2> QED
    BY <2>1, <2>2, Zenon
<1>9. Paid' = Paid /\ DiskUnused' = DiskUnused /\ balance' = balance /\ overcounted' = overcounted
  BY Zenon DEF make, Paid, DiskUnused, MakerTypeOK, history
<1> QED
  BY <1>4, <1>5, <1>6, <1>7, <1>8, <1>9, Zenon

\* The answers that make the queue go away.
LEMMA ErrorsKeepIInv ==
  ASSUME MakerIInv, onNetworkError \/ onPushError \/ onWaitError \/ onWaitExitCode
  PROVE  MakerIInv'
<1> USE DEF MakerIInv
<1>1. onError /\ op # "none"
  BY Zenon DEF onNetworkError, onPushError, onWaitError, onWaitExitCode
<1>2. row' \in Rows /\ row'.unused = row.unused /\ (row'.waits => row'.waiting_amount \in Nat)
  BY Zenon DEF onNetworkError, onPushError, onWaitError, onWaitExitCode, MakerTypeOK, Rows,
         OpMatchesRow, NoAmount
<1>3. (disk' = disk \/ disk' = row') /\ balance' = balance /\ overcounted' = overcounted
  BY Zenon DEF onNetworkError, onPushError, onWaitError, onWaitExitCode, history
<1>4. DiskUnused' = DiskUnused
  <2>1. CASE disk' = disk
    BY <2>1, Zenon DEF DiskUnused
  <2>2. CASE disk' = row'
    BY <2>2, <1>1, <1>2, RowIsNotNone, Zenon DEF DiskUnused, RowIsStored, OpMatchesRow
  <2> QED
    BY <1>3, <2>1, <2>2, Zenon
<1>5. MakerTypeOK'
  BY <1>1, <1>2, <1>3, ErrorPaysNobody, Zenon
     DEF onError, onNetworkError, onPushError, onWaitError, onWaitExitCode, MakerTypeOK
<1>6. OpMatchesRow' /\ RowIsStored' /\ MessageCovers'
  BY <1>1, <1>2, <1>3, Zenon DEF onError, OpMatchesRow, RowIsStored, MessageCovers
<1> QED
  BY <1>1, <1>3, <1>4, <1>5, <1>6, ErrorPaysNobody, Zenon

\* shift: the callers of the next message.
LEMMA ShiftMoves ==
  ASSUME MakerIInv, shift(row), waiting_cb = {}
  PROVE  /\ row' \in Rows /\ row' = [row EXCEPT !.waiting_amount = Sum(pending)]
         /\ row'.waiting_amount = Sum(waiting_cb') /\ row'.waiting_amount \in Nat
         /\ waiting_cb' \subseteq Calls /\ pending' = {}
         /\ waiting_cb' \cup pending' = waiting_cb \cup pending
         /\ waiting_cb' \cap pending' = {}
<1>1. Sum(pending) \in Nat
  BY SumType, Zenon DEF MakerIInv, MakerTypeOK
<1> QED
  BY <1>1, Zenon DEF shift, MakerIInv, MakerTypeOK, Rows

\* onNetwork pushes the message that makes the channel or adds funds.
LEMMA NetworkKeepsIInv == ASSUME MakerIInv, onNetwork PROVE MakerIInv'
<1> USE DEF MakerIInv
<1>1. waiting_cb = {} /\ inmap
  BY Zenon DEF onNetwork, MessageCovers, OpMatchesRow
<1>2. shift(row)
  BY Zenon DEF onNetwork
<1>3. /\ row' \in Rows /\ row' = [row EXCEPT !.waiting_amount = Sum(pending)]
      /\ row'.waiting_amount = Sum(waiting_cb') /\ row'.waiting_amount \in Nat
      /\ waiting_cb' \subseteq Calls /\ pending' = {}
      /\ waiting_cb' \cup pending' = waiting_cb \cup pending
      /\ waiting_cb' \cap pending' = {}
  BY <1>1, <1>2, ShiftMoves, Zenon
<1>4. MakerTypeOK'
  BY <1>3, Zenon DEF onNetwork, MakerTypeOK
<1>5. CallersWaitOnce'
  BY <1>3, Zenon DEF onNetwork, CallersWaitOnce
<1>6. row'.unused = row.unused /\ row'.waits = row.waits
  BY <1>3, Zenon DEF MakerTypeOK, Rows
<1>7. OpMatchesRow' /\ RowIsStored'
  <2>1. inmap' = inmap /\ disk' = disk /\ op' = "push"
    BY Zenon DEF onNetwork
  <2>2. ~row.waits => ~row'.waits
    BY <1>6, Zenon
  <2>3. op = "network" /\ ~row.waits
    BY Zenon DEF onNetwork, OpMatchesRow
  <2> QED
    BY <1>1, <1>3, <1>6, <2>1, <2>2, <2>3, Zenon DEF OpMatchesRow, RowIsStored, DiskUnused
<1>8. MessageCovers'
  BY <1>3, <1>6 DEF onNetwork, MessageCovers, MakerTypeOK, Rows
<1>9. Paid' = Paid /\ DiskUnused' = DiskUnused /\ balance' = balance /\ overcounted' = overcounted
  BY Zenon DEF onNetwork, Paid, DiskUnused, history
<1> QED
  BY <1>4, <1>5, <1>7, <1>8, <1>9, Zenon

\* onPush stores the pushed message or fails its callers.
LEMMA PushKeepsIInv == ASSUME MakerIInv, onPush PROVE MakerIInv'
<1> USE DEF MakerIInv
<1>1. /\ row' \in Rows /\ row'.unused = row.unused /\ row'.waits
      /\ row'.waiting_amount = row.waiting_amount /\ row.waiting_amount \in Nat
  BY Zenon DEF onPush, MakerTypeOK, Rows, OpMatchesRow
<1>2. inmap /\ inmap' /\ disk' = row' /\ disk' # NoRow /\ op' = "wait"
  BY <1>1, RowIsNotNone, Zenon DEF onPush, OpMatchesRow
<1>3. DiskUnused' = DiskUnused
  BY <1>1, <1>2, Zenon DEF DiskUnused, RowIsStored
<1>4. MakerTypeOK' /\ CallersWaitOnce'
  BY <1>1, Zenon DEF onPush, MakerTypeOK, CallersWaitOnce
<1>5. OpMatchesRow'
  BY <1>1, <1>2, Zenon DEF OpMatchesRow
<1>6. RowIsStored'
  BY <1>1, <1>2, <1>3, Zenon DEF RowIsStored
<1>7. MessageCovers'
  BY <1>1, <1>2, Zenon DEF onPush, MessageCovers
<1>8. Paid' = Paid /\ balance' = balance /\ overcounted' = overcounted
  BY Zenon DEF onPush, Paid, history
<1> QED
  BY <1>3, <1>4, <1>5, <1>6, <1>7, <1>8, Zenon

\* The message is on the chain: the channel has received what it carries, and
\* that covers what its callers asked for beyond the unused funds.
LEMMA MakerWaitKeepsIInv == ASSUME MakerIInv, onWait PROVE MakerIInv'
<1> USE DEF MakerIInv
<1> DEFINE left == Unused(row, waiting_cb)
<1>1. inmap /\ row.unused \in Nat /\ row.waiting_amount \in Nat /\ row.unused = DiskUnused
  BY Zenon DEF onWait, OpMatchesRow, MakerTypeOK, Rows, RowIsStored
<1>2. left \in Nat
  BY <1>1 DEF Unused, Min2
<1>3. /\ row' \in Rows /\ row'.unused = left /\ ~row'.waits /\ inmap'
      /\ disk' = row' /\ disk' # NoRow /\ op' = "none" /\ waiting_cb' = {}
  BY <1>1, <1>2, RowIsNotNone, Zenon DEF onWait, Rows, NoAmount
<1>4. DiskUnused' = left
  BY <1>3, Zenon DEF DiskUnused
<1>5. waiting_cb \in SUBSET Calls /\ (\A c \in waiting_cb : outcome[c] = "made")
  BY Zenon DEF MakerTypeOK, CallersWaitOnce
<1>6. outcome' = Tell(waiting_cb, "ok")
  BY Zenon DEF onWait
<1>7. /\ outcome' \in [Calls -> {"new", "made", "ok", "error", "lost"}]
      /\ Sum(Paid') = Sum(Paid) + Sum(waiting_cb)
  BY <1>5, <1>6, TellPays, Zenon
<1>8. MakerTypeOK'
  <2>1. nexts' \subseteq (Calls \cup {OnWait}) \X Nat
    BY DEF onWait, MakerTypeOK
  <2>2. balance' \in Nat /\ msg' \in Nat /\ gen' \in Nat /\ pending' \subseteq Calls
    BY DEF onWait, MakerTypeOK
  <2> QED
    BY <1>3, <1>7, <2>1, <2>2, Zenon DEF MakerTypeOK
<1>9. CallersWaitOnce'
  BY <1>3, <1>6, Zenon DEF onWait, CallersWaitOnce, MakerTypeOK, Tell
<1>10. OpMatchesRow' /\ RowIsStored' /\ MessageCovers'
  BY <1>3, <1>4, Zenon DEF OpMatchesRow, RowIsStored, MessageCovers
<1>11. ASSUME ~overcounted' PROVE Sum(Paid') + DiskUnused' <= balance'
  <2>1. ~overcounted /\ balance' = balance + msg /\ msg \in Nat /\ balance \in Nat
    BY <1>11, Zenon DEF onWait, MakerTypeOK
  <2>2. Sum(Paid) \in Nat /\ Sum(waiting_cb) \in Nat
    BY <1>5, SumType, Zenon DEF Paid
  <2>3. CASE waiting_cb = {}
    <3>0. ~(msg < row.waiting_amount)
      BY <1>11, <2>3, Zenon DEF onWait
    <3>1. msg >= row.waiting_amount
      BY <1>1, <2>1, <3>0
    <3>2. Sum(waiting_cb) = 0 /\ left = row.unused + row.waiting_amount
      BY <2>3, SumEmpty, Zenon DEF Unused
    <3> QED
      BY <1>1, <1>4, <1>7, <2>1, <2>2, <3>1, <3>2
  <2>4. CASE waiting_cb # {}
    <3>1. row.waiting_amount = Sum(waiting_cb) /\ row.waiting_amount <= row.unused + msg
      BY <2>4, Zenon DEF MessageCovers
    <3>2. left = row.unused - Min2(row.unused, row.waiting_amount)
      BY <2>4, Zenon DEF Unused
    <3>3. left + row.waiting_amount <= row.unused + msg
      BY <1>1, <2>1, <3>1, <3>2 DEF Min2
    <3> QED
      BY <1>1, <1>2, <1>4, <1>7, <2>1, <2>2, <3>1, <3>3
  <2> QED
    BY <2>3, <2>4, Zenon
<1> QED
  BY <1>8, <1>9, <1>10, <1>11, Zenon

\* next serves callers from unused funds.
LEMMA NextUnusedKeepsIInv ==
  ASSUME MakerIInv, inmap, ~nextBusy, nextUnused, nexts' \subseteq nexts,
         UNCHANGED <<inmap, gen, balance, dangling, history>>
  PROVE  MakerIInv'
<1> USE DEF MakerIInv
<1>1. pending \in SUBSET Calls /\ (\A c \in pending : outcome[c] = "made")
  BY Zenon DEF MakerTypeOK, CallersWaitOnce
<1>2. Sum(pending) \in Nat /\ Sum(Paid) \in Nat
  BY <1>1, SumType, Zenon DEF Paid
<1>3. /\ op = "none" /\ waiting_cb = {} /\ row.unused \in Nat /\ row.unused = DiskUnused
  BY DEF nextBusy, OpMatchesRow, MakerTypeOK, Rows, RowIsStored, MessageCovers, NoAmount
<1>4. /\ row' \in Rows /\ row'.unused = row.unused - Sum(pending) /\ row'.waits = row.waits
      /\ row'.waiting_amount = row.waiting_amount
  BY <1>2, <1>3 DEF nextUnused, MakerTypeOK, Rows
<1>5. disk' = row' /\ disk' # NoRow /\ DiskUnused' = row.unused - Sum(pending)
  BY <1>4, RowIsNotNone, Zenon DEF nextUnused, DiskUnused
<1>6. /\ outcome' \in [Calls -> {"new", "made", "ok", "error", "lost"}]
      /\ Sum(Paid') = Sum(Paid) + Sum(pending)
  BY <1>1, TellPays, Zenon DEF nextUnused
<1>7. MakerTypeOK'
  BY <1>4, <1>5, <1>6, Zenon DEF nextUnused, MakerTypeOK
<1>8. CallersWaitOnce'
  BY <1>3, Zenon DEF nextUnused, CallersWaitOnce, MakerTypeOK, Tell
<1>9. OpMatchesRow' /\ RowIsStored' /\ MessageCovers'
  BY <1>3, <1>4, <1>5, Zenon DEF nextUnused, OpMatchesRow, RowIsStored, MessageCovers
<1>10. ASSUME ~overcounted' PROVE Sum(Paid') + DiskUnused' <= balance'
  <2>1. ~overcounted /\ balance' = balance /\ balance \in Nat
    BY <1>10, Zenon DEF history, MakerTypeOK
  <2> QED
    BY <1>2, <1>3, <1>5, <1>6, <2>1
<1> QED
  BY <1>7, <1>8, <1>9, <1>10, Zenon

\* next asks for the funds that are missing.
LEMMA NextAddKeepsIInv ==
  ASSUME MakerIInv, inmap, ~nextBusy, nextAdd, nexts' \subseteq nexts,
         UNCHANGED <<inmap, gen, balance, dangling, history>>
  PROVE  MakerIInv'
<1> USE DEF MakerIInv
<1>1. op = "none" /\ waiting_cb = {} /\ row.unused \in Nat /\ row.unused = DiskUnused /\ ~row.waits
  BY DEF nextBusy, OpMatchesRow, MakerTypeOK, Rows, RowIsStored, MessageCovers, NoAmount
<1>2. shift(row) /\ row.unused < Sum(pending)
  BY Zenon DEF nextAdd
<1>3. /\ row' \in Rows /\ row' = [row EXCEPT !.waiting_amount = Sum(pending)]
      /\ row'.waiting_amount = Sum(waiting_cb') /\ row'.waiting_amount \in Nat
      /\ waiting_cb' \subseteq Calls /\ pending' = {}
      /\ waiting_cb' \cup pending' = waiting_cb \cup pending
      /\ waiting_cb' \cap pending' = {}
  BY <1>1, <1>2, ShiftMoves, Zenon
<1>4. row'.unused = row.unused /\ ~row'.waits /\ row'.waiting_amount = Sum(pending)
  BY <1>1, <1>3, Zenon DEF MakerTypeOK, Rows
<1>5. disk' = row' /\ disk' # NoRow /\ DiskUnused' = DiskUnused
  BY <1>1, <1>3, <1>4, RowIsNotNone, Zenon DEF nextAdd, DiskUnused
<1>6. msg' \in Nat /\ row'.waiting_amount <= row'.unused + msg'
  BY <1>1, <1>2, <1>3, <1>4 DEF nextAdd
<1>7. MakerTypeOK' /\ CallersWaitOnce'
  BY <1>3, <1>5, <1>6, Zenon DEF nextAdd, MakerTypeOK, CallersWaitOnce
<1>8. OpMatchesRow' /\ RowIsStored'
  BY <1>1, <1>3, <1>4, <1>5, Zenon DEF nextAdd, OpMatchesRow, RowIsStored
<1>9. MessageCovers'
  BY <1>3, <1>6, Zenon DEF nextAdd, MessageCovers
<1>10. Paid' = Paid /\ balance' = balance /\ overcounted' = overcounted
  BY Zenon DEF nextAdd, Paid, history
<1> QED
  BY <1>5, <1>7, <1>8, <1>9, <1>10, Zenon

\* A step that leaves the row, the callers and the funds alone.
LEMMA IdleKeepsIInv ==
  ASSUME MakerIInv, nexts' \subseteq nexts,
         UNCHANGED <<inmap, gen, row, waiting_cb, pending, disk, op, msg, balance, outcome, history>>
  PROVE  MakerIInv'
<1> USE DEF MakerIInv
<1>1. MakerTypeOK' /\ CallersWaitOnce' /\ OpMatchesRow'
  BY Zenon DEF MakerTypeOK, CallersWaitOnce, OpMatchesRow
<1>2. DiskUnused' = DiskUnused /\ Paid' = Paid /\ balance' = balance /\ overcounted' = overcounted
  BY Zenon DEF DiskUnused, Paid, history
<1>3. RowIsStored' /\ MessageCovers'
  BY <1>2, Zenon DEF RowIsStored, MessageCovers
<1> QED
  BY <1>1, <1>2, <1>3, Zenon

\* The cases of next together.
LEMMA NextKeepsIInv == ASSUME MakerIInv, NEW n \in nexts, next(n) PROVE MakerIInv'
<1>1. nexts' \subseteq nexts
  BY Zenon DEF next
<1>2. CASE nextDangling(n)
  BY <1>1, <1>2, IdleKeepsIInv, Zenon DEF nextDangling
<1>3. CASE /\ inmap /\ n[2] = gen
           /\ nextBusy /\ UNCHANGED <<row, waiting_cb, pending, disk, op, msg, outcome>>
           /\ UNCHANGED <<inmap, gen, balance, dangling, history>>
  BY <1>1, <1>3, IdleKeepsIInv, Zenon
<1>4. CASE /\ inmap /\ n[2] = gen /\ ~nextBusy /\ nextUnused
           /\ UNCHANGED <<inmap, gen, balance, dangling, history>>
  BY <1>1, <1>4, NextUnusedKeepsIInv, Zenon
<1>5. CASE /\ inmap /\ n[2] = gen /\ ~nextBusy /\ nextAdd
           /\ UNCHANGED <<inmap, gen, balance, dangling, history>>
  BY <1>1, <1>5, NextAddKeepsIInv, Zenon
<1> QED
  BY <1>2, <1>3, <1>4, <1>5, Zenon DEF next

\* A restart keeps the stored row and loses the callers.
LEMMA RestartKeepsIInv == ASSUME MakerIInv, Restart PROVE MakerIInv'
<1> USE DEF MakerIInv
<1>1. MakerTypeOK'
  BY NewRowType, Zenon DEF Restart, MakerTypeOK
<1>2. CallersWaitOnce'
  BY Zenon DEF Restart, CallersWaitOnce, MakerTypeOK
<1>3. OpMatchesRow' /\ RowIsStored' /\ MessageCovers'
  BY Zenon DEF Restart, OpMatchesRow, RowIsStored, MessageCovers, NewRow
<1>4. Paid' = Paid
  BY Zenon DEF Restart, Paid, MakerTypeOK
<1>5. DiskUnused' = DiskUnused /\ balance' = balance /\ overcounted' = overcounted
  BY Zenon DEF Restart, DiskUnused
<1> QED
  BY <1>1, <1>2, <1>3, <1>4, <1>5, Zenon

\* Every step keeps the invariant.
LEMMA MakerInductive == MakerIInv /\ [MakerNext]_makerVars => MakerIInv'
<1> SUFFICES ASSUME MakerIInv, [MakerNext]_makerVars PROVE MakerIInv'
  BY Zenon
<1>1. CASE \E c \in Calls : make(c)
  BY <1>1, MakeKeepsIInv, Zenon
<1>2. CASE Answer
  BY <1>2, ErrorsKeepIInv, NetworkKeepsIInv, PushKeepsIInv, MakerWaitKeepsIInv, Zenon DEF Answer
<1>3. CASE \E n \in nexts : next(n)
  BY <1>3, NextKeepsIInv, Zenon
<1>4. CASE Restart
  BY <1>4, RestartKeepsIInv, Zenon
<1>5. CASE UNCHANGED makerVars
  BY <1>5, IdleKeepsIInv, Zenon DEF makerVars, history
<1> QED
  BY <1>1, <1>2, <1>3, <1>4, <1>5, Zenon DEF MakerNext

(***************************************************************************)
(* The queue, its stored row and its callers are well-formed after every   *)
(* step of PaychMaker, restarts of the node included.                      *)
(***************************************************************************)
THEOREM MakerTypeCorrect == MakerSpec => []MakerTypeOK
<1>1. MakerIInv => MakerTypeOK
  BY Zenon DEF MakerIInv
<1> QED
  BY <1>1, MakerInitIInv, MakerInductive, PTL DEF MakerSpec

(***************************************************************************)
(* Whatever calls are made and however answers and restarts fall, every    *)
(* caller of make waits in one list until it is told, and what callers     *)
(* were told is theirs, with the unused funds, is on the chain, unless a   *)
(* restart made unpaid funds unused.                                       *)
(***************************************************************************)
THEOREM MakerSound == MakerSpec => []MakerIsSound
<1>1. ASSUME MakerIInv PROVE MakerIsSound
  <2>1. CurrentRow.unused = DiskUnused
    BY <1>1, Zenon DEF MakerIInv, CurrentRow, RowIsStored, DiskUnused, NewRow
  <2> QED
    BY <1>1, <2>1, Zenon DEF MakerIInv, MakerIsSound, Solvent, Paid
<1> QED
  BY <1>1, MakerInitIInv, MakerInductive, PTL DEF MakerSpec
=============================================================================
