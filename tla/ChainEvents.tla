---------------------------- MODULE ChainEvents -----------------------------
(***************************************************************************)
(* The chain events of the sealing machine and the ring of recent tipsets  *)
(* they are kept in.                                                       *)
(***************************************************************************)
EXTENDS Integers, FiniteSets

(***************************************************************************)
(* TipsetCacheImpl (core/miner/storage_fsm/impl/tipset_cache_impl.cpp): a  *)
(* ring of the last tipsets, one slot per epoch, with NoTipset in the      *)
(* slots of null rounds.  A cache is a record [ring, start, len].          *)
(***************************************************************************)

CONSTANTS
  Capability,   \* the number of slots
  EvHeight,       \* EvHeight[t]: the height of tipset t
  NoTipset      \* a null pointer

\* 2^64 % Capability
Word64 == LET w16 == 2^16 % Capability
              w32 == (w16 * w16) % Capability
          IN  (w32 * w32) % Capability

(***************************************************************************)
(* mod() takes an int64_t, but the size it divides by is unsigned: a       *)
(* negative x is divided as 2^64 + x.                                      *)
(***************************************************************************)
CacheMod(x) == IF x >= 0 THEN x % Capability ELSE (Word64 + x) % Capability

CacheEmpty == [ring |-> [i \in 0..Capability - 1 |-> NoTipset], start |-> 0, len |-> 0]

CacheTop(c) == c.ring[c.start]

\* Mutant: the ring counts more tipsets than it has places.
CacheAddUncapped(c, t) ==
  LET nulls == IF c.len = 0 THEN 0 ELSE EvHeight[t] - EvHeight[CacheTop(c)] - 1
      at == CacheMod(c.start + nulls + 1) IN
  [ring |-> [c.ring EXCEPT ![at] = t], start |-> at, len |-> c.len + nulls + 1]

\* add(): kSmallerHeight, or the tipset goes after a NoTipset per null round.
CanAdd(c, t) == c.len = 0 \/ EvHeight[CacheTop(c)] < EvHeight[t]
CacheAdd(c, t) ==
  LET nulls == IF c.len = 0 THEN 0 ELSE EvHeight[t] - EvHeight[CacheTop(c)] - 1
      skipped == {CacheMod(c.start + i) : i \in 1..nulls}
      at == CacheMod(c.start + nulls + 1)
      size == c.len + nulls + 1 IN
  [ring  |-> [i \in DOMAIN c.ring |-> IF i = at THEN t
                                      ELSE IF i \in skipped THEN NoTipset ELSE c.ring[i]],
   start |-> at,
   len   |-> IF size < Capability THEN size ELSE Capability]

RECURSIVE DropNulls(_)
DropNulls(c) ==
  IF c.len = 0 \/ CacheTop(c) # NoTipset THEN c
  ELSE DropNulls([c EXCEPT !.start = CacheMod(@ - 1), !.len = @ - 1])

\* revert(): kNotMatchHead, or the head is dropped with the null rounds below.
CanRevert(c, t) == c.len = 0 \/ CacheTop(c) = t
CacheRevert(c) ==
  IF c.len = 0 THEN c
  ELSE DropNulls([ring  |-> [c.ring EXCEPT ![c.start] = NoTipset],
                  start |-> CacheMod(c.start - 1), len |-> c.len - 1])

\* The lowest tipset of the ring, which get() looks for from the far end.
CacheTail(c) ==
  LET filled == {i \in 1..c.len : c.ring[CacheMod(c.start - c.len + i)] # NoTipset}
      first  == CHOOSE i \in filled : \A j \in filled : i <= j
  IN  c.ring[CacheMod(c.start - c.len + first)]

\* ChainGetTipSetByHeight: the tipset at h, or the one below a null round.
ByHeight(chain, h) ==
  LET low == {t \in chain : EvHeight[t] <= h}
  IN  CHOOSE t \in low : \A u \in low : EvHeight[u] <= EvHeight[t]

\* get(): what the ring does not hold is asked from the node, whose chain is given.
CacheGet(c, h, chain) ==
  IF c.len = 0 \/ h < EvHeight[CacheTail(c)] THEN ByHeight(chain, h)
  ELSE c.ring[CacheMod(c.start - (EvHeight[CacheTop(c)] - h))]

\* getNonNull(): the first tipset at h or above; NoTipset stands for kNotInCache.
CacheGetNonNull(c, h, chain) ==
  IF c.len = 0 THEN ByHeight(chain, h)
  ELSE LET found == {k \in h..EvHeight[CacheTop(c)] : CacheGet(c, k, chain) # NoTipset}
       IN  IF found = {} THEN NoTipset
           ELSE CacheGet(c, CHOOSE k \in found : \A j \in found : k <= j, chain)

CacheBest(c, head) == IF c.len = 0 THEN head ELSE CacheTop(c)

-----------------------------------------------------------------------------
(***************************************************************************)
(* EventsImpl (core/miner/storage_fsm/impl/events_impl.cpp): the miner asks *)
(* with chainAt to be called when the chain has a tipset at a height with  *)
(* some confidence above it, and to be called again if that tipset is      *)
(* reverted.  Head changes come one tipset at a time; callback_function    *)
(* goes over the handlers of the tipset's height and of the null rounds    *)
(* below it, and releases the mutex while a handler runs, which is when    *)
(* chainAt may come in.  Handlers are numbered in the order of their       *)
(* pointers, the order of std::set.                                        *)
(***************************************************************************)

CONSTANTS
  EvTipsets, EvGenesis, EvParent,   \* the block tree; EvHeight is the cache's
  EvHandlers,        \* numbers
  EvRequests,        \* the [height, confidence] handlers ask for
  GlobalConfidence   \* kGlobalChainConfidence

EvChain[t \in EvTipsets] ==
  IF t = EvGenesis THEN {t} ELSE {t} \cup EvChain[EvParent[t]]

ASSUME EventsAssumption ==
  /\ EvGenesis \in EvTipsets
  /\ \A t \in EvTipsets \ {EvGenesis} :
       EvParent[t] \in EvTipsets /\ EvHeight[EvParent[t]] < EvHeight[t]

VARIABLES
  evHead,     \* the node's head
  cache,      \* tipset_cache_
  handle,     \* handler -> its HeightHandle, and where chainAt is with it
  loop,       \* where callback_function is
  closed,     \* callback_function returned false: no head change is seen again
  ran         \* history: handler -> the tipset it ran for and was not reverted

evVars == <<evHead, cache, handle, loop, closed, ran>>

EvIdle == [kind |-> "idle"]

EvInit ==
  /\ evHead = EvGenesis
  /\ cache = CacheEmpty
  /\ handle = [i \in EvHandlers |-> [at |-> "new", called |-> FALSE, direct |-> FALSE]]
  /\ loop = EvIdle
  /\ closed = FALSE
  /\ ran = [i \in EvHandlers |-> NoTipset]

EvBest == CacheBest(cache, evHead)
EvTrigger(i) == handle[i].height + handle[i].confidence
Inserted(i) == handle[i].at = "inserted"
MutexFree == IF loop.kind = "idle" THEN TRUE ELSE loop.running # 0

-----------------------------------------------------------------------------

\* chainAt: run at once when the height is deep enough, otherwise insert.
chainAt(i, r) ==
  /\ MutexFree /\ handle[i].at = "new"
  /\ LET deep == EvHeight[EvBest] >= r.height + r.confidence
         ts   == IF deep THEN CacheGetNonNull(cache, r.height, EvChain[evHead]) ELSE NoTipset IN
     /\ handle' = [handle EXCEPT ![i] =
          [at |-> IF ~deep THEN "inserted" ELSE IF ts = NoTipset THEN "refused" ELSE "ran",
           height |-> r.height, confidence |-> r.confidence,
           called |-> FALSE, direct |-> deep]]
     /\ ran' = [ran EXCEPT ![i] = ts]
  /\ UNCHANGED <<evHead, cache, loop, closed>>

\* chainAt after the handler ran: it is kept in case of a reorganisation.
chainAtEnds(i) ==
  /\ MutexFree /\ handle[i].at = "ran"
  /\ handle' = [handle EXCEPT ![i].at =
       IF EvHeight[EvBest] >= EvTrigger(i) + GlobalConfidence THEN "done" ELSE "inserted"]
  /\ UNCHANGED <<evHead, cache, loop, closed, ran>>

\* The head moves to a child, or back to its parent, and callback_function starts.
HeadApply(t) ==
  /\ loop.kind = "idle" /\ ~closed
  /\ t # EvGenesis /\ EvParent[t] = evHead
  /\ evHead' = t
  /\ IF CanAdd(cache, t)
     THEN /\ cache' = CacheAdd(cache, t)
          /\ loop' = [kind |-> "apply", ts |-> t, height |-> EvHeight[t], last |-> 0, running |-> 0]
          /\ UNCHANGED closed
     ELSE closed' = TRUE /\ UNCHANGED <<cache, loop>>
  /\ UNCHANGED <<handle, ran>>

HeadRevert ==
  /\ loop.kind = "idle" /\ ~closed /\ evHead # EvGenesis
  /\ evHead' = EvParent[evHead]
  /\ loop' = [kind |-> "revert", ts |-> evHead, height |-> EvHeight[evHead], last |-> 0, running |-> 0]
  /\ UNCHANGED <<cache, handle, closed, ran>>

\* The handlers of the height that the loop has not come to.
ToApply == {i \in EvHandlers : Inserted(i) /\ EvTrigger(i) = loop.height /\ i > loop.last}
ToRevert == {i \in EvHandlers : Inserted(i) /\ handle[i].height = loop.height
                                /\ i > loop.last /\ handle[i].called}
First(S) == CHOOSE i \in S : \A j \in S : i <= j
HeightDone == IF loop.kind = "apply"
              THEN \A i \in ToApply : i = First(ToApply) => handle[i].called
              ELSE ToRevert = {}

\* apply(): a handler is run with the mutex released.
runHandler ==
  /\ loop.kind = "apply" /\ loop.running = 0
  /\ ToApply # {} /\ ~handle[First(ToApply)].called
  /\ LET i == First(ToApply)
         ts == CacheGetNonNull(cache, handle[i].height, EvChain[evHead]) IN
     IF ts = NoTipset
     THEN closed' = TRUE /\ loop' = EvIdle /\ UNCHANGED ran
     ELSE /\ loop' = [loop EXCEPT !.running = i]
          /\ ran' = [ran EXCEPT ![i] = ts]
          /\ UNCHANGED closed
  /\ UNCHANGED <<evHead, cache, handle>>

runRevertHandler ==
  /\ loop.kind = "revert" /\ loop.running = 0 /\ ToRevert # {}
  /\ loop' = [loop EXCEPT !.running = First(ToRevert)]
  /\ ran' = [ran EXCEPT ![First(ToRevert)] = NoTipset]
  /\ UNCHANGED <<evHead, cache, handle, closed>>

\* The handler returned; its called flag is set after the mutex is taken again.
handlerReturns ==
  /\ loop.kind # "idle" /\ loop.running # 0
  /\ handle' = [handle EXCEPT ![loop.running].called = (loop.kind = "apply")]
  /\ loop' = [loop EXCEPT !.last = loop.running, !.running = 0]
  /\ UNCHANGED <<evHead, cache, closed, ran>>

\* Mutant: null rounds are not visited.
nextHeightSkippingNulls ==
  /\ loop.kind # "idle" /\ loop.running = 0
  /\ HeightDone
  /\ loop' = EvIdle
  /\ cache' = IF loop.kind = "revert" THEN CacheRevert(cache) ELSE cache
  /\ UNCHANGED <<evHead, handle, closed, ran>>

(***************************************************************************)
(* No handler is left at this height, or apply() met one that was called,  *)
(* upon which it returns.  The loop goes down through null rounds; at the  *)
(* next tipset it ends, and a REVERT drops the tipset from the cache.      *)
(***************************************************************************)
nextHeight ==
  /\ loop.kind # "idle" /\ loop.running = 0
  /\ HeightDone
  /\ LET below == CacheGet(cache, loop.height - 1, EvChain[evHead])
         stop  == loop.height = 0 \/ below # NoTipset
         fails == stop /\ loop.kind = "revert" /\ ~CanRevert(cache, loop.ts) IN
     /\ loop' = IF stop THEN EvIdle ELSE [loop EXCEPT !.height = @ - 1, !.last = 0]
     /\ cache' = IF stop /\ ~fails /\ loop.kind = "revert" THEN CacheRevert(cache) ELSE cache
     /\ closed' = fails
  /\ UNCHANGED <<evHead, handle, ran>>

EvNext ==
  \/ \E i \in EvHandlers, r \in EvRequests : chainAt(i, r)
  \/ \E i \in EvHandlers : chainAtEnds(i)
  \/ \E t \in EvTipsets : HeadApply(t)
  \/ HeadRevert
  \/ runHandler
  \/ runRevertHandler
  \/ handlerReturns
  \/ nextHeight

EvSpec == EvInit /\ [][EvNext]_evVars

-----------------------------------------------------------------------------

EvTypeOK ==
  /\ evHead \in EvTipsets
  /\ cache.start \in 0..Capability - 1 /\ cache.len \in 0..Capability
  /\ \A i \in EvHandlers : handle[i].at \in {"new", "ran", "refused", "inserted", "done"}
  /\ loop.kind \in {"idle", "apply", "revert"}

\* A called handler with a lower pointer and the same trigger height.
Shadowed(i) == \E j \in EvHandlers : j < i /\ Inserted(j) /\ handle[j].called
                                     /\ EvTrigger(j) = EvTrigger(i)

(***************************************************************************)
(* When a head change has been handled, every handler whose height has its *)
(* confidence has run and was not reverted (callback_function).  Excepted  *)
(* is a handler inserted after one that is still called at the same        *)
(* trigger height: apply() returns at the first called one.                *)
(***************************************************************************)
HeightsAreReported ==
  loop.kind = "idle" /\ ~closed /\ cache.len > 0 =>
    \A i \in EvHandlers : Inserted(i) /\ EvTrigger(i) <= EvHeight[EvBest] /\ ~Shadowed(i)
                            => ran[i] # NoTipset

(***************************************************************************)
(* A handler that ran, and was not reverted, ran for the lowest tipset of  *)
(* the chain at its height or above (getNonNull).  Excepted are handlers   *)
(* that chainAt ran itself: they are not marked as called, and a REVERT    *)
(* passes them over.                                                       *)
(***************************************************************************)
RanOnChain ==
  loop.kind = "idle" /\ ~closed =>
    \A i \in EvHandlers : ran[i] # NoTipset /\ ~handle[i].direct =>
      /\ ran[i] \in EvChain[evHead]
      /\ EvHeight[ran[i]] >= handle[i].height
      /\ \A t \in EvChain[evHead] : EvHeight[t] >= handle[i].height => EvHeight[ran[i]] <= EvHeight[t]

(***************************************************************************)
(* For the heights the ring covers, get() gives the tipset of that height, *)
(* or none for a null round (tipset_cache.hpp).                            *)
(***************************************************************************)
CacheIsChain ==
  loop.kind = "idle" /\ ~closed /\ cache.len > 0 =>
    \A h \in 0..EvHeight[EvBest] :
      EvHeight[EvBest] - h < cache.len =>
        LET at == {t \in EvChain[evHead] : EvHeight[t] = h}
        IN  at = {} \/ CacheGet(cache, h, EvChain[evHead]) \in at
=============================================================================
