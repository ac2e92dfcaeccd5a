---------------------------- MODULE EngineProofs ----------------------------
(***************************************************************************)
(* Proofs about the two engines that other parts run on: the state machine *)
(* engine (Fsm), for any entities, events, states and rules and any number *)
(* of calls of send(), and the file locks of sectors (IndexLock), for any  *)
(* finite set of Lock objects.                                             *)
(***************************************************************************)
EXTENDS Fsm, IndexLock, SequenceTheorems, FiniteSetTheorems, TLAPS

-----------------------------------------------------------------------------
(***************************************************************************)
(* Fsm.  The inductive invariant joins the type invariant with the         *)
(* agreement of posted ticks and queue (TickFindsEvent, QueueIsServed), the*)
(* order of the events (HandledInOrder) and the fact that the state copied *)
(* by a running tick is still the entity's state (SourceIsFresh).          *)
(***************************************************************************)

\* Between the copy of the state and the write nobody changes the state.
SourceIsFresh ==
  current.stage = "reading" => states[EntityOf[current.send]] = current.source

FsmIInv == FsmTypeOK /\ TickFindsEvent /\ QueueIsServed /\ HandledInOrder /\ SourceIsFresh
-----------------------------------------------------------------------------
\* Concatenation may be grouped either way.
LEMMA Associative ==
  \A a \in Seq(Sends), b \in Seq(Sends), c \in Seq(Sends) : (a \o b) \o c = a \o (b \o c)
BY SMT

\* Appending to the last of three sequences appends to the whole.
LEMMA AppendLast ==
  \A h, p, q \in Seq(Sends), s \in Sends :
    Append(h \o p \o q, s) = h \o p \o Append(q, s)
<1> TAKE h, p, q \in Seq(Sends), s \in Sends
<1>1. h \o p \in Seq(Sends)
  BY ConcatProperties, Zenon
<1>2. Append(q, s) = q \o <<s>> /\ <<s>> \in Seq(Sends)
  OBVIOUS
<1>3. (h \o p) \o q \in Seq(Sends)
  BY <1>1, ConcatProperties, Zenon
<1>4. Append((h \o p) \o q, s) = ((h \o p) \o q) \o <<s>>
  BY <1>3
<1>5. ((h \o p) \o q) \o <<s>> = (h \o p) \o (q \o <<s>>)
  BY ONLY <1>1, <1>2, Associative, q \in Seq(Sends), Zenon
<1> QED
  BY <1>2, <1>4, <1>5, Zenon

\* Taking the head of a queue into the place before it changes nothing.
LEMMA TakeHead ==
  ASSUME NEW S, NEW h \in Seq(S), NEW q \in Seq(S), q # <<>>
  PROVE  /\ Head(q) \in S /\ Tail(q) \in Seq(S)
         /\ h \o <<>> \o q = h \o <<Head(q)>> \o Tail(q)
         /\ h \o <<>> \o q = Append(h, Head(q)) \o <<>> \o Tail(q)
<1>1. Head(q) \in S /\ Tail(q) \in Seq(S) /\ <<Head(q)>> \in Seq(S)
  BY HeadTailProperties
<1>2. <<Head(q)>> \o Tail(q) = q
  <2>1. <<Head(q)>> \o Tail(q) \in Seq(S)
    BY <1>1, ConcatProperties, Zenon
  <2>2. Len(<<Head(q)>> \o Tail(q)) = Len(q)
    BY <1>1, ConcatProperties, HeadTailProperties, LenProperties
  <2>3. \A i \in 1..Len(q) : (<<Head(q)>> \o Tail(q))[i] = q[i]
    BY <1>1, ConcatProperties, HeadTailProperties, LenProperties
  <2> QED
    BY <2>1, <2>2, <2>3, SeqEqual, Zenon
<1>3. h \o <<>> = h
  BY ConcatEmptySeq, Zenon
<1>4. (h \o <<Head(q)>>) \o Tail(q) = h \o q
  BY <1>1, <1>2, ConcatAssociative
<1>5. Append(h, Head(q)) = h \o <<Head(q)>> /\ Append(h, Head(q)) \in Seq(S)
  BY <1>1
<1>6. Append(h, Head(q)) \o <<>> = Append(h, Head(q))
  BY <1>5, ConcatEmptySeq, Zenon
<1> QED
  BY <1>1, <1>3, <1>4, <1>5, <1>6, Zenon

\* An event in progress that ends is the last of the handled ones.
LEMMA FinishOne ==
  ASSUME NEW S, NEW h \in Seq(S), NEW q \in Seq(S), NEW s \in S
  PROVE  /\ Append(h, s) \in Seq(S)
         /\ h \o <<s>> \o q = Append(h, s) \o <<>> \o q
<1>1. Append(h, s) = h \o <<s>> /\ Append(h, s) \in Seq(S)
  OBVIOUS
<1>2. Append(h, s) \o <<>> = Append(h, s)
  BY <1>1, ConcatEmptySeq, Zenon
<1> QED
  BY <1>1, <1>2, Zenon
-----------------------------------------------------------------------------
\* createFsm leaves the machine in a state of the invariant.
LEMMA FsmInitIInv == FsmInit => FsmIInv
<1> SUFFICES ASSUME FsmInit PROVE FsmIInv
  BY Zenon
<1>1. FsmTypeOK
  BY FsmAssumption DEF FsmInit, FsmTypeOK, Idle
<1>2. HandledInOrder
  BY ConcatEmptySeq DEF FsmInit, HandledInOrder, InProgress
<1> QED
  BY <1>1, <1>2 DEF FsmInit, FsmIInv, TickFindsEvent, QueueIsServed, SourceIsFresh, Idle

\* begin tracks one more entity; those a tick works on keep their state.
LEMMA beginStep == ASSUME FsmIInv, NEW e \in Entities, begin(e) PROVE FsmIInv'
<1> USE DEF FsmIInv, begin
<1>1. FsmTypeOK'
  BY FsmAssumption, Zenon DEF FsmTypeOK, Reading, Changed
<1>2. HandledInOrder'
  BY Zenon DEF HandledInOrder, InProgress
<1>3. SourceIsFresh'
  BY DEF SourceIsFresh, FsmTypeOK, Reading, Changed, Idle
<1> QED
  BY <1>1, <1>2, <1>3, Zenon DEF TickFindsEvent, QueueIsServed

\* send posts a tick exactly when it finds the queue empty.
LEMMA sendStep == ASSUME FsmIInv, NEW s \in Sends, send(s) PROVE FsmIInv'
<1> USE DEF FsmIInv, send
<1>1. FsmTypeOK'
  BY DEF FsmTypeOK
<1>2. Append(event_queue, s) # <<>>
  BY DEF FsmTypeOK
<1>3. TickFindsEvent' /\ QueueIsServed'
  BY <1>2 DEF FsmTypeOK, TickFindsEvent, QueueIsServed
<1>4. HandledInOrder'
  <2>1. InProgress' = InProgress
    BY Zenon DEF InProgress
  <2>2. InProgress \in Seq(Sends)
    BY DEF InProgress, FsmTypeOK, Idle, Reading, Changed
  <2>3. Append(handled \o InProgress \o event_queue, s)
          = handled \o InProgress \o Append(event_queue, s)
    <3>1. handled \in Seq(Sends) /\ event_queue \in Seq(Sends)
      BY Zenon DEF FsmTypeOK
    <3> HIDE DEF FsmIInv, send
    <3> QED
      BY ONLY <2>2, <3>1, s \in Sends, AppendLast, ZenonT(60)
  <2> QED
    BY <2>1, <2>3, Zenon DEF HandledInOrder
<1>5. SourceIsFresh'
  BY Zenon DEF SourceIsFresh
<1> QED
  BY <1>1, <1>3, <1>4, <1>5, Zenon

\* tick takes the first event: there is one, and the next has its tick.
LEMMA TickBeginStep == ASSUME FsmIInv, TickBegin PROVE FsmIInv'
<1> DEFINE s == Head(event_queue)
<1> USE DEF FsmIInv
<1>1. ticks = 1 /\ event_queue # <<>>
  BY DEF TickBegin, TickFindsEvent, FsmTypeOK
<1>2. /\ s \in Sends /\ Tail(event_queue) \in Seq(Sends)
      /\ handled \o <<>> \o event_queue = handled \o <<s>> \o Tail(event_queue)
      /\ handled \o <<>> \o event_queue = Append(handled, s) \o <<>> \o Tail(event_queue)
  BY <1>1, TakeHead, Zenon DEF FsmTypeOK
<1>3. InProgress = <<>>
  BY Zenon DEF InProgress, TickBegin
<1>4. FsmTypeOK'
  <2>1. CASE EntityOf[s] \in DOMAIN states
    <3>1. states[EntityOf[s]] \in States /\ current' = Reading(s, states[EntityOf[s]])
      BY <2>1, Zenon DEF FsmTypeOK, TickBegin
    <3>2. UNCHANGED <<running, discard_event, states, handled, sent, applied>>
          /\ event_queue' = Tail(event_queue) /\ ticks' \in Nat
      BY <1>1, <2>1 DEF TickBegin
    <3> QED
      BY <1>2, <2>1, <3>1, <3>2, Zenon DEF FsmTypeOK
  <2>2. CASE EntityOf[s] \notin DOMAIN states
    BY <1>1, <1>2, <2>2 DEF FsmTypeOK, TickBegin
  <2> QED
    BY <2>1, <2>2, Zenon
<1>5. TickFindsEvent' /\ QueueIsServed'
  BY <1>1, <1>2 DEF TickBegin, TickFindsEvent, QueueIsServed
<1>6. HandledInOrder'
  <2>1. CASE EntityOf[s] \in DOMAIN states
    <3>1. InProgress' = <<s>>
      BY <2>1, Zenon DEF TickBegin, InProgress, Reading, Idle
    <3> QED
      BY <1>2, <1>3, <2>1, <3>1, Zenon DEF TickBegin, HandledInOrder
  <2>2. CASE EntityOf[s] \notin DOMAIN states
    <3>1. InProgress' = <<>>
      BY <2>2, Zenon DEF TickBegin, InProgress
    <3> QED
      BY <1>2, <1>3, <2>2, <3>1, Zenon DEF TickBegin, HandledInOrder
  <2> QED
    BY <2>1, <2>2, Zenon
<1>7. SourceIsFresh'
  BY Zenon DEF TickBegin, SourceIsFresh, Reading, Idle
<1> QED
  BY <1>4, <1>5, <1>6, <1>7, Zenon

\* A transition or force changes only the state of the running tick's entity.
LEMMA ChangeStep ==
  ASSUME FsmIInv, TickApply \/ \E st \in States \ {ForceState} : force(st)
  PROVE  FsmIInv'
<1> USE DEF FsmIInv
<1>1. PICK s \in Sends, st \in States :
        current \in {Reading(s, st), Changed(s, st)} /\ EntityOf[s] \in DOMAIN states
  BY DEF FsmTypeOK, TickApply, force, Idle
<1>2. current.send = s /\ current.source = st
  BY <1>1 DEF Reading, Changed
<1>3. UNCHANGED <<running, discard_event, event_queue, ticks, sent, handled>>
      /\ current' = Changed(s, st)
  BY <1>1, <1>2, Zenon DEF TickApply, force, Reading, Changed
<1>4. PICK to \in States : states' = [states EXCEPT ![EntityOf[s]] = to]
  BY <1>2, FsmAssumption, Zenon DEF TickApply, force, dispatch, Rule
<1>5. FsmTypeOK'
  <2>1. applied' \in SUBSET Sends
    BY <1>2, Zenon DEF FsmTypeOK, TickApply, force
  <2>2. DOMAIN states' = DOMAIN states /\ states' \in [DOMAIN states -> States]
    BY <1>4, Zenon DEF FsmTypeOK
  <2> QED
    BY <1>1, <1>3, <2>1, <2>2, Zenon DEF FsmTypeOK
<1>6. InProgress' = InProgress
  BY <1>1, <1>2, <1>3 DEF InProgress, Idle, Reading, Changed
<1>7. SourceIsFresh'
  BY <1>3, Zenon DEF SourceIsFresh, Changed
<1> QED
  BY <1>3, <1>5, <1>6, <1>7, Zenon DEF TickFindsEvent, QueueIsServed, HandledInOrder

\* The end of a tick hands its event over to the handled ones or the queue.
LEMMA EndStep == ASSUME FsmIInv, TickEnd \/ TickUnmatched PROVE FsmIInv'
<1> USE DEF FsmIInv
<1>1. PICK s \in Sends, st \in States :
        current \in {Reading(s, st), Changed(s, st)} /\ EntityOf[s] \in DOMAIN states
  BY DEF FsmTypeOK, TickEnd, TickUnmatched, Idle
<1>2. current.send = s /\ current # Idle
  BY <1>1 DEF Reading, Changed, Idle
<1>3. InProgress = <<s>> /\ InProgress' = <<>>
  BY <1>2, Zenon DEF InProgress, TickEnd, TickUnmatched
<1>4. UNCHANGED <<running, discard_event, states, ticks, sent, applied>> /\ current' = Idle
  BY Zenon DEF TickEnd, TickUnmatched
<1>5. SourceIsFresh'
  BY <1>4, Zenon DEF SourceIsFresh, Idle
<1>6. CASE handled' = Append(handled, s) /\ UNCHANGED event_queue
  <2>1. /\ Append(handled, s) \in Seq(Sends)
        /\ handled \o <<s>> \o event_queue = Append(handled, s) \o <<>> \o event_queue
    <3>1. handled \in Seq(Sends) /\ event_queue \in Seq(Sends)
      BY Zenon DEF FsmTypeOK
    <3> HIDE DEF FsmIInv
    <3> QED
      BY ONLY <3>1, s \in Sends, FinishOne, Zenon
  <2>2. FsmTypeOK'
    BY <1>4, <1>6, <2>1, Zenon DEF FsmTypeOK
  <2>3. HandledInOrder'
    BY <1>3, <1>4, <1>6, <2>1, Zenon DEF HandledInOrder
  <2> QED
    BY <1>4, <1>5, <1>6, <2>2, <2>3, Zenon DEF TickFindsEvent, QueueIsServed
<1>7. CASE ~discard_event /\ event_queue' = Append(event_queue, s) /\ UNCHANGED handled
  <2>1. Append(event_queue, s) \in Seq(Sends) /\ Append(event_queue, s) # <<>>
    BY DEF FsmTypeOK
  <2>2. FsmTypeOK'
    BY <1>4, <1>7, <2>1, Zenon DEF FsmTypeOK
  <2> QED
    BY <1>4, <1>5, <1>7, <2>1, <2>2, Zenon DEF TickFindsEvent, QueueIsServed, HandledInOrder
<1> QED
  BY <1>2, <1>6, <1>7, Zenon DEF TickEnd, TickUnmatched

\* Stopping, and a tick that finds the machine stopped.
LEMMA StopStep == ASSUME FsmIInv, stop \/ TickStopped PROVE FsmIInv'
<1>1. UNCHANGED <<discard_event, states, event_queue, current, sent, handled, applied>>
      /\ running' = FALSE
  BY Zenon DEF FsmIInv, FsmTypeOK, stop, TickStopped
<1>2. ticks' \in Nat
  BY DEF FsmIInv, FsmTypeOK, stop, TickStopped
<1>3. FsmTypeOK'
  BY <1>1, <1>2, Zenon DEF FsmIInv, FsmTypeOK
<1>4. InProgress' = InProgress
  BY <1>1, Zenon DEF InProgress
<1> QED
  BY <1>1, <1>3, <1>4, Zenon DEF FsmIInv, TickFindsEvent, QueueIsServed, HandledInOrder, SourceIsFresh

\* Every step preserves the invariant.
LEMMA FsmNextIInv == FsmIInv /\ [FsmNext]_fsmVars => FsmIInv'
<1> SUFFICES ASSUME FsmIInv, [FsmNext]_fsmVars PROVE FsmIInv'
  BY Zenon
<1>1. CASE UNCHANGED fsmVars
  <2>1. InProgress' = InProgress
    BY <1>1, Zenon DEF fsmVars, InProgress
  <2>2. FsmTypeOK'
    BY <1>1, Zenon DEF fsmVars, FsmIInv, FsmTypeOK
  <2> QED
    BY <1>1, <2>1, <2>2, Zenon DEF fsmVars, FsmIInv, TickFindsEvent, QueueIsServed, HandledInOrder, SourceIsFresh
<1> QED
  BY <1>1, beginStep, sendStep, TickBeginStep, ChangeStep, EndStep, StopStep, Zenon DEF FsmNext, tick

\* The inductive invariant holds in every reachable state.
THEOREM FsmInvariance == FsmSpec => []FsmIInv
  BY FsmInitIInv, FsmNextIInv, PTL DEF FsmSpec

\* createFsm, send, tick and the others keep the machine's data well-formed.
THEOREM FsmTypeCorrect == FsmSpec => []FsmTypeOK
<1>1. FsmIInv => FsmTypeOK
  BY Zenon DEF FsmIInv
<1> QED
  BY <1>1, FsmInvariance, PTL

\* tick() never takes the front of an empty event queue.
THEOREM FrontExists == FsmSpec => []TickFindsEvent
<1>1. FsmIInv => TickFindsEvent
  BY Zenon DEF FsmIInv
<1> QED
  BY <1>1, FsmInvariance, PTL

\* With discard_event, waiting events always have a tick posted.
THEOREM NoWedge == FsmSpec => []QueueIsServed
<1>1. FsmIInv => QueueIsServed
  BY Zenon DEF FsmIInv
<1> QED
  BY <1>1, FsmInvariance, PTL

\* With discard_event, events are handled once each, in the order sent.
THEOREM InOrder == FsmSpec => []HandledInOrder
<1>1. FsmIInv => HandledInOrder
  BY Zenon DEF FsmIInv
<1> QED
  BY <1>1, FsmInvariance, PTL

\* Both together: no event is left without a tick, and none overtakes another.
THEOREM Order == FsmSpec => []EventsInOrder
<1>1. FsmIInv => EventsInOrder
  BY Zenon DEF FsmIInv, EventsInOrder
<1> QED
  BY <1>1, FsmInvariance, PTL

(***************************************************************************)
(* The state tick() copied is not stale when the result of a transition is *)
(* written: entities move only along the rules, or by force().             *)
(***************************************************************************)
THEOREM RulesRespected == FsmSpec => ChangesFollowRules
<1> DEFINE Follows ==
      \A e \in DOMAIN states :
        states'[e] # states[e] =>
          /\ current # Idle
          /\ EntityOf[current.send] = e
          /\ \/ \E r \in Rules : /\ r.event = EventOf[current.send]
                                 /\ r.from \in {AnyState, states[e]}
                                 /\ r.to = states'[e]
             \/ states[e] = ForceState
<1>1. FsmIInv /\ [FsmNext]_fsmVars => [Follows]_fsmVars
  <2> SUFFICES ASSUME FsmIInv, FsmNext, NEW e \in DOMAIN states, states'[e] # states[e]
               PROVE  /\ current # Idle
                      /\ EntityOf[current.send] = e
                      /\ \/ \E r \in Rules : /\ r.event = EventOf[current.send]
                                             /\ r.from \in {AnyState, states[e]}
                                             /\ r.to = states'[e]
                         \/ states[e] = ForceState
    BY Zenon DEF Follows
  <2>1. TickApply \/ \E st \in States \ {ForceState} : force(st)
    BY Zenon DEF FsmNext, tick, begin, send, stop, TickStopped, TickBegin, TickEnd, TickUnmatched
  <2>2. current # Idle
    BY <2>1 DEF TickApply, force, Idle
  <2>3. EntityOf[current.send] = e
    BY <2>1, Zenon DEF FsmIInv, FsmTypeOK, TickApply, force
  <2>4. CASE TickApply
    <3>1. PICK r \in dispatch(current.send, current.source) :
            states' = [states EXCEPT ![EntityOf[current.send]] = r.to]
      BY <2>4, Zenon DEF TickApply
    <3>2. states[e] = current.source
      BY <2>3, <2>4, Zenon DEF FsmIInv, SourceIsFresh, TickApply
    <3>3. states'[e] = r.to
      BY <2>3, <3>1, Zenon DEF FsmIInv, FsmTypeOK
    <3> QED
      BY <2>2, <2>3, <3>1, <3>2, <3>3, Zenon DEF dispatch
  <2>5. CASE \E st \in States \ {ForceState} : force(st)
    BY <2>2, <2>3, <2>5, Zenon DEF force
  <2> QED
    BY <2>1, <2>4, <2>5, Zenon
<1> QED
  BY <1>1, FsmInvariance, PTL DEF FsmSpec, ChangesFollowRules

-----------------------------------------------------------------------------
(***************************************************************************)
(* The inductive invariant.  LockTypeOK alone is not inductive: unlock()   *)
(* subtracts from the counters, and that they stay naturals needs          *)
(* CountersMatchHolders and RefsMatchUsers.  Exclusion rests on            *)
(* CountersMatchHolders: canLock looks at counters, not at holders.        *)
(***************************************************************************)
LockIInv ==
  /\ LockTypeOK
  /\ CountersMatchHolders
  /\ RefsMatchUsers
  /\ NoLostWakeup
  /\ Exclusion

(***************************************************************************)
(* Sets of Lock objects are finite, so their cardinality is a natural      *)
(* number that is 0 only for the empty set.                                *)
(***************************************************************************)
LEMMA FiniteLocks ==
  ASSUME NEW S, S \subseteq Locks
  PROVE  /\ IsFiniteSet(S)
         /\ Cardinality(S) \in Nat
         /\ Cardinality(S) = 0 <=> S = {}
<1>1. IsFiniteSet(S)
  BY LocksAssumption, FS_Subset, Zenon
<1>2. Cardinality(S) \in Nat
  BY <1>1, FS_CardinalityType, Zenon
<1>3. QED
  BY <1>1, <1>2, FS_EmptySet, Zenon

(***************************************************************************)
(* How a cardinality changes when one Lock joins or leaves a set.          *)
(***************************************************************************)
LEMMA OneMore ==
  ASSUME NEW S, S \subseteq Locks, NEW l \in Locks, l \notin S
  PROVE  Cardinality(S \cup {l}) = Cardinality(S) + 1
BY FiniteLocks, FS_AddElement, Zenon

\* Removing one of its members makes the cardinality of a finite set one less.
LEMMA OneLess ==
  ASSUME NEW S, S \subseteq Locks, NEW l \in S
  PROVE  Cardinality(S \ {l}) = Cardinality(S) - 1 /\ Cardinality(S) > 0
<1>1. IsFiniteSet(S) /\ Cardinality(S) \in Nat /\ Cardinality(S) # 0
  BY FiniteLocks, Zenon
<1>2. Cardinality(S \ {l}) = Cardinality(S) - 1
  BY <1>1, FS_RemoveElement, Zenon
<1>3. QED
  BY <1>1, <1>2

(***************************************************************************)
(* The invariant holds initially.                                          *)
(***************************************************************************)
LEMMA LockInitIInv == LockInit => LockIInv
<1> SUFFICES ASSUME LockInit PROVE LockIInv
  BY Zenon
<1>1. LockTypeOK
  BY LocksAssumption, Zenon DEF LockInit, LockTypeOK, LockStages, Entry
<1>2. CountersMatchHolders /\ NoLostWakeup /\ Exclusion
  BY Zenon DEF LockInit, CountersMatchHolders, NoLostWakeup, Exclusion
<1>3. RefsMatchUsers
  <2>1. \A s \in SectorIds : Using(s) = {} /\ leaked[s] = 0 /\ s \notin DOMAIN sectors
    BY Zenon DEF LockInit, Using
  <2>2. QED
    BY <2>1, FS_EmptySet DEF RefsMatchUsers
<1>4. QED
  BY <1>1, <1>2, <1>3, Zenon DEF LockIInv

(***************************************************************************)
(* Whoever is inside lock() or holds a Lock finds the entry in the map.    *)
(***************************************************************************)
LEMMA EntryPresent ==
  ASSUME LockIInv, NEW l \in Locks, pc[l] \in {"counted", "asleep", "held"}
  PROVE  LockSector[l] \in DOMAIN sectors /\ LockSector[l] \in SectorIds
<1>1. LockSector[l] \in SectorIds
  BY LocksAssumption, Zenon
<1>2. Using(LockSector[l]) # {} /\ Using(LockSector[l]) \subseteq Locks
  BY Zenon DEF Using
<1>3. Cardinality(Using(LockSector[l])) \in Nat \ {0}
  BY <1>2, FiniteLocks, Zenon
<1>4. leaked[LockSector[l]] \in Nat
  BY <1>1, Zenon DEF LockIInv, LockTypeOK
<1>5. QED
  BY <1>1, <1>3, <1>4 DEF LockIInv, RefsMatchUsers

(***************************************************************************)
(* Counting in creates the entry or bumps its reference count.             *)
(***************************************************************************)
LEMMA CountInStep ==
  ASSUME LockIInv, NEW l \in Locks, CountIn(l)
  PROVE  LockIInv'
<1> DEFINE s == LockSector[l]
           e == FindOrCreate(s)
<1>0. s \in SectorIds /\ LockTypeOK
  BY LocksAssumption, Zenon DEF LockIInv
<1>1. e \in Entry
  BY <1>0, Zenon DEF LockTypeOK, NewEntry, Entry, FindOrCreate
<1>2. /\ DOMAIN sectors' = DOMAIN sectors \cup {s}
      /\ sectors'[s] = Referenced(e)
      /\ \A t \in DOMAIN sectors : t # s => sectors'[t] = sectors[t]
      /\ sectors' = [t \in DOMAIN sectors' |-> sectors'[t]]
  BY Zenon DEF CountIn
<1>3. /\ pc[l] = "new" /\ pc'[l] = "counted"
      /\ \A m \in Locks : m # l => pc'[m] = pc[m]
      /\ pc' \in [Locks -> LockStages]
      /\ leaked' = leaked
  BY <1>0, Zenon DEF CountIn, LockTypeOK, LockStages
<1>4. sectors'[s] \in Entry /\ sectors'[s].refs = e.refs + 1
      /\ sectors'[s].read = e.read /\ sectors'[s].write = e.write
  BY <1>1, <1>2 DEF Entry, Referenced
<1>5. LockTypeOK'
  <2>1. \A t \in DOMAIN sectors' : sectors'[t] \in Entry
    BY <1>0, <1>2, <1>4, Zenon DEF LockTypeOK
  <2>2. QED
    BY <1>0, <1>2, <1>3, <2>1, Zenon DEF LockTypeOK
<1>6. \A t : Held(t)' = Held(t)
  BY <1>3, Zenon DEF Held
<1>7. CountersMatchHolders'
  <2>1. \A t, f : Readers(t, f)' = Readers(t, f)
    BY <1>6, Zenon DEF Readers
  <2>2. ASSUME s \notin DOMAIN sectors
        PROVE  Held(s) = {}
    <3>1. \A m \in Held(s) : m \in Locks /\ pc[m] = "held" /\ LockSector[m] = s
      BY Zenon DEF Held
    <3>2. QED
      BY <2>2, <3>1, EntryPresent, Zenon
  <2>3. ASSUME s \notin DOMAIN sectors, NEW f \in FileTypes
        PROVE  Cardinality(Readers(s, f)) = 0
    BY <2>2, <2>3, FS_EmptySet, Zenon DEF Readers
  <2>4. ASSUME NEW t \in DOMAIN sectors', NEW f \in FileTypes
        PROVE  sectors'[t].read[f] = Cardinality(Readers(t, f))
    <3>1. CASE t # s
      BY <1>2, <3>1, Zenon DEF LockIInv, CountersMatchHolders
    <3>2. CASE t = s /\ s \in DOMAIN sectors
      BY <1>4, <3>2, Zenon DEF LockIInv, CountersMatchHolders, FindOrCreate
    <3>3. CASE t = s /\ s \notin DOMAIN sectors
      BY <1>4, <2>3, <3>3, Zenon DEF NewEntry, FindOrCreate
    <3>4. QED
      BY <3>1, <3>2, <3>3, Zenon
  <2>5. ASSUME NEW t \in DOMAIN sectors'
        PROVE  sectors'[t].write = UNION {LockWrite[m] : m \in Held(t)}
    <3>1. CASE t # s
      BY <1>2, <3>1, Zenon DEF LockIInv, CountersMatchHolders
    <3>2. CASE t = s /\ s \in DOMAIN sectors
      BY <1>4, <3>2, Zenon DEF LockIInv, CountersMatchHolders, FindOrCreate
    <3>3. CASE t = s /\ s \notin DOMAIN sectors
      BY <1>4, <2>2, <3>3, Zenon DEF NewEntry, FindOrCreate
    <3>4. QED
      BY <3>1, <3>2, <3>3, Zenon
  <2>6. QED
    BY <1>6, <2>1, <2>4, <2>5, Zenon DEF CountersMatchHolders
<1>8. RefsMatchUsers'
  <2>1. Using(s)' = Using(s) \cup {l} /\ l \notin Using(s)
    BY <1>3, Zenon DEF Using
  <2>2. \A t : t # s => Using(t)' = Using(t)
    BY <1>3, Zenon DEF Using
  <2>3. Cardinality(Using(s)') = Cardinality(Using(s)) + 1
        /\ Cardinality(Using(s)) \in Nat
    BY <2>1, OneMore, FiniteLocks, Zenon DEF Using
  <2>4. leaked[s] \in Nat
    BY <1>0, Zenon DEF LockTypeOK
  <2>5. e.refs = Cardinality(Using(s)) + leaked[s]
    BY <1>0, Zenon DEF LockIInv, RefsMatchUsers, NewEntry, FindOrCreate
  <2>6. sectors'[s].refs = Cardinality(Using(s)') + leaked'[s]
        /\ Cardinality(Using(s)') + leaked'[s] > 0
    BY <1>3, <1>4, <2>3, <2>4, <2>5
  <2>7. QED
    BY <1>2, <1>3, <2>2, <2>6 DEF LockIInv, RefsMatchUsers
<1>9. NoLostWakeup'
  <2>1. SUFFICES ASSUME NEW m \in Locks, pc'[m] = "asleep"
                 PROVE  ~canLock(m)'
    BY Zenon DEF NoLostWakeup
  <2>2. pc[m] = "asleep" /\ ~canLock(m)
    BY <1>3, <2>1, Zenon DEF LockIInv, NoLostWakeup
  <2>3. LockSector[m] \in DOMAIN sectors
    BY <2>2, EntryPresent, Zenon
  <2>4. sectors'[LockSector[m]].read = sectors[LockSector[m]].read
        /\ sectors'[LockSector[m]].write = sectors[LockSector[m]].write
    BY <1>2, <1>4, <2>3, Zenon DEF FindOrCreate
  <2>5. QED
    BY <2>2, <2>4, Zenon DEF canLock
<1>10. Exclusion'
  <2>1. \A m \in Locks : pc'[m] = "held" => pc[m] = "held"
    BY <1>3, Zenon
  <2>2. QED
    BY <2>1, Zenon DEF LockIInv, Exclusion, Abs!Conflict
<1>11. QED
  BY <1>5, <1>7, <1>8, <1>9, <1>10, Zenon DEF LockIInv

(***************************************************************************)
(* Calls that only move on: a Lock on no file, going to sleep, waking up   *)
(* unasked and a failed storageTryLock, which leaves its reference.        *)
(***************************************************************************)
LEMMA MoveOnStep ==
  ASSUME LockIInv, NEW l \in Locks,
         LockNothing(l) \/ Sleep(l) \/ GiveUp(l) \/ SpuriousWakeup(l)
  PROVE  LockIInv'
<1>1. /\ sectors' = sectors
      /\ \A m \in Locks : m # l => pc'[m] = pc[m]
      /\ pc' \in [Locks -> LockStages]
      /\ pc[l] # "held" /\ pc'[l] # "held"
      /\ pc'[l] = "asleep" => ~canLock(l)
  BY Zenon DEF LockIInv, LockTypeOK, LockStages, LockNothing, Sleep, GiveUp, SpuriousWakeup
<1>2. LockTypeOK'
  <2>1. LockSector[l] \in SectorIds
    BY LocksAssumption, Zenon
  <2>2. leaked' \in [SectorIds -> Nat]
    BY <2>1 DEF LockIInv, LockTypeOK, LockNothing, Sleep, GiveUp, SpuriousWakeup
  <2>3. QED
    BY <1>1, <2>2, Zenon DEF LockIInv, LockTypeOK
<1>3. \A t : Held(t)' = Held(t)
  BY <1>1, Zenon DEF Held
<1>4. CountersMatchHolders'
  <2>1. \A t, f : Readers(t, f)' = Readers(t, f)
    BY <1>3, Zenon DEF Readers
  <2>2. QED
    BY <1>1, <1>3, <2>1, Zenon DEF LockIInv, CountersMatchHolders
<1>5. RefsMatchUsers'
  <2>1. CASE GiveUp(l)
    <3> DEFINE s == LockSector[l]
    <3>1. s \in SectorIds /\ s \in DOMAIN sectors
      BY <2>1, EntryPresent, Zenon DEF GiveUp
    <3>2. Using(s)' = Using(s) \ {l} /\ l \in Using(s) /\ Using(s) \subseteq Locks
      BY <1>1, <2>1, Zenon DEF Using, GiveUp
    <3>3. \A t : t # s => Using(t)' = Using(t)
      BY <1>1, Zenon DEF Using
    <3>4. Cardinality(Using(s)') = Cardinality(Using(s)) - 1
          /\ Cardinality(Using(s)) \in Nat
      BY <3>2, OneLess, FiniteLocks, Zenon
    <3>5. leaked[s] \in Nat /\ leaked'[s] = leaked[s] + 1
      BY <2>1, <3>1, Zenon DEF LockIInv, LockTypeOK, GiveUp
    <3>6. \A t \in SectorIds : t # s => leaked'[t] = leaked[t]
      BY <2>1, Zenon DEF LockIInv, LockTypeOK, GiveUp
    <3>7. Cardinality(Using(s)') + leaked'[s] = Cardinality(Using(s)) + leaked[s]
      BY <3>4, <3>5
    <3>8. QED
      BY <1>1, <3>1, <3>3, <3>6, <3>7 DEF LockIInv, RefsMatchUsers
  <2>2. CASE LockNothing(l) \/ Sleep(l) \/ SpuriousWakeup(l)
    <3>1. leaked' = leaked /\ (pc[l] \in {"counted", "asleep", "held"}
                               <=> pc'[l] \in {"counted", "asleep", "held"})
      BY <2>2, Zenon DEF LockIInv, LockTypeOK, LockNothing, Sleep, SpuriousWakeup
    <3>2. \A t : Using(t)' = Using(t)
      BY <1>1, <3>1, Zenon DEF Using
    <3>3. QED
      BY <1>1, <3>1, <3>2, Zenon DEF LockIInv, RefsMatchUsers
  <2>3. QED
    BY <2>1, <2>2, Zenon
<1>6. NoLostWakeup'
  BY <1>1, Zenon DEF LockIInv, NoLostWakeup, canLock
<1>7. Exclusion'
  <2>1. \A m \in Locks : pc'[m] = "held" => pc[m] = "held"
    BY <1>1, Zenon
  <2>2. QED
    BY <2>1, Zenon DEF LockIInv, Exclusion, Abs!Conflict
<1>8. QED
  BY <1>2, <1>4, <1>5, <1>6, <1>7, Zenon DEF LockIInv

(***************************************************************************)
(* canLock reads counters; by CountersMatchHolders they say that no        *)
(* granted Lock conflicts with l.                                          *)
(***************************************************************************)
LEMMA CanLockNoConflict ==
  ASSUME LockIInv, NEW l \in Locks, pc[l] = "counted", canLock(l),
         NEW m \in Locks, pc[m] = "held"
  PROVE  ~Abs!Conflict(l, m)
<1>1. SUFFICES ASSUME LockSector[m] = LockSector[l]
               PROVE  /\ LockWrite[l] \cap (LockRead[m] \cup LockWrite[m]) = {}
                      /\ LockWrite[m] \cap (LockRead[l] \cup LockWrite[l]) = {}
  BY Zenon DEF Abs!Conflict
<1> DEFINE s == LockSector[l]
<1>2. s \in DOMAIN sectors /\ m \in Held(s)
  BY <1>1, EntryPresent, Zenon DEF Held
<1>3. LockWrite[m] \subseteq sectors[s].write
  BY <1>2 DEF LockIInv, CountersMatchHolders
<1>4. ASSUME NEW f \in LockWrite[l], f \in LockRead[m]
      PROVE  FALSE
  <2>1. f \in FileTypes /\ sectors[s].read[f] = 0
    BY LocksAssumption, Zenon DEF canLock
  <2>2. m \in Readers(s, f) /\ Readers(s, f) \subseteq Locks
    BY <1>2, <1>4, Zenon DEF Readers, Held
  <2>3. Cardinality(Readers(s, f)) # 0
    BY <2>2, FiniteLocks, Zenon
  <2>4. QED
    BY <1>2, <2>1, <2>3, Zenon DEF LockIInv, CountersMatchHolders
<1>5. QED
  BY <1>3, <1>4, Zenon DEF canLock

(***************************************************************************)
(* Granting l adds it to the holders and raises the counters to match.     *)
(***************************************************************************)
LEMMA AcquireStep ==
  ASSUME LockIInv, NEW l \in Locks, Acquire(l)
  PROVE  LockIInv'
<1> DEFINE s == LockSector[l]
<1>0. s \in SectorIds /\ s \in DOMAIN sectors /\ pc[l] = "counted" /\ canLock(l)
  BY EntryPresent, Zenon DEF Acquire
<1>1. /\ sectors' = [sectors EXCEPT ![s] = Granted(l, sectors[s])]
      /\ DOMAIN sectors' = DOMAIN sectors
      /\ sectors'[s] = Granted(l, sectors[s])
      /\ \A t \in DOMAIN sectors : t # s => sectors'[t] = sectors[t]
  BY <1>0, Zenon DEF Acquire, LockIInv, LockTypeOK
<1>2. /\ pc'[l] = "held" /\ pc' \in [Locks -> LockStages]
      /\ \A m \in Locks : m # l => pc'[m] = pc[m]
      /\ leaked' = leaked
  BY Zenon DEF Acquire, LockIInv, LockTypeOK, LockStages
<1>3. sectors[s] \in Entry
  BY <1>0, Zenon DEF LockIInv, LockTypeOK
<1>4. /\ \A f \in FileTypes : sectors'[s].read[f] =
             IF f \in LockRead[l] THEN sectors[s].read[f] + 1 ELSE sectors[s].read[f]
      /\ sectors'[s].write = sectors[s].write \cup LockWrite[l]
      /\ sectors'[s].refs = sectors[s].refs
  BY <1>1 DEF Granted
<1>5. LockTypeOK'
  <2>1. LockWrite[l] \in SUBSET FileTypes
    BY LocksAssumption, Zenon
  <2>2. Granted(l, sectors[s]) \in Entry
    BY <1>3, <2>1 DEF Granted, Entry
  <2>3. sectors' \in [DOMAIN sectors -> Entry]
    BY <1>1, <2>2, Zenon DEF LockIInv, LockTypeOK
  <2>4. QED
    BY <1>1, <1>2, <2>3, Zenon DEF LockIInv, LockTypeOK
<1>6. /\ Held(s)' = Held(s) \cup {l} /\ l \notin Held(s) /\ Held(s) \subseteq Locks
      /\ \A t : t # s => Held(t)' = Held(t)
  BY <1>0, <1>2, Zenon DEF Held
<1>7. CountersMatchHolders'
  <2>1. ASSUME NEW f \in FileTypes
        PROVE  sectors'[s].read[f] = Cardinality(Readers(s, f)')
    <3>1. sectors[s].read[f] = Cardinality(Readers(s, f)) /\ Readers(s, f) \subseteq Locks
      BY <1>0, <1>6, Zenon DEF LockIInv, CountersMatchHolders, Readers
    <3>2. CASE f \in LockRead[l]
      <4>1. Readers(s, f)' = Readers(s, f) \cup {l} /\ l \notin Readers(s, f)
        BY <1>6, <3>2, Zenon DEF Readers
      <4>2. QED
        BY <1>4, <3>1, <3>2, <4>1, OneMore
    <3>3. CASE f \notin LockRead[l]
      <4>1. Readers(s, f)' = Readers(s, f)
        BY <1>6, <3>3, Zenon DEF Readers
      <4>2. QED
        BY <1>4, <3>1, <3>3, <4>1, Zenon
    <3>4. QED
      BY <3>2, <3>3, Zenon
  <2>2. sectors'[s].write = UNION {LockWrite[m] : m \in Held(s)'}
    <3>1. sectors[s].write = UNION {LockWrite[m] : m \in Held(s)}
      BY <1>0, Zenon DEF LockIInv, CountersMatchHolders
    <3>2. QED
      BY <1>4, <1>6, <3>1
  <2>3. \A t, f : t # s => Readers(t, f)' = Readers(t, f)
    BY <1>6, Zenon DEF Readers
  <2>4. QED
    BY <1>1, <1>6, <2>1, <2>2, <2>3 DEF LockIInv, CountersMatchHolders
<1>8. RefsMatchUsers'
  <2>1. \A t : Using(t)' = Using(t)
    BY <1>0, <1>2, Zenon DEF Using
  <2>2. \A t \in DOMAIN sectors : sectors'[t].refs = sectors[t].refs
    BY <1>1, <1>4, Zenon
  <2>3. QED
    BY <1>1, <1>2, <2>1, <2>2, Zenon DEF LockIInv, RefsMatchUsers
<1>9. NoLostWakeup'
  <2>1. SUFFICES ASSUME NEW m \in Locks, pc'[m] = "asleep"
                 PROVE  ~canLock(m)'
    BY Zenon DEF NoLostWakeup
  <2>2. pc[m] = "asleep" /\ ~canLock(m)
    BY <1>2, <2>1, Zenon DEF LockIInv, NoLostWakeup
  <2>3. CASE LockSector[m] # s
    <3>1. sectors'[LockSector[m]] = sectors[LockSector[m]]
      BY <1>1, <2>2, <2>3, EntryPresent, Zenon
    <3>2. QED
      BY <2>2, <3>1, Zenon DEF canLock
  <2>4. CASE LockSector[m] = s
    <3>1. CASE (LockRead[m] \cup LockWrite[m]) \cap sectors[s].write # {}
      BY <1>4, <2>4, <3>1, Zenon DEF canLock
    <3>2. ASSUME NEW f \in LockWrite[m], sectors[s].read[f] # 0
          PROVE  ~canLock(m)'
      <4>1. f \in FileTypes /\ sectors[s].read[f] \in Nat
        BY <1>3, LocksAssumption, Zenon DEF Entry
      <4>2. sectors'[s].read[f] # 0
        BY <1>4, <3>2, <4>1
      <4>3. QED
        BY <2>4, <4>2, Zenon DEF canLock
    <3>3. QED
      BY <2>2, <2>4, <3>1, <3>2, Zenon DEF canLock
  <2>5. QED
    BY <2>3, <2>4, Zenon
<1>10. Exclusion'
  <2>1. SUFFICES ASSUME NEW m \in Locks, NEW n \in Locks, m # n,
                        pc'[m] = "held", pc'[n] = "held"
                 PROVE  ~Abs!Conflict(m, n)
    BY Zenon DEF Exclusion, Abs!Conflict
  <2>2. CASE m # l /\ n # l
    BY <1>2, <2>1, <2>2, Zenon DEF LockIInv, Exclusion
  <2>3. CASE m = l
    BY <1>0, <1>2, <2>1, <2>3, CanLockNoConflict, Zenon
  <2>4. CASE n = l
    <3>1. ~Abs!Conflict(n, m)
      BY <1>0, <1>2, <2>1, <2>4, CanLockNoConflict, Zenon
    <3>2. QED
      BY <3>1, Zenon DEF Abs!Conflict
  <2>5. QED
    BY <2>2, <2>3, <2>4, Zenon
<1>11. QED
  BY <1>5, <1>7, <1>8, <1>9, <1>10, Zenon DEF LockIInv

(***************************************************************************)
(* unlock() takes l out of the holders, lowers the counters to match,      *)
(* wakes every sleeper of the sector and erases an unreferenced entry.     *)
(***************************************************************************)
LEMMA unlockStep ==
  ASSUME LockIInv, NEW l \in Locks, unlock(l)
  PROVE  LockIInv'
<1> DEFINE s == LockSector[l]
           e == Released(l, sectors[s])
<1>0. s \in SectorIds /\ s \in DOMAIN sectors /\ pc[l] = "held"
  BY EntryPresent, Zenon DEF unlock
<1>1. /\ DOMAIN sectors' = IF e.refs = 0 THEN DOMAIN sectors \ {s} ELSE DOMAIN sectors
      /\ s \in DOMAIN sectors' => sectors'[s] = e
      /\ \A t \in DOMAIN sectors : t # s => t \in DOMAIN sectors' /\ sectors'[t] = sectors[t]
      /\ sectors' = [t \in DOMAIN sectors' |-> sectors'[t]]
  BY <1>0, Zenon DEF unlock
<1>2. /\ pc'[l] = "done" /\ pc' \in [Locks -> LockStages]
      /\ \A m \in Locks : m # l /\ ~(pc[m] = "asleep" /\ LockSector[m] = s) => pc'[m] = pc[m]
      /\ \A m \in Locks : m # l /\ pc[m] = "asleep" /\ LockSector[m] = s => pc'[m] = "counted"
      /\ leaked' = leaked
  BY Zenon DEF unlock, LockIInv, LockTypeOK, LockStages
<1>3. sectors[s] \in Entry
  BY <1>0, Zenon DEF LockIInv, LockTypeOK
<1>4. /\ \A f \in FileTypes : e.read[f] =
             IF f \in LockRead[l] THEN sectors[s].read[f] - 1 ELSE sectors[s].read[f]
      /\ e.write = sectors[s].write \ LockWrite[l]
      /\ e.refs = sectors[s].refs - 1
  BY Zenon DEF Released
<1>5. /\ Held(s)' = Held(s) \ {l} /\ l \in Held(s) /\ Held(s) \subseteq Locks
      /\ \A t : t # s => Held(t)' = Held(t)
  BY <1>0, <1>2, Zenon DEF Held
<1>6. ASSUME NEW f \in FileTypes
      PROVE  e.read[f] = Cardinality(Readers(s, f)') /\ e.read[f] \in Nat
  <2>1. sectors[s].read[f] = Cardinality(Readers(s, f)) /\ Readers(s, f) \subseteq Locks
    BY <1>0, <1>5, Zenon DEF LockIInv, CountersMatchHolders, Readers
  <2>2. CASE f \in LockRead[l]
    <3>1. Readers(s, f)' = Readers(s, f) \ {l} /\ l \in Readers(s, f)
      BY <1>5, <2>2, Zenon DEF Readers
    <3>2. QED
      BY <1>4, <2>1, <2>2, <3>1, OneLess, FiniteLocks
  <2>3. CASE f \notin LockRead[l]
    <3>1. Readers(s, f)' = Readers(s, f)
      BY <1>5, <2>3, Zenon DEF Readers
    <3>2. QED
      BY <1>4, <2>1, <2>3, <3>1, FiniteLocks, Zenon
  <2>4. QED
    BY <2>2, <2>3, Zenon
<1>7. e.write = UNION {LockWrite[m] : m \in Held(s)'}
  <2>1. sectors[s].write = UNION {LockWrite[m] : m \in Held(s)}
    BY <1>0, Zenon DEF LockIInv, CountersMatchHolders
  <2>2. \A m \in Held(s) : m # l => LockWrite[m] \cap LockWrite[l] = {}
    BY <1>0, <1>5, Zenon DEF LockIInv, Exclusion, Held, Abs!Conflict
  <2>3. e.write = sectors[s].write \ LockWrite[l]
    BY <1>4, Zenon
  <2>4. \A m \in Held(s)' : m \in Held(s) /\ m # l
    BY <1>5, Zenon
  <2>5. \A m \in Held(s) : m # l => m \in Held(s)'
    BY <1>5, Zenon
  <2> HIDE DEF e, s
  <2>6. ASSUME NEW f \in e.write PROVE \E m \in Held(s)' : f \in LockWrite[m]
    BY <2>1, <2>3, <2>5, Zenon
  <2>7. ASSUME NEW m \in Held(s)', NEW f \in LockWrite[m] PROVE f \in e.write
    BY <2>1, <2>2, <2>3, <2>4, Zenon
  <2>8. QED
    BY <2>6, <2>7, Zenon
<1>8. /\ Using(s)' = Using(s) \ {l} /\ l \in Using(s) /\ Using(s) \subseteq Locks
      /\ \A t : t # s => Using(t)' = Using(t)
  BY <1>0, <1>2, Zenon DEF Using
<1>9. /\ e.refs = Cardinality(Using(s)') + leaked'[s]
      /\ e.refs \in Nat
  <2>1. sectors[s].refs = Cardinality(Using(s)) + leaked[s] /\ leaked[s] \in Nat
    BY <1>0, Zenon DEF LockIInv, RefsMatchUsers, LockTypeOK
  <2>2. /\ Cardinality(Using(s)') = Cardinality(Using(s)) - 1
        /\ Cardinality(Using(s)) \in Nat /\ Cardinality(Using(s)) > 0
    BY <1>8, OneLess, FiniteLocks, Zenon
  <2>3. QED
    BY <1>2, <1>4, <2>1, <2>2
<1>10. LockTypeOK'
  <2>1. e.write \in SUBSET FileTypes
    BY <1>3, <1>4, Zenon DEF Entry
  <2>2. e.read \in [FileTypes -> Nat]
    <3>1. e.read = [f \in FileTypes |-> e.read[f]]
      BY Zenon DEF Released
    <3>2. QED
      BY <1>6, <3>1, Zenon
  <2>3. e \in Entry
    <3>1. e = [read |-> e.read, write |-> e.write, refs |-> e.refs]
      BY Zenon DEF Released
    <3>2. QED
      BY <1>9, <2>1, <2>2, <3>1, Zenon DEF Entry
  <2>4. \A t \in DOMAIN sectors' : sectors'[t] \in Entry /\ t \in SectorIds
    BY <1>0, <1>1, <2>3 DEF LockIInv, LockTypeOK
  <2>5. QED
    BY <1>1, <1>2, <2>4, Zenon DEF LockIInv, LockTypeOK
<1>11. CountersMatchHolders'
  <2>1. \A t, f : t # s => Readers(t, f)' = Readers(t, f)
    BY <1>5, Zenon DEF Readers
  <2>2. QED
    BY <1>1, <1>5, <1>6, <1>7, <2>1 DEF LockIInv, CountersMatchHolders
<1>12. RefsMatchUsers'
  <2>1. SUFFICES ASSUME NEW t \in SectorIds
                 PROVE  IF t \in DOMAIN sectors'
                          THEN /\ sectors'[t].refs = Cardinality(Using(t)') + leaked'[t]
                               /\ Cardinality(Using(t)') + leaked'[t] > 0
                          ELSE Cardinality(Using(t)') + leaked'[t] = 0
    BY Zenon DEF RefsMatchUsers
  <2>2. CASE t = s
    BY <1>0, <1>1, <1>9, <2>2
  <2>3. CASE t # s
    <3>1. /\ t \in DOMAIN sectors' <=> t \in DOMAIN sectors
          /\ t \in DOMAIN sectors => sectors'[t] = sectors[t]
      BY <1>1, <2>3, Zenon
    <3>2. QED
      BY <1>2, <1>8, <2>3, <3>1, Zenon DEF LockIInv, RefsMatchUsers
  <2>4. QED
    BY <2>2, <2>3, Zenon
<1>13. NoLostWakeup'
  <2>1. SUFFICES ASSUME NEW m \in Locks, pc'[m] = "asleep"
                 PROVE  ~canLock(m)'
    BY Zenon DEF NoLostWakeup
  <2>2. pc[m] = "asleep" /\ ~canLock(m) /\ LockSector[m] # s
    BY <1>2, <2>1, Zenon DEF LockIInv, NoLostWakeup
  <2>3. sectors'[LockSector[m]] = sectors[LockSector[m]]
    BY <1>1, <2>2, EntryPresent, Zenon
  <2>4. QED
    BY <2>2, <2>3, Zenon DEF canLock
<1>14. Exclusion'
  <2>1. \A m \in Locks : pc'[m] = "held" => pc[m] = "held"
    BY <1>2, Zenon
  <2>2. QED
    BY <2>1, Zenon DEF LockIInv, Exclusion, Abs!Conflict
<1>15. QED
  BY <1>10, <1>11, <1>12, <1>13, <1>14, Zenon DEF LockIInv

\* The invariant is inductive: one case for each critical section of a lock call.
LEMMA LockNextIInv == LockIInv /\ [LockNext]_lockVars => LockIInv'
<1> SUFFICES ASSUME LockIInv, [LockNext]_lockVars PROVE LockIInv'
  BY Zenon
<1>1. ASSUME NEW l \in Locks, CountIn(l) PROVE LockIInv'
  BY <1>1, CountInStep, Zenon
<1>2. ASSUME NEW l \in Locks, LockNothing(l) \/ Sleep(l) \/ GiveUp(l) \/ SpuriousWakeup(l)
      PROVE  LockIInv'
  BY <1>2, MoveOnStep, Zenon
<1>3. ASSUME NEW l \in Locks, Acquire(l) PROVE LockIInv'
  BY <1>3, AcquireStep, Zenon
<1>4. ASSUME NEW l \in Locks, unlock(l) PROVE LockIInv'
  BY <1>4, unlockStep, Zenon
<1>5. CASE UNCHANGED lockVars
  BY <1>5 DEF lockVars, LockIInv, LockTypeOK, CountersMatchHolders, RefsMatchUsers, NoLostWakeup,
              Exclusion, Held, Readers, Using, canLock, Abs!Conflict
<1>6. QED
  BY <1>1, <1>2, <1>3, <1>4, <1>5, Zenon DEF LockNext

(***************************************************************************)
(* Type correctness and the safety of the locks: in every behaviour of     *)
(* lock() and unlock(), for every finite set of Locks, the counters match  *)
(* the holders, entries live as long as they are used, no wakeup is lost   *)
(* and no two conflicting Locks are granted together.                      *)
(***************************************************************************)
THEOREM LockInvariance == LockSpec => []LockIInv
<1>1. LockIInv /\ [LockNext]_lockVars => LockIInv'
  BY LockNextIInv, Zenon
<1>2. QED
  BY LockInitIInv, <1>1, PTL DEF LockSpec

\* Type correctness of the map, the call stages and the leak count.
THEOREM LockTypeCorrect == LockSpec => []LockTypeOK
<1>1. LockIInv => LockTypeOK
  BY Zenon DEF LockIInv
<1>2. QED
  BY LockInvariance, <1>1, PTL

\* Conflicting Locks are never granted together.
THEOREM MutualExclusion == LockSpec => []Exclusion
<1>1. LockIInv => Exclusion
  BY Zenon DEF LockIInv
<1>2. QED
  BY LockInvariance, <1>1, PTL

\* The entry that lock() refers to across its two mutexes is never erased.
THEOREM NoDanglingEntry == LockSpec => []RefsMatchUsers
<1>1. LockIInv => RefsMatchUsers
  BY Zenon DEF LockIInv
<1>2. QED
  BY LockInvariance, <1>1, PTL

\* A thread asleep in cv.wait could not have locked.
THEOREM NoWakeupLost == LockSpec => []NoLostWakeup
<1>1. LockIInv => NoLostWakeup
  BY Zenon DEF LockIInv
<1>2. QED
  BY LockInvariance, <1>1, PTL

(***************************************************************************)
(* Entries are erased and sleepers woken as lock() and unlock() need,      *)
(* whatever order the threads take.                                        *)
(***************************************************************************)
THEOREM Soundness == LockSpec => []LocksAreSound
<1>1. LockIInv => LocksAreSound
  BY Zenon DEF LockIInv, LocksAreSound
<1>2. QED
  BY LockInvariance, <1>1, PTL

(***************************************************************************)
(* index_lock.cpp implements SectorLock: Acquire is Grant, unlock is       *)
(* Release, and every other step leaves the set of granted Locks alone.    *)
(***************************************************************************)
THEOREM Refinement == LockSpec => ImplementsSectorLock
<1> DEFINE granted == {l \in Locks : pc[l] = "held"}
<1>1. LockInit => Abs!Init
  BY Zenon DEF LockInit, Abs!Init
<1>2. ASSUME LockIInv, [LockNext]_lockVars
      PROVE  [Abs!Next]_granted
  <2>1. ASSUME NEW l \in Locks, Acquire(l)
        PROVE  Abs!Next
    <3>1. pc[l] = "counted" /\ canLock(l) /\ pc' = [pc EXCEPT ![l] = "held"]
          /\ pc \in [Locks -> LockStages]
      BY <1>2, <2>1, Zenon DEF Acquire, LockIInv, LockTypeOK
    <3>2. \A m \in granted : ~Abs!Conflict(l, m)
      BY <1>2, <3>1, CanLockNoConflict, Zenon
    <3>3. granted' = granted \cup {l} /\ l \notin granted
      BY <3>1, Zenon
    <3>4. Abs!Grant(l)
      BY <3>2, <3>3, Zenon DEF Abs!Grant
    <3>5. QED
      BY <3>4, Zenon DEF Abs!Next
  <2>2. ASSUME NEW l \in Locks, unlock(l)
        PROVE  Abs!Next
    <3>1. l \in granted /\ granted' = granted \ {l}
      BY <2>2, Zenon DEF unlock
    <3>2. Abs!Release(l)
      BY <3>1, Zenon DEF Abs!Release
    <3>3. QED
      BY <3>2, Zenon DEF Abs!Next
  <2>3. ASSUME NEW l \in Locks,
               CountIn(l) \/ LockNothing(l) \/ Sleep(l) \/ GiveUp(l) \/ SpuriousWakeup(l)
        PROVE  granted' = granted
    BY <1>2, <2>3, Zenon DEF LockIInv, LockTypeOK, CountIn, LockNothing, Sleep, GiveUp, SpuriousWakeup
  <2>4. CASE UNCHANGED lockVars
    BY <2>4, Zenon DEF lockVars
  <2>5. QED
    BY <1>2, <2>1, <2>2, <2>3, <2>4, Zenon DEF LockNext
<1>3. QED
  BY LockInvariance, <1>1, <1>2, PTL DEF LockSpec, ImplementsSectorLock, Abs!Spec
=============================================================================
