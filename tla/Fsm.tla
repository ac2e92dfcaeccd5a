-------------------------------- MODULE Fsm ---------------------------------
(***************************************************************************)
(* The event-driven state machine engine (core/fsm/fsm.hpp) that runs the  *)
(* sealing pipeline and both sides of the storage market.                  *)
(*                                                                         *)
(* send() may be called by any thread, and by the actions and callbacks    *)
(* of a transition; it posts a tick only when it finds the queue empty.    *)
(* A tick runs on the one thread of the io_context.  It takes its event    *)
(* and posts the next tick under the queue's mutex, then works without     *)
(* it: TickBegin, TickApply or TickUnmatched, and, when the state changed, *)
(* the any-change callback, which may call force().                        *)
(***************************************************************************)
EXTENDS Naturals, Sequences

CONSTANTS
  Sends,              \* calls of send(), each made once
  Entities, EntityOf, \* the entity each call is about
  Events, EventOf,    \* the event each call sends
  States, InitialState,
  Rules,              \* the transition rules, one record per source state
  AnyState,           \* the source of a rule made by fromAny
  ForceState          \* force() is called when an entity enters this state

Rule == [event: Events, from: States \cup {AnyState}, to: States]

(***************************************************************************)
(* validateTransitionRules: an event has one fromAny rule, or at most one  *)
(* rule per source state.                                                  *)
(***************************************************************************)
validateTransitionRules ==
  \A r, q \in Rules :
    r.event = q.event /\ (r.from = q.from \/ r.from = AnyState) => r = q

ASSUME FsmAssumption ==
  /\ EntityOf \in [Sends -> Entities]
  /\ EventOf \in [Sends -> Events]
  /\ AnyState \notin States
  /\ InitialState \in States
  /\ Rules \subseteq Rule
  /\ validateTransitionRules

VARIABLES
  running,        \* *running_
  discard_event,  \* discard_event_, fixed by createFsm
  states,         \* states_: the tracked entities' states
  event_queue,    \* event_queue_
  ticks,          \* posted calls of tick()
  current,        \* the tick being run
  sent, handled,  \* history: calls of send() in order; events done with
  applied         \* history: the events that caused a transition

fsmVars == <<running, discard_event, states, event_queue, ticks, current, sent, handled, applied>>

Idle == [stage |-> "idle"]

Reading(s, st) == [stage |-> "reading", send |-> s, source |-> st]

Changed(s, st) == [stage |-> "changed", send |-> s, source |-> st]

NoState == "no state"

InList(s, q) == \E i \in 1..Len(q) : q[i] = s

FsmInit ==
  /\ running = TRUE
  /\ discard_event \in BOOLEAN
  /\ states = [e \in {} |-> InitialState]
  /\ event_queue = <<>>
  /\ ticks = 0
  /\ current = Idle
  /\ sent = <<>>
  /\ handled = <<>>
  /\ applied = {}

\* begin: an entity tracked already is refused.
begin(e) ==
  /\ e \notin DOMAIN states
  /\ states' = [d \in DOMAIN states \cup {e} |-> IF d = e THEN InitialState ELSE states[d]]
  /\ UNCHANGED <<running, discard_event, event_queue, ticks, current, sent, handled, applied>>

\* Mutant: the new event is put before the waiting ones.
sendInFront(s) ==
  /\ running
  /\ ~InList(s, sent)
  /\ event_queue' = <<s>> \o event_queue
  /\ ticks' = IF event_queue = <<>> THEN ticks + 1 ELSE ticks
  /\ sent' = Append(sent, s)
  /\ UNCHANGED <<running, discard_event, states, current, handled, applied>>

send(s) ==
  /\ running
  /\ ~InList(s, sent)
  /\ event_queue' = Append(event_queue, s)
  /\ ticks' = IF event_queue = <<>> THEN ticks + 1 ELSE ticks
  /\ sent' = Append(sent, s)
  /\ UNCHANGED <<running, discard_event, states, current, handled, applied>>

stop ==
  /\ running
  /\ running' = FALSE
  /\ UNCHANGED <<discard_event, states, event_queue, ticks, current, sent, handled, applied>>

\* A posted tick that finds the machine stopped does nothing.
TickStopped ==
  /\ ticks > 0
  /\ current = Idle
  /\ ~running
  /\ ticks' = ticks - 1
  /\ UNCHANGED <<running, discard_event, states, event_queue, current, sent, handled, applied>>

\* Mutant: an untracked entity's event is processed with no source state.
TickBeginUntracked ==
  LET s == Head(event_queue)
      tracked == EntityOf[s] \in DOMAIN states
  IN /\ ticks > 0
     /\ current = Idle
     /\ running
     /\ event_queue' = Tail(event_queue)
     /\ ticks' = IF Tail(event_queue) = <<>> THEN ticks - 1 ELSE ticks
     /\ current' = Reading(s, IF tracked THEN states[EntityOf[s]] ELSE NoState)
     /\ UNCHANGED <<handled, running, discard_event, states, sent, applied>>

\* Mutant: the next tick is not posted.
TickBeginOnce ==
  LET s == Head(event_queue)
      tracked == EntityOf[s] \in DOMAIN states
  IN /\ ticks > 0
     /\ current = Idle
     /\ running
     /\ event_queue' = Tail(event_queue)
     /\ ticks' = ticks - 1
     /\ current' = IF tracked THEN Reading(s, states[EntityOf[s]]) ELSE Idle
     /\ handled' = IF tracked THEN handled ELSE Append(handled, s)
     /\ UNCHANGED <<running, discard_event, states, sent, applied>>

(***************************************************************************)
(* The start of tick(): the first event is taken, the next tick is posted  *)
(* when there are more, and the entity's state is copied.  The event of an *)
(* entity that is not tracked is forgotten.                                *)
(***************************************************************************)
TickBegin ==
  LET s == Head(event_queue)
      tracked == EntityOf[s] \in DOMAIN states
  IN /\ ticks > 0
     /\ current = Idle
     /\ running
     /\ event_queue' = Tail(event_queue)
     /\ ticks' = IF Tail(event_queue) = <<>> THEN ticks - 1 ELSE ticks
     /\ current' = IF tracked THEN Reading(s, states[EntityOf[s]]) ELSE Idle
     /\ handled' = IF tracked THEN handled ELSE Append(handled, s)
     /\ UNCHANGED <<running, discard_event, states, sent, applied>>

\* The rules for the event in the source state; validated to be at most one.
dispatch(s, source) ==
  {r \in Rules : r.event = EventOf[s] /\ (r.from = AnyState \/ r.from = source)}

(***************************************************************************)
(* A rule matches: its action has run, and the state is set.               *)
(***************************************************************************)
TickApply ==
  /\ current.stage = "reading"
  /\ \E r \in dispatch(current.send, current.source) :
       states' = [states EXCEPT ![EntityOf[current.send]] = r.to]
  /\ current' = Changed(current.send, current.source)
  /\ applied' = applied \cup {current.send}
  /\ UNCHANGED <<running, discard_event, event_queue, ticks, sent, handled>>

\* force(), called by the any-change callback of the sealing machine.
force(st) ==
  LET e == EntityOf[current.send] IN
  /\ current.stage = "changed"
  /\ states[e] = ForceState
  /\ states' = [states EXCEPT ![e] = st]
  /\ UNCHANGED <<running, discard_event, event_queue, ticks, current, sent, handled, applied>>

\* The any-change callback returns, and so does tick().
TickEnd ==
  /\ current.stage = "changed"
  /\ states[EntityOf[current.send]] # ForceState
  /\ current' = Idle
  /\ handled' = Append(handled, current.send)
  /\ UNCHANGED <<running, discard_event, states, event_queue, ticks, sent, applied>>

(***************************************************************************)
(* No rule matches: the event is discarded, or put back into the queue (no *)
(* tick is posted for it).                                                 *)
(***************************************************************************)
TickUnmatched ==
  /\ current.stage = "reading"
  /\ dispatch(current.send, current.source) = {}
  /\ current' = Idle
  /\ \/ /\ discard_event
        /\ handled' = Append(handled, current.send)
        /\ UNCHANGED event_queue
     \/ /\ ~discard_event
        /\ event_queue' = Append(event_queue, current.send)
        /\ UNCHANGED handled
  /\ UNCHANGED <<running, discard_event, states, ticks, sent, applied>>

tick == TickStopped \/ TickBegin \/ TickApply \/ TickEnd \/ TickUnmatched \/ \E st \in States \ {ForceState} : force(st)

FsmNext == (\E e \in Entities : begin(e)) \/ (\E s \in Sends : send(s)) \/ stop \/ tick

FsmSpec == FsmInit /\ [][FsmNext]_fsmVars

\* The io_context's thread runs what is posted; nobody has to send or stop.
FsmFairness == WF_fsmVars(tick)
-----------------------------------------------------------------------------
InProgress == IF current = Idle THEN <<>> ELSE <<current.send>>

\* The source state of a running tick was copied from a tracked entity.
FsmTypeOK ==
  /\ running \in BOOLEAN
  /\ discard_event \in BOOLEAN
  /\ DOMAIN states \subseteq Entities
  /\ states \in [DOMAIN states -> States]
  /\ event_queue \in Seq(Sends)
  /\ ticks \in Nat
  /\ \/ current = Idle
     \/ \E s \in Sends, st \in States :
          current \in {Reading(s, st), Changed(s, st)} /\ EntityOf[s] \in DOMAIN states
  /\ sent \in Seq(Sends)
  /\ handled \in Seq(Sends)
  /\ applied \in SUBSET Sends

(***************************************************************************)
(* A posted tick always finds an event, so tick() never takes the front of *)
(* an empty queue, whatever send() calls come between the two critical     *)
(* sections of a tick.                                                     *)
(***************************************************************************)
TickFindsEvent == running => ticks <= 1 /\ (ticks = 1 => event_queue # <<>>)

(***************************************************************************)
(* With discard_event, events that wait have a tick posted: it is enough   *)
(* that send() posts one for the first and tick() one for the next.        *)
(***************************************************************************)
QueueIsServed == discard_event /\ running /\ event_queue # <<>> => ticks = 1

(***************************************************************************)
(* With discard_event, events are handled in the order of the send()       *)
(* calls, across all entities, and none is lost or handled twice.          *)
(***************************************************************************)
HandledInOrder == discard_event => sent = handled \o InProgress \o event_queue

(***************************************************************************)
(* Both: no event is left without a tick and none overtakes another (send  *)
(* and tick with discard_event).                                           *)
(***************************************************************************)
EventsInOrder == QueueIsServed /\ HandledInOrder

(***************************************************************************)
(* A tracked entity changes its state only by a rule for the event being   *)
(* handled, from the state it is in at that moment (the copy tick() made   *)
(* is not stale when the result is written), or by force().                *)
(***************************************************************************)
ChangesFollowRules ==
  [][\A e \in DOMAIN states :
       states'[e] # states[e] =>
         /\ current # Idle
         /\ EntityOf[current.send] = e
         /\ \/ \E r \in Rules : /\ r.event = EventOf[current.send]
                                /\ r.from \in {AnyState, states[e]}
                                /\ r.to = states'[e]
            \/ states[e] = ForceState]_fsmVars

(***************************************************************************)
(* With discard_event every accepted event is handled at last, unless the  *)
(* machine is stopped.                                                     *)
(***************************************************************************)
SentIsHandled ==
  \A s \in Sends : discard_event /\ InList(s, sent) ~> InList(s, handled) \/ ~running
=============================================================================
