--------------------------- MODULE EventProcessor ---------------------------
(***************************************************************************)
(* The event queues of src/src/common/Utilities/EventProcessor.cpp.  Every *)
(* unit owns one: a multimap from a time to the events due at that time,   *)
(* which Update empties up to the present and KillAllEvents walks through. *)
(* Both call Execute or Abort of an event, and those may call anything:    *)
(* AddEvent, ScheduleAbort, ModifyEventTime and KillAllEvents again.       *)
(*                                                                         *)
(* A time is kept relative to m_time of its queue, and what is overdue is  *)
(* due at 0.  The events of one map are touched by one thread only, so the *)
(* steps are the calls and the bodies of the two loops.                    *)
(***************************************************************************)
EXTENDS Integers, SequencesExt

CONSTANTS Owner, Event,
          Deferrable,           \* the SpellEvents, whose IsDeletable may be false
          MaxOffset,            \* how far ahead an event can be planned
          NoOwner, NoEvent

ASSUME EventAssumption ==
  /\ Deferrable \subseteq Event
  /\ MaxOffset \in Nat \ {0}
  /\ NoOwner \notin Owner /\ NoEvent \notin Event

VARIABLES events,               \* m_events of an owner, in the order of the multimap
          due,                  \* m_execTime of an event minus m_time of its queue
          abortState,           \* m_abortState of an event, "none" when it is deleted
          busy,                 \* events that are not deletable now
          updating,             \* the owner inside Update
          hand,                 \* the event Update took out, and the callback it runs
          kill                  \* KillAllEvents: its owner, force, the entries it left behind,
                                \* the event it aborts, and (history) what was added since it began

eventVars == <<events, due, abortState, busy, updating, hand, kill>>

Offset == 0 .. MaxOffset
Callback == {"none", "Execute", "Abort"}
NoHand == [event |-> NoEvent, call |-> "none"]
NoKill == [owner |-> NoOwner, force |-> FALSE, passed |-> 0, event |-> NoEvent, fresh |-> {}]

EventTypeOK ==
  /\ events \in [Owner -> Seq(Event)]
  /\ due \in [Event -> Offset]
  /\ abortState \in [Event -> {"none", "running", "scheduled", "aborted"}]
  /\ busy \subseteq Deferrable
  /\ updating \in Owner \cup {NoOwner}
  /\ hand \in [event : Event \cup {NoEvent}, call : Callback]
  /\ kill \in [owner : Owner \cup {NoOwner}, force : BOOLEAN, passed : Nat,
               event : Event \cup {NoEvent}, fresh : SUBSET Event]

EventInit ==
  /\ events = [o \in Owner |-> <<>>]
  /\ due = [e \in Event |-> 0]
  /\ abortState = [e \in Event |-> "none"]
  /\ busy = {}
  /\ updating = NoOwner /\ hand = NoHand /\ kill = NoKill

Held(o) == ToSet(events[o])
Updating(o) == updating = o /\ o # NoOwner /\ hand = NoHand /\ kill = NoKill

(* Other code runs outside of both loops, and inside of a callback. *)
Callable ==
  IF kill.owner # NoOwner THEN kill.event # NoEvent
  ELSE updating = NoOwner \/ hand.event # NoEvent

-----------------------------------------------------------------------------
(* What a call leaves in the variables. *)

(* Fault: the new entry goes before those of the same time. *)
PlaceFirst(s, t, i) ==
  /\ \A j \in 1 .. i - 1 : due[s[j]] < t
  /\ \A j \in i .. Len(s) : due[s[j]] >= t

(* multimap::insert: behind every entry that is due as early. *)
PlaceOf(s, t, i) ==
  /\ \A j \in 1 .. i - 1 : due[s[j]] <= t
  /\ \A j \in i .. Len(s) : due[s[j]] > t

(* An entry for event e in the queue s of o: the iterator of a KillAllEvents *)
(* on that queue stays on its entry.                                         *)
Insert(o, s, e, t) ==
  \E i \in 1 .. Len(s) + 1 :
    /\ PlaceOf(s, t, i)
    /\ events' = [events EXCEPT ![o] = InsertAt(s, i, e)]
    /\ due' = [due EXCEPT ![e] = t]
    /\ kill' = IF kill.owner # o THEN kill
               ELSE [kill EXCEPT !.passed = IF i <= @ + 1 THEN @ + 1 ELSE @,
                                 !.fresh = @ \cup {e}]

(* ScheduleAbort for the events of S. *)
Scheduled(S) == [e \in Event |-> IF e \in S THEN "scheduled" ELSE abortState[e]]

(* AddEvent(e) to the queue of o, by a caller that schedules the abort of S *)
(* as well.                                                                 *)
AddEvent(o, e, t, S) ==
  /\ abortState' = [Scheduled(S) EXCEPT ![e] = IF e \in S THEN "scheduled" ELSE "running"]
  /\ Insert(o, events[o], e, t)
  /\ UNCHANGED <<busy, updating, hand>>

ScheduleAborts(S) ==
  /\ abortState' = Scheduled(S)
  /\ UNCHANGED <<events, due, busy, updating, hand, kill>>

(* Update takes out the first event and calls Execute or Abort. *)
Pop(o, call, S) ==
  /\ events' = [events EXCEPT ![o] = Tail(@)]
  /\ hand' = [event |-> Head(events[o]), call |-> call]
  /\ abortState' = Scheduled(S)
  /\ UNCHANGED <<due, busy, updating, kill>>

(* KillAllEvents(force), by a caller that schedules the abort of S as well. *)
(* The unit whose destructor forces it lets go of its spells first.         *)
StartKill(o, force, S) ==
  /\ kill' = [NoKill EXCEPT !.owner = o, !.force = force]
  /\ abortState' = Scheduled(S)
  /\ busy' = IF force THEN busy \ Held(o) ELSE busy
  /\ UNCHANGED <<events, due, updating, hand>>

(* Where KillAllEvents stands. *)
Walking(o) == kill.owner = o /\ o # NoOwner /\ kill.passed < Len(events[o])
Current(o) == events[o][kill.passed + 1]

(* The event of the iterator is aborted, and then its Abort called. *)
CallAbort(o, S) ==
  /\ kill' = [kill EXCEPT !.event = Current(o)]
  /\ abortState' = [e \in Event |-> IF e = Current(o) /\ e \notin S THEN "aborted" ELSE Scheduled(S)[e]]
  /\ UNCHANGED <<events, due, busy, updating, hand>>

-----------------------------------------------------------------------------
(* The steps of any caller.  A caller may schedule the abort of running     *)
(* events only, and deletes no event behind the queue's back.               *)

Running == {e \in Event : abortState[e] = "running"}

Add(o, e, t, S) ==
  /\ Callable
  /\ abortState[e] = "none"
  /\ ~(kill.owner = o /\ kill.force)
  /\ (S \ {e}) \subseteq Running
  /\ AddEvent(o, e, t, S)

Schedule(S) ==
  /\ Callable
  /\ S \subseteq Running
  /\ ScheduleAborts(S)

(* ModifyEventTime: nothing happens when the event is not in the queue. *)
ModifyEventTime(o, e, t) ==
  /\ Callable
  /\ kill.owner # o
  /\ \E i \in 1 .. Len(events[o]) :
       /\ events[o][i] = e
       /\ Insert(o, RemoveAt(events[o], i), e, t)
  /\ UNCHANGED <<abortState, busy, updating, hand>>

(* A spell is referenced, or executed, and its event cannot be deleted. *)
SetBusy(e) ==
  /\ Callable
  /\ e \in Deferrable /\ abortState[e] # "none"
  /\ ~kill.force
  /\ busy' = busy \cup {e}
  /\ UNCHANGED <<events, due, abortState, updating, hand, kill>>

ClearBusy(e) ==
  /\ Callable
  /\ e \in busy
  /\ busy' = busy \ {e}
  /\ UNCHANGED <<events, due, abortState, updating, hand, kill>>

(* Update(d). *)
BeginUpdate(o, d) ==
  /\ updating = NoOwner /\ kill = NoKill
  /\ updating' = o
  /\ due' = [e \in Event |-> IF e \notin Held(o) THEN due[e]
                             ELSE IF due[e] > d THEN due[e] - d ELSE 0]
  /\ UNCHANGED <<events, abortState, busy, hand, kill>>

FirstIs(o, state) ==
  /\ Updating(o)
  /\ events[o] # <<>>
  /\ due[Head(events[o])] = 0
  /\ abortState[Head(events[o])] = state

Execute(o, S) ==
  /\ FirstIs(o, "running")
  /\ S \subseteq Running
  /\ Pop(o, "Execute", S)

Abort(o, S) ==
  /\ FirstIs(o, "scheduled")
  /\ S \subseteq Running
  /\ Pop(o, "Abort", S)

(* The callback has returned. *)
Returns(call) ==
  /\ hand.call = call
  /\ kill = NoKill
  /\ hand' = NoHand

(* Execute returned true. *)
Finish ==
  /\ Returns("Execute")
  /\ hand.event \notin busy
  /\ abortState' = [abortState EXCEPT ![hand.event] = "none"]
  /\ UNCHANGED <<events, due, busy, updating, kill>>

(* Execute has added its event again, and returned false. *)
Again(t) ==
  /\ Returns("Execute")
  /\ t > 0
  /\ Insert(updating, events[updating], hand.event, t)
  /\ UNCHANGED <<abortState, busy, updating>>

(* An aborted event that is not deletable is looked at again in the next Update. *)
Delete(o, s, e) ==
  /\ e \notin busy
  /\ abortState' = [abortState EXCEPT ![e] = "none"]
  /\ events' = [events EXCEPT ![o] = s]
  /\ UNCHANGED <<due, kill>>

Retry(o, s, e) ==
  /\ e \in busy
  /\ abortState' = [abortState EXCEPT ![e] = "aborted"]
  /\ Insert(o, s, e, 1)

FinishAbort ==
  /\ Returns("Abort")
  /\ Delete(updating, events[updating], hand.event)
  /\ UNCHANGED <<busy, updating>>

RetryAbort ==
  /\ Returns("Abort")
  /\ Retry(updating, events[updating], hand.event)
  /\ UNCHANGED <<busy, updating>>

Discard(o) ==
  /\ FirstIs(o, "aborted")
  /\ \/ Delete(o, Tail(events[o]), Head(events[o]))
     \/ Retry(o, Tail(events[o]), Head(events[o]))
  /\ UNCHANGED <<busy, updating, hand>>

EndUpdate(o) ==
  /\ Updating(o)
  /\ events[o] # <<>> => due[Head(events[o])] > 0
  /\ updating' = NoOwner
  /\ UNCHANGED <<events, due, abortState, busy, hand, kill>>

(* KillAllEvents: from the code that removes or deletes a unit, and from a *)
(* callback of Update when it does not force.                              *)
BeginKill(o, force, S) ==
  /\ kill = NoKill
  /\ updating = NoOwner \/ (hand.event # NoEvent /\ ~force)
  /\ S \subseteq Running
  /\ StartKill(o, force, S)

KillAbort(o, S) ==
  /\ Walking(o) /\ kill.event = NoEvent
  /\ abortState[Current(o)] # "aborted"
  /\ S \subseteq Running /\ Current(o) \notin S
  /\ CallAbort(o, S)

(* The event is deleted, or left in the queue when it is not deletable. *)
KillDispose(o) ==
  /\ Walking(o)
  /\ abortState[Current(o)] = "aborted"
  /\ \/ /\ kill.force \/ Current(o) \notin busy
        /\ events' = [events EXCEPT ![o] = RemoveAt(@, kill.passed + 1)]
        /\ abortState' = [abortState EXCEPT ![Current(o)] = "none"]
        /\ kill' = [kill EXCEPT !.event = NoEvent, !.fresh = @ \ {Current(o)}]
     \/ /\ ~kill.force /\ Current(o) \in busy
        /\ kill' = [kill EXCEPT !.event = NoEvent, !.passed = @ + 1]
        /\ UNCHANGED <<events, abortState>>
  /\ UNCHANGED <<due, busy, updating, hand>>

EndKill(o) ==
  /\ kill.owner = o /\ o # NoOwner
  /\ kill.passed = Len(events[o])
  /\ kill' = NoKill
  /\ UNCHANGED <<events, due, abortState, busy, updating, hand>>

EventNext ==
  \/ \E S \in SUBSET Running : Schedule(S)
  \/ \E e \in Event : SetBusy(e) \/ ClearBusy(e)
  \/ \E t \in Offset : Again(t)
  \/ Finish \/ FinishAbort \/ RetryAbort
  \/ \E o \in Owner :
       \/ \E e \in Event, t \in Offset : \E S \in SUBSET (Running \cup {e}) : Add(o, e, t, S)
       \/ \E e \in Event, t \in Offset : ModifyEventTime(o, e, t)
       \/ \E d \in Offset : BeginUpdate(o, d)
       \/ \E S \in SUBSET Running : Execute(o, S) \/ Abort(o, S) \/ KillAbort(o, S)
       \/ \E force \in BOOLEAN, S \in SUBSET Running : BeginKill(o, force, S)
       \/ Discard(o) \/ EndUpdate(o) \/ KillDispose(o) \/ EndKill(o)

EventSpec == EventInit /\ [][EventNext]_eventVars

-----------------------------------------------------------------------------
(* An event that is not deleted is in exactly one queue, once, or in the    *)
(* hand of Update; what is deleted is nowhere.                              *)
EventsAreHeldOnce ==
  /\ \A o \in Owner : \A i, j \in 1 .. Len(events[o]) : events[o][i] = events[o][j] => i = j
  /\ \A o, q \in Owner : o # q => Held(o) \cap Held(q) = {}
  /\ \A e \in Event : abortState[e] # "none" <=> (e = hand.event \/ \E o \in Owner : e \in Held(o))
  /\ \A o \in Owner : hand.event \notin Held(o)

(* A queue is in the order in which its events are due. *)
InTimeOrder ==
  \A o \in Owner : \A i, j \in 1 .. Len(events[o]) :
    i < j => due[events[o][i]] <= due[events[o][j]]

(* KillAllEvents leaves nothing behind that was there when it began and is  *)
(* not aborted, whatever its callbacks add.                                 *)
KillReachesEveryEvent ==
  \A o \in Owner : kill.owner = o =>
    \A i \in 1 .. kill.passed :
      abortState[events[o][i]] = "aborted" \/ events[o][i] \in kill.fresh

(* An aborted event is never executed or aborted again: it can only be deleted. *)
AbortIsFinal ==
  [][\A e \in Event : abortState[e] = "aborted" =>
       abortState'[e] \in {"aborted", "none"} /\ hand'.event # e]_eventVars
=============================================================================
