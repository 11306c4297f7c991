----------------------------- MODULE VehicleJoin -----------------------------
(***************************************************************************)
(* Boarding a vehicle, src/src/server/game/Entities/Vehicle/Vehicle.cpp.   *)
(* A unit that rides casts a single-target aura on the vehicle; the aura's *)
(* handler plans a VehicleJoinEvent in the event queue of the passenger    *)
(* and the event, if nothing aborts it, takes the seat.  Until then it is  *)
(* in _pendingJoinEvents of the vehicle, by a bare pointer.  The aura, the *)
(* seat, m_vehicle of the passenger, the pending list and the event end in *)
(* different orders when somebody leaves, dies, is ejected by another, is  *)
(* removed from the world or when the vehicle goes.                        *)
(*                                                                         *)
(* The owners of EventProcessor are the passengers; an event is a join or  *)
(* (Deferrable) a spell of the passenger, in which any of the calls below  *)
(* may happen.  Vehicles do not ride, and a ride has one spell.            *)
(***************************************************************************)
EXTENDS EventProcessor, FiniteSets

CONSTANTS Vehicle,
          Seats,                \* the seats of a vehicle
          UsableSeats,          \* those with CanEnterOrExit
          NoVehicle

AnySeat == -1

ASSUME VehicleAssumption ==
  /\ \A v \in Vehicle : /\ UsableSeats[v] \subseteq Seats[v] /\ Seats[v] \subseteq Nat
                         /\ IsFiniteSet(Seats[v])
  /\ NoVehicle \notin Vehicle

VARIABLES status,               \* a unit: "in" the world, "out" of it, "removed", or "gone"
          alive,                \* IsAlive of a unit
          riding,               \* m_vehicle of a unit
          aura, amount,         \* the vehicle with the ride aura of a unit, and the seat it asks for
          kit,                  \* vehicles that are in the world with a vehicle kit
          seats,                \* Passenger.Guid of a seat
          usable,               \* UsableSeatNum
          pending,              \* _pendingJoinEvents
          join                  \* of a join: Passenger, VehicleTargetBase and Seat

rideVars == <<riding, aura, amount, seats, usable, pending>>
vehicleVars == <<status, alive, kit, rideVars, join>>
vars == <<eventVars, vehicleVars>>

SeatNumber == {AnySeat} \cup UNION {Seats[v] : v \in Vehicle}
Join == [passenger : Owner \cup {NoOwner}, base : Vehicle \cup {NoVehicle}, seat : SeatNumber]

TypeOK ==
  /\ EventTypeOK
  /\ status \in [Owner -> {"in", "out", "removed", "gone"}]
  /\ alive \in [Owner -> BOOLEAN]
  /\ riding \in [Owner -> Vehicle \cup {NoVehicle}]
  /\ aura \in [Owner -> Vehicle \cup {NoVehicle}] /\ amount \in [Owner -> SeatNumber]
  /\ kit \subseteq Vehicle
  /\ \A v \in Vehicle : seats[v] \in [Seats[v] -> Owner \cup {NoOwner}]
  /\ usable \in [Vehicle -> Int]
  /\ pending \in [Vehicle -> SUBSET Event]
  /\ join \in [Event -> Join]

Init ==
  /\ EventInit
  /\ status = [p \in Owner |-> "gone"] /\ alive = [p \in Owner |-> TRUE]
  /\ riding = [p \in Owner |-> NoVehicle]
  /\ aura = [p \in Owner |-> NoVehicle] /\ amount = [p \in Owner |-> AnySeat]
  /\ kit = {}
  /\ seats = [v \in Vehicle |-> [s \in Seats[v] |-> NoOwner]]
  /\ usable = [v \in Vehicle |-> Cardinality(UsableSeats[v])]
  /\ pending = [v \in Vehicle |-> {}]
  /\ join = [e \in Event |-> [passenger |-> NoOwner, base |-> NoVehicle, seat |-> AnySeat]]

Spell == Deferrable
IsJoin(e) == e \in Event \ Spell

(* A join's callback makes no other call; a spell's may make any. *)
Free == Callable /\ ~IsJoin(IF kill.owner # NoOwner THEN kill.event ELSE hand.event)

-----------------------------------------------------------------------------
(* Leaving seats. *)

(* RemovePendingEventsForPassenger, for the units of L and the vehicles     *)
(* their auras are on.                                                      *)
JoinsOf(L) ==
  {e \in Event : \E p \in L : /\ aura[p] # NoVehicle
                             /\ e \in pending[aura[p]]
                             /\ join[e].passenger = p}

(* A seat of v is left when its passenger is one of L. *)
IsLeft(v, s, L) == seats[v][s] \in L
SeatsWithout(L) == [v \in Vehicle |-> [s \in Seats[v] |-> IF IsLeft(v, s, L) THEN NoOwner ELSE seats[v][s]]]
RidingWithout(L) == [p \in Owner |-> IF p \in L THEN NoVehicle ELSE riding[p]]
PendingWithout(L) == [v \in Vehicle |-> pending[v] \ JoinsOf(L)]

UsableWithout(L) == [v \in Vehicle |-> usable[v] + Cardinality({s \in UsableSeats[v] : IsLeft(v, s, L)})]

(* The ride auras of L are removed: their handler takes the joins of L off  *)
(* the pending list, to be aborted, and L out of the seats.                 *)
RemoveAuras(L) ==
  /\ riding' = RidingWithout(L) /\ seats' = SeatsWithout(L) /\ usable' = UsableWithout(L)
  /\ pending' = PendingWithout(L)
  /\ aura' = [p \in Owner |-> IF p \in L THEN NoVehicle ELSE aura[p]]
  /\ UNCHANGED amount

RemoveAura(p) ==
  /\ Free
  /\ aura[p] # NoVehicle
  /\ RemoveAuras({p})
  /\ ScheduleAborts(JoinsOf({p}))
  /\ UNCHANGED <<status, alive, kit, join>>

(* ExitVehicle: those of L that ride lose the aura on what they ride. *)
Exiting(L) == {p \in L : riding[p] # NoVehicle /\ aura[p] = riding[p]}

ExitVehicle(p) ==
  /\ Free
  /\ riding[p] # NoVehicle
  /\ RemoveAuras(Exiting({p}))
  /\ ScheduleAborts(JoinsOf(Exiting({p})))
  /\ UNCHANGED <<status, alive, kit, join>>

(* setDeathState: what is pending stays, and finds the passenger dead. *)
Die(p) ==
  /\ Free
  /\ status[p] = "in" /\ alive[p]
  /\ alive' = [alive EXCEPT ![p] = FALSE]
  /\ RemoveAuras(Exiting({p}))
  /\ ScheduleAborts(JoinsOf(Exiting({p})))
  /\ UNCHANGED <<status, kit, join>>

Revive(p) ==
  /\ Free
  /\ status[p] = "in" /\ ~alive[p]
  /\ alive' = [alive EXCEPT ![p] = TRUE]
  /\ UNCHANGED <<eventVars, status, kit, rideVars, join>>

(* Everybody with an aura on v, or in a seat of it. *)
On(v) == {p \in Owner : aura[p] = v \/ \E s \in Seats[v] : seats[v][s] = p}

(* RemoveAllPassengers: the pending joins, then the auras, then the seats. *)
RemoveAll(v) ==
  /\ riding' = RidingWithout(On(v)) /\ seats' = SeatsWithout(On(v)) /\ usable' = UsableWithout(On(v))
  /\ pending' = [pending EXCEPT ![v] = {}]
  /\ aura' = [p \in Owner |-> IF aura[p] = v THEN NoVehicle ELSE aura[p]]
  /\ UNCHANGED amount
  /\ ScheduleAborts(pending[v])

RemoveAllPassengers(v) ==
  /\ Free
  /\ v \in kit
  /\ RemoveAll(v)
  /\ UNCHANGED <<status, alive, kit, join>>

(* RemoveVehicleKit, when the vehicle leaves the world or is one no more. *)
RemoveVehicleKit(v) ==
  /\ Free
  /\ v \in kit
  /\ RemoveAll(v)
  /\ join' = [e \in Event |-> IF e \in pending[v] THEN [join[e] EXCEPT !.base = NoVehicle] ELSE join[e]]
  /\ kit' = kit \ {v}
  /\ UNCHANGED <<status, alive>>

(* CreateVehicleKit: a new Vehicle, with all of its seats empty. *)
CreateVehicleKit(v) ==
  /\ Free
  /\ v \notin kit
  /\ kit' = kit \cup {v}
  /\ seats' = [seats EXCEPT ![v] = [s \in Seats[v] |-> NoOwner]]
  /\ usable' = [usable EXCEPT ![v] = Cardinality(UsableSeats[v])]
  /\ pending' = [pending EXCEPT ![v] = {}]
  /\ UNCHANGED <<eventVars, status, alive, riding, aura, amount, join>>

-----------------------------------------------------------------------------
(* Boarding. *)

(* The seat AddPassenger chooses once L have left: the one asked for, or the *)
(* first empty one that is usable.                                           *)
SeatFor(v, s, L) ==
  IF s # AnySeat THEN Seats[v] \cap {s}
  ELSE LET empty == {x \in UsableSeats[v] : seats[v][x] = NoOwner \/ IsLeft(v, x, L)}
       IN  IF empty = {} THEN {} ELSE {Min(empty)}

(* Who sits in the seat that is asked for is made to exit. *)
Ejected(v, s, L) == Exiting({seats[v][x] : x \in Seats[v] \cap {s}} \ (L \cup {NoOwner}))

(* AddPassenger(p, s), by the aura p has on v, when L have left already and  *)
(* those of them that are not p without their auras: a new join, due at once *)
(* and pending, or to be aborted when there is no seat.                      *)
AddPassenger(p, v, s, e, L) ==
  LET all == L \cup Ejected(v, s, L)
      seat == SeatFor(v, s, L)
  IN  /\ abortState[e] = "none"
      /\ AddEvent(p, e, 0, JoinsOf(all) \cup (IF seat = {} THEN {e} ELSE {}))
      /\ join' = [join EXCEPT ![e] = [passenger |-> p, base |-> v,
                                      seat |-> IF seat = {} THEN AnySeat ELSE Min(seat)]]
      /\ riding' = RidingWithout(all) /\ seats' = SeatsWithout(all) /\ usable' = UsableWithout(all)
      /\ pending' = [PendingWithout(all) EXCEPT ![v] = IF seat = {} THEN @ ELSE @ \cup {e}]
      /\ aura' = [q \in Owner |-> IF q = p THEN v ELSE IF q \in all THEN NoVehicle ELSE aura[q]]
      /\ amount' = [amount EXCEPT ![p] = s]
      /\ UNCHANGED <<status, alive, kit>>

HasSeat(v) == SeatFor(v, AnySeat, {}) # {}
InUsableSeat(v, p) == \E s \in UsableSeats[v] : seats[v][s] = p

(* The riders that do not stack with a new aura on v: none while a seat is  *)
(* available, else one after the other until a usable seat is left.         *)
Unstacked(v, p, K) ==
  LET others == {q \in Owner \ {p} : aura[q] = v}
      last == {q \in K : InUsableSeat(v, q)}
  IN  /\ K \subseteq others
      /\ HasSeat(v) => K = {}
      /\ ~HasSeat(v) => /\ Cardinality(last) <= 1
                        /\ last = {} => K = others

(* The ride spell on a vehicle p has no aura on: the aura p has on another  *)
(* is removed, a ride being single-target.                                  *)
Ride(p, v, s, e) ==
  /\ Free
  /\ IsJoin(e) /\ status[p] = "in" /\ alive[p]
  /\ v \in kit /\ aura[p] # v
  /\ \E K \in SUBSET Owner :
       /\ Unstacked(v, p, K)
       /\ AddPassenger(p, v, s, e, K \cup {q \in {p} : aura[q] # NoVehicle})

(* ChangeAmount: p gets up, its join is aborted, and p asks for seat s. *)
AskAgain(p, s, e) ==
  /\ Free
  /\ IsJoin(e) /\ status[p] = "in" /\ alive[p]
  /\ s # amount[p]
  /\ AddPassenger(p, aura[p], s, e, {p})

(* The ride spell again, on the vehicle that has the aura. *)
RideAgain(p, s, e) ==
  /\ aura[p] # NoVehicle
  /\ AskAgain(p, s, e)

(* ChangeSeat of a rider, to an empty seat. *)
ChangeSeat(p, s, e) ==
  /\ riding[p] # NoVehicle
  /\ s \in Seats[riding[p]] /\ seats[riding[p]][s] = NoOwner
  /\ AskAgain(p, s, e)

-----------------------------------------------------------------------------
(* The callbacks of a join. *)

FirstJoin(p) == Updating(p) /\ events[p] # <<>> /\ IsJoin(Head(events[p]))

(* Fault: only the joins of the passenger are taken off the list. *)
OwnRivals(e) == {f \in pending[join[e].base] : join[f].passenger = join[e].passenger}

(* RemovePendingEventsForSeat and RemovePendingEventsForPassenger. *)
Rivals(e) == {f \in pending[join[e].base] : \/ join[f].seat = join[e].seat
                                            \/ join[f].passenger = join[e].passenger}

(* VehicleJoinEvent::Execute, alive: the passenger leaves what it rides and  *)
(* takes the seat.                                                           *)
Board(p) ==
  LET e == Head(events[p])
      v == join[e].base
      s == join[e].seat
      L == Exiting({p})
  IN  /\ FirstJoin(p) /\ FirstIs(p, "running")
      /\ alive[p]
      /\ Pop(p, "Execute", Rivals(e))
      /\ pending' = [PendingWithout(L) EXCEPT ![v] = @ \ Rivals(e)]
      /\ riding' = [riding EXCEPT ![p] = v]
      /\ seats' = [SeatsWithout(L) EXCEPT ![v][s] = p]
      /\ usable' = [UsableWithout(L) EXCEPT ![v] = IF s \in UsableSeats[v] THEN @ - 1 ELSE @]
      /\ aura' = [q \in Owner |-> IF q \in L THEN NoVehicle ELSE aura[q]]
      /\ UNCHANGED <<status, alive, kit, amount, join>>

(* What Abort removes, when there still is a vehicle: the passenger's aura. *)
AbortedAura(e) == {p \in {join[e].passenger} : join[e].base \in kit /\ aura[p] = join[e].base}

(* Fault: e itself is still on the list when the aura goes. *)
AllJoinsOf(e) == JoinsOf(AbortedAura(e))

(* The other joins of the passenger that go with the aura: e has been taken *)
(* off the list before.                                                     *)
OtherJoinsOf(e) == JoinsOf(AbortedAura(e)) \ {e}

(* VehicleJoinEvent::Abort, when the joins of S leave the list. *)
AbortJoin(e, S) ==
  LET L == AbortedAura(e)
  IN  /\ riding' = RidingWithout(L) /\ seats' = SeatsWithout(L) /\ usable' = UsableWithout(L)
      /\ pending' = [v \in Vehicle |-> pending[v] \ (S \cup (IF join[e].base \in kit THEN {e} ELSE {}))]
      /\ aura' = [p \in Owner |-> IF p \in L THEN NoVehicle ELSE aura[p]]
      /\ UNCHANGED <<status, alive, kit, amount, join>>

(* VehicleJoinEvent::Execute for a dead passenger. *)
FindDead(p) ==
  LET e == Head(events[p])
  IN  /\ FirstJoin(p) /\ FirstIs(p, "running")
      /\ ~alive[p]
      /\ Pop(p, "Execute", Rivals(e))
      /\ AbortJoin(e, Rivals(e))

AbortFirst(p) ==
  LET e == Head(events[p])
  IN  /\ FirstJoin(p) /\ FirstIs(p, "scheduled")
      /\ Pop(p, "Abort", OtherJoinsOf(e))
      /\ AbortJoin(e, OtherJoinsOf(e))

KillJoin(p) ==
  LET e == Current(p)
  IN  /\ Walking(p) /\ kill.event = NoEvent
      /\ IsJoin(e) /\ abortState[e] # "aborted"
      /\ CallAbort(p, OtherJoinsOf(e))
      /\ AbortJoin(e, OtherJoinsOf(e))

-----------------------------------------------------------------------------
(* The passenger's life.  KillAllEvents(false) runs when it is removed, and *)
(* from scripts; the destructor forces it.                                  *)

(* Fault: a unit that leaves the world only exits the vehicle it is in. *)
RiddenAura(p) == Exiting({p})

(* RemoveFromWorld takes the single-target auras of p off others. *)
AuraElsewhere(p) == {q \in {p} : aura[q] # NoVehicle}

(* A far teleport: the queue goes with the player. *)
RemoveFromWorld(p) ==
  /\ Free
  /\ status[p] = "in"
  /\ status' = [status EXCEPT ![p] = "out"]
  /\ RemoveAuras(AuraElsewhere(p))
  /\ ScheduleAborts(JoinsOf(AuraElsewhere(p)))
  /\ UNCHANGED <<alive, kit, join>>

AddToWorld(p) ==
  /\ Free
  /\ status[p] = "out" \/ (status[p] = "gone" /\ kill.owner # p)
  /\ status' = [status EXCEPT ![p] = "in"]
  /\ alive' = [alive EXCEPT ![p] = @ \/ status[p] = "gone"]
  /\ UNCHANGED <<eventVars, kit, rideVars, join>>

CleanupBeforeRemoveFromMap(p) ==
  /\ Free /\ kill = NoKill
  /\ status[p] \in {"in", "out"}
  /\ status' = [status EXCEPT ![p] = "removed"]
  /\ RemoveAuras(AuraElsewhere(p))
  /\ StartKill(p, FALSE, JoinsOf(AuraElsewhere(p)))
  /\ UNCHANGED <<alive, kit, join>>

(* A script reload, between two updates. *)
UnloadResetScript(p) ==
  /\ kill = NoKill /\ updating = NoOwner
  /\ status[p] = "in"
  /\ StartKill(p, FALSE, {})
  /\ UNCHANGED vehicleVars

Destroy(p) ==
  /\ kill = NoKill /\ updating = NoOwner
  /\ status[p] = "removed"
  /\ status' = [status EXCEPT ![p] = "gone"]
  /\ StartKill(p, TRUE, {})
  /\ UNCHANGED <<alive, kit, rideVars, join>>

(* What the event queue does itself, and with the spells. *)
QueueStep(p) ==
  /\ \/ status[p] = "in" /\ \E d \in 1 .. MaxOffset : BeginUpdate(p, d)
     \/ Discard(p) \/ EndUpdate(p) \/ KillDispose(p) \/ EndKill(p)
     \/ updating = p /\ (Finish \/ FinishAbort)
  /\ UNCHANGED vehicleVars

SpellStep(p, e) ==
  /\ \/ Free /\ status[p] = "in" /\ Add(p, e, 1, {})
     \/ Free /\ (SetBusy(e) \/ ClearBusy(e))
     \/ FirstIs(p, "running") /\ e = Head(events[p]) /\ Execute(p, {})
     \/ updating = p /\ e = hand.event /\ \E t \in Offset : Again(t)
     \/ Walking(p) /\ e = Current(p) /\ KillAbort(p, {})
  /\ UNCHANGED vehicleVars

Next ==
  \E p \in Owner :
    \/ \E v \in Vehicle, s \in SeatNumber, e \in Event : Ride(p, v, s, e)
    \/ \E s \in SeatNumber, e \in Event : RideAgain(p, s, e) \/ ChangeSeat(p, s, e)
    \/ RemoveAura(p) \/ ExitVehicle(p) \/ Die(p) \/ Revive(p)
    \/ \E v \in Vehicle : RemoveAllPassengers(v) \/ RemoveVehicleKit(v) \/ CreateVehicleKit(v)
    \/ Board(p) \/ FindDead(p) \/ AbortFirst(p) \/ KillJoin(p)
    \/ RemoveFromWorld(p) \/ AddToWorld(p) \/ CleanupBeforeRemoveFromMap(p)
    \/ UnloadResetScript(p) \/ Destroy(p)
    \/ QueueStep(p)
    \/ \E e \in Spell : SpellStep(p, e)

Spec == Init /\ [][Next]_vars

-----------------------------------------------------------------------------
(* Every call of the vehicle code is one the event queues allow: no abort   *)
(* is scheduled for a join that is aborted, about to be, or deleted (the    *)
(* pending list holds bare pointers), whatever order the aura, the seat,    *)
(* the event and the vehicle end in.                                        *)
UsesEvents == EventSpec

(* What Execute asserts holds for every join that is not aborted: its       *)
(* passenger is in the world and rides nothing, the vehicle is there and    *)
(* has the passenger's aura; and exactly these joins are pending.           *)
JoinsCanExecute ==
  /\ \A e \in Event : IsJoin(e) /\ abortState[e] = "running" /\ e # hand.event =>
       LET p == join[e].passenger
           v == join[e].base
       IN  /\ status[p] = "in" /\ e \in Held(p)
           /\ v \in kit /\ aura[p] = v /\ riding[p] = NoVehicle
           /\ join[e].seat \in Seats[v]
           /\ e \in pending[v]
  /\ \A v \in Vehicle : \A e \in pending[v] : abortState[e] = "running" /\ join[e].base = v

(* Seats and riders agree: m_vehicle of a unit is the vehicle with its one  *)
(* seat, that vehicle has its aura, UsableSeatNum counts the empty usable   *)
(* seats, and a vehicle that is destroyed is empty.                         *)
SeatsAgree ==
  /\ \A p \in Owner : riding[p] # NoVehicle =>
       /\ aura[p] = riding[p] /\ status[p] = "in" /\ alive[p]
       /\ Cardinality({s \in Seats[riding[p]] : seats[riding[p]][s] = p}) = 1
  /\ \A v \in Vehicle :
       /\ \A s \in Seats[v] : seats[v][s] # NoOwner => riding[seats[v][s]] = v /\ v \in kit
       /\ usable[v] = Cardinality({s \in UsableSeats[v] : seats[v][s] = NoOwner})

(* The abort of a join unseats nobody: a passenger whose first attempt is   *)
(* aborted late is not thrown off the seat a second one took.               *)
AbortsUnseatNobody ==
  [][\A p \in Owner : AbortFirst(p) \/ KillJoin(p) => seats' = seats]_vars
=============================================================================
