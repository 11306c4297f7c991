---------------------------- MODULE MCVehicleJoin ----------------------------
(* Two passengers and two vehicles, one with two seats of which a spell may *)
(* choose one only.                                                         *)
EXTENDS VehicleJoin, TLC

CONSTANTS p1, p2, j1, j2, spell, v1, v2

MCSeats == v1 :> {0, 1} @@ v2 :> {0}
MCUsableSeats == v1 :> {0} @@ v2 :> {0}

(* What a deleted event was, and the seat a removed aura asked for, nobody reads. *)
View ==
  <<events, abortState, busy, updating, hand, [kill EXCEPT !.fresh = {}], status, riding, aura, kit, seats, usable, pending,
    [e \in Event |-> IF abortState[e] = "none" THEN <<>> ELSE <<due[e], join[e]>>],
    [p \in Owner |-> IF status[p] \in {"in", "out"} THEN <<alive[p]>> ELSE <<>>],
    [p \in Owner |-> IF aura[p] = NoVehicle THEN <<>> ELSE <<amount[p]>>]>>

Symmetry == Permutations(Owner) \cup Permutations(Event \ Deferrable)
=============================================================================
