SPECIFICATION Spec
CONSTANTS
  p1 = p1
  p2 = p2
  j1 = j1
  j2 = j2
  spell = spell
  v1 = v1
  v2 = v2
  Owner = {p1, p2}
  Event = {j1, j2, spell}
  Deferrable = {spell}
  MaxOffset = 1
  Vehicle = {v1, v2}
  Seats <- MCSeats
  UsableSeats <- MCUsableSeats
  NoOwner = NoOwner
  NoEvent = NoEvent
  NoVehicle = NoVehicle
SYMMETRY Symmetry
VIEW View
INVARIANTS
  JoinsCanExecute
  SeatsAgree
PROPERTIES
  UsesEvents
  AbortsUnseatNobody
