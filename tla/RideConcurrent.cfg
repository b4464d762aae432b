CONSTANTS
  NoOne = NoOne
  NoRide = NoRide
  Riders = {u1}
  Drivers = {d1, d2}
  Rides = {r1, r2}
  Workers = {w1, w2}
SYMMETRY Interchangeable
SPECIFICATION Spec
INVARIANTS
  TypeOK
  PointerBacked
PROPERTIES
  DriverChosenOnce
  DriverlessCancelIsFinal
