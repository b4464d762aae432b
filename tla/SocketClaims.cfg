SPECIFICATION Spec
CONSTANTS
  Drivers = {d1, d2}
  Rider = rider
  Rides = {r1}
  Handlers = {h1, h2}
  None = none
  MaxEvents = 4
  MaxFaults = 1
SYMMETRY Interchangeable
INVARIANTS TypeOK AnnouncedIsTheDriver OneClaimer ParticipantAgrees
\* The system rests when the last event has been handled and the ride is over.
CHECK_DEADLOCK FALSE
