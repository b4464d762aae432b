CONSTANTS
  NoOne = NoOne
  NoRide = NoRide
  Riders = {u1, u2}
  Drivers = {d1}
  Rides = {r1, r2}
  Workers = {w1}
SPECIFICATION FairSpec
INVARIANTS
  OneActiveRidePerRider
  OneActiveRidePerDriver
PROPERTIES
  FollowsStatusMachine
  SearchEnds
