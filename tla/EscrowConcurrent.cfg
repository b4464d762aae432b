CONSTANTS
  NoPayment = NoPayment
  NoRide = NoRide
  d1 = d1
  r1 = r1
  r2 = r2
  Drivers = {d1}
  Rides = {r1, r2}
  Payments = {p1, p2}
  Workers = {w1, w2}
  Methods = {"wallet", "gateway"}
  Requested = {"dispute", "refund", "admin"}
  DriverOf <- OneDriver
  Payout <- EqualPayout
SYMMETRY InterchangeableAll
SPECIFICATION Spec
INVARIANTS
  TypeOK
  OneActivePayment
  LedgerMatchesPayments
PROPERTIES
  RefundedNotReleased
