SPECIFICATION Spec
CONSTANTS
  Wallets = {w1}
  Payouts = {p1, p2}
  TopUps = {t1}
  Handlers = {h1, h2}
  None = None
  Amounts <- MCAmounts
  MaxTries = 3
  MaxEvents = 5
  MaxFaults = 3
SYMMETRY MCSymmetry
INVARIANTS
  TypeOK
  DebitedOnce
  SettledOneWay
  NeverOverdrawn
  PendingIsUnconfirmed
\* When the bounds are reached and everything is settled nothing more happens.
CHECK_DEADLOCK FALSE
