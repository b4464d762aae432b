CONSTANTS
  MaxReads = 2
  MaxFaults = 1
SPECIFICATION Spec
INVARIANTS TypeOK ModalIsReal PhaseIsReached
PROPERTY ViewSettles
\* When the screens are left nothing more happens.
CHECK_DEADLOCK FALSE
