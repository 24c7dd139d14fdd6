CONSTANTS
  Updates = {u1, u2}
  CDBReacquireConnectionTries = 2
  MaxUnits = 2
  MaxLosses = 2
SPECIFICATION Spec
SYMMETRY Symmetry
INVARIANTS
  AllOrNothing
  OutcomeIsTrue
  AtMostOnce
  NoTransactionLeftOpen
CHECK_DEADLOCK FALSE
