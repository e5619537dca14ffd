SPECIFICATION Spec
CONSTANTS
  k1 = k1
  k2 = k2
  k3 = k3
  shared = shared
  own = own
  N = 2
  Keys = {k1, k2, k3}
  ObjectOf <- SharedObject
  Plans <- MCPlans
  MaxFaults = 2
  MaxVersion = 1
CHECK_DEADLOCK FALSE
SYMMETRY SameObject
INVARIANTS
  ConsumersAgree
  ClosedOnce
  AllOrNothing
  FirstErrorWins
