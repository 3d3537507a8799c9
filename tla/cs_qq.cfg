SPECIFICATION StoreSpec
CONSTANTS
  Actors = {w1, w2}
  Convs = {v1}
  Bindable = {}
  Cascades = FALSE
  Enough = 1
  MaxAccepted = 3
  MaxBesideQQ = 2
  Unbound = Unbound
  Nowhere = Nowhere
INVARIANTS TurnsAreSerial
CHECK_DEADLOCK FALSE
