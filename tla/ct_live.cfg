SPECIFICATION FairSpec
CONSTANTS
  Cids = {a, b}
  Conns = {w1}
  Turns = {t1, t2}
  Guests = {}
  None = none
  MaxAsks = 1
INVARIANT TurnsStayHome
PROPERTY NobodyWaitsForEver
CHECK_DEADLOCK FALSE
