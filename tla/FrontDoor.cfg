SPECIFICATION Spec
CONSTANTS
  Doors = {d1, d2}
  Conns = {c1, c2}
  Waiters = {w1}
  MaxPlaces = 2
  MaxPromoted = 1
INVARIANTS BudgetsCounted ListenerAwake
PROPERTIES AcceptsComplete ConnectionsLeave
CHECK_DEADLOCK FALSE
