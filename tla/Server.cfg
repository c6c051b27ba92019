SPECIFICATION Spec
CONSTANTS
  LoopCount = 2
  SlotCount = 2
  Ids = {"alice"}
  FirstPolicy <- MCFirstPolicy
  Policies <- MCPolicies
  MaxSessions = 2
  MaxReloads = 1
  PendingPerLane = 1
INVARIANTS LaneArmed SessionsOwned PolicyHoldsAtRest ClosedAtRest
