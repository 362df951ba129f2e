CONSTANTS
  Users = {"alice", "bob"}
  RoleOf <- Roles
  Requests = {r1, r2, r3}
  Costs = {0, 4}
  Tables <- Mixed
  MaxCeiling = 3
  Per = 1
  MaxClock = 2
  Disconnects = TRUE
  NullOptions = TRUE
SYMMETRY Symmetry
SPECIFICATION Spec
INVARIANT LimitsHold
 
CHECK_DEADLOCK FALSE
