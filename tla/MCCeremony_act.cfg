CONSTANTS
  Attempts = {a1, a2, a3}
  Calls <- MCCalls
  Users = {"ann", "bob"}
  Keys = {"k"}
  Ops = {"mint", "build", "edit", "policy"}
  Blind = {"mint", "build"}
  Skew = 1
  LateErrors = {"edit", "build"}
  MaxClock = 2
  MaxDays = 1
  MaxFaults = 1
SYMMETRY Symmetry
SPECIFICATION Spec
INVARIANT ActsOnce
INVARIANT KeyIsOwn
 
CHECK_DEADLOCK FALSE
