\* Route verbs of one operator over the API beside those on the host.
CONSTANTS
  Operators = {o1}
  CNodes = {"n", "k"}
  CModels = {"m"}
  CDeps = {1, 2}
  CRoutes = {"r"}
  Builtins = {"sg"}
  Registered = {"cb"}
  Profiles = {"default", "regulated"}
  Origins = {"near", "far"}
  CCards = {1, 2}
  CPorts = {1, 2}
  RunsOn <- MCRunsOn
  Reads <- MCReads
  CustomAllowed = {"default"}
  Denied <- MCDenied
  First <- MCFirst
  MaxRevisions = 3
  MaxEdits = 1
SPECIFICATION MCSpec
INVARIANT MembersKept
CHECK_DEADLOCK FALSE
