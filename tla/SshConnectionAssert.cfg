SPECIFICATION Spec
CONSTANTS
  AuthTypes = {"Password"}
  MaxKeys = 0
  MaxAgentSlots = 1
INVARIANT
  IgnoreOnlyAfterDhInit
