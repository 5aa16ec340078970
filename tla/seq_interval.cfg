SPECIFICATION Spec
CONSTANTS
  Configs <- Any
  Refs <- Turns
  Offset <- Zone
  Summers = {}
INVARIANTS AcceptedIsUsable
