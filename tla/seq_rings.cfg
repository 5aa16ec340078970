SPECIFICATION Spec
CONSTANTS
  Configs <- Rings
  Refs <- Turns
  Offset <- Zone
  Summers = {}
INVARIANTS StampOfSlot StampIsLatest SeqIsComplete
