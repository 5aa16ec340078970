SPECIFICATION FairSpec
CONSTANTS
  SeqMod = 3
  MaxAge = 1
  Repeats = TRUE
  RxCap = 2
  N = 5
  Chunk = 2
  Gateways <- TwoGateways
  Bad = {3}
  Span = 2
INVARIANTS TypeOK AnsweredFromOwnRow ValueIsTimely ExitTellsAll
PROPERTIES ReadsTable Terminates
