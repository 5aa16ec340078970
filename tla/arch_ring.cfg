SPECIFICATION FairSpec
CONSTANTS
  SeqMod = 3
  MaxAge = 1
  Repeats = TRUE
  RxCap = 2
  N = 4
  First = 1
  Chunk = 2
  Depth = 5
  Ahead <- NewestClosed
  Bad = {3}
  Span = 4
  Origins = {5}
INVARIANTS TypeOK AnsweredFromOwnSlot StampIsPeriod ReadIsPrefix SuccessIsComplete
PROPERTIES AnsweredIsFinal ReadsTable Terminates
