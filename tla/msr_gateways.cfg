SPECIFICATION Spec
CONSTANTS
  SeqMod = 3
  MaxAge = 0
  Repeats = FALSE
  RxCap = 2
  N = 5
  Chunk = 2
  Gateways <- TwoGateways
  Bad = {3}
  Span = 2
INVARIANTS RowComesFromGateway
