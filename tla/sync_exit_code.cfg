SPECIFICATION Spec
CONSTANTS
  SeqMod = 16
  MaxAge = 0
  Repeats = FALSE
  RxCap = 1
  Offset = 3600
  Summers <- SummerTime
  Diff = 30
  Minutes = 1
  CheckSets <- Default
  News <- WinterNoon
  Clocks <- WinterNoonClock
  MaxTicks = 1
  Styles = {"level"}
  Keys = {TRUE}
INVARIANTS ExitOkIsWritten
