SPECIFICATION FairSpec
CONSTANTS
  SeqMod = 5
  MaxAge = 1
  Repeats = TRUE
  RxCap = 2
  Offset = 3600
  Summers <- SummerTime
  Diff = 2
  Minutes = 1
  CheckSets <- AllCheckSets
  News <- TurnsOfDay
  Clocks <- AroundMidnight
  MaxTicks = 2
  Styles = {"level"}
  Keys = {TRUE, FALSE}
INVARIANTS TypeOK WriteOkIsWritten ClockIsWhole StepIsBounded RightsReturned
PROPERTIES IndexesMoveAlone Terminates
