SPECIFICATION Spec
CONSTANTS
  FirstYear = 0
  LastYear = 99
  Configs <- SomeConfigs
INVARIANTS HoursAreRing IntervalsAreRing
PROPERTIES MonthsAreRing DaysOfYearAreCounted
CHECK_DEADLOCK FALSE
