SPECIFICATION Spec
CONSTANTS
  Starts <- FirstDay
  Times <- SomeTimes
  LastDay = 65535
INVARIANT DatesConvert
PROPERTY ClockAdvances
\* The calendar stops with the 16 bits of the mjd.
CHECK_DEADLOCK FALSE
