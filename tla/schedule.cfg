SPECIFICATION Spec
CONSTANTS
  TicksPerMinute = 2
  MinutesPerHour = 2
  HoursPerDay = 2
  DaysPerWeek = 3
  MonthLengths <- ThreeYears
  MonthsPerYear = 2
  Cap = 28
  Expressions <- SomeExpressions
  DEFAULT_SCHEDULE <- Daily
  Starts <- SomeStarts
  Horizon = 7
  Skews <- SomeSkews
  Delay = 1
INVARIANTS TypeOK NextRunIsFirst
PROPERTIES TickFiresNewRun CatchesUp
\* The horizon is reached.
CHECK_DEADLOCK FALSE
