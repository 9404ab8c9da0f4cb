---------------------------- MODULE CronSchedule ----------------------------
(***************************************************************************)
(* The cron expressions of the collector: parseCron and nextCronRun.  Time *)
(* is counted in ticks from the beginning of a cycle of years.  How many   *)
(* make a minute, and the lengths of hours, days, weeks and months, are    *)
(* parameters, so that small instances have short months and leap years.   *)
(*                                                                         *)
(* A field of an expression is the sequence of its parts: Star for "*" and *)
(* Every(S) for "*/S".  Only integers are modelled.                        *)
(***************************************************************************)
EXTENDS Integers, Sequences, SequencesExt, FiniteSetsExt

CONSTANTS TicksPerMinute, MinutesPerHour, HoursPerDay, DaysPerWeek,
          MonthLengths,          \* in days, of the months of all years of the cycle
          MonthsPerYear,
          Cap                    \* iterations of the search: the minutes of a leap year

ASSUME CronAssumption ==
  /\ {TicksPerMinute, MinutesPerHour, HoursPerDay, DaysPerWeek, MonthsPerYear, Cap}
       \subseteq Nat \ {0}
  /\ MonthLengths \in Seq(Nat \ {0})
  /\ Len(MonthLengths) > 0 /\ Len(MonthLengths) % MonthsPerYear = 0

Longest == CHOOSE n \in ToSet(MonthLengths) : \A m \in ToSet(MonthLengths) : m <= n

-----------------------------------------------------------------------------
(* Parsing.                                                                *)

Star == [range |-> "*", lo |-> 0, hi |-> 0, step |-> 1]
Every(step) == [range |-> "*/S", lo |-> 0, hi |-> 0, step |-> step]
From(lo, hi, step) == [range |-> "N-M/S", lo |-> lo, hi |-> hi, step |-> step]
Only(n) == From(n, n, 1)

Low(part, min) == IF part.range = "N-M/S" THEN part.lo ELSE min
High(part, max) == IF part.range = "N-M/S" THEN part.hi ELSE max

\* parseField does not throw.
FieldParses(parts, min, max) ==
  /\ parts # <<>>
  /\ \A part \in ToSet(parts) :
       part.step > 0 /\ min <= Low(part, min) /\ Low(part, min) <= High(part, max)
                     /\ High(part, max) <= max

parseField(parts, min, max) ==
  {v \in min..max : \E part \in ToSet(parts) :
     v \in Low(part, min)..High(part, max) /\ (v - Low(part, min)) % part.step = 0}

CronParses(expr) ==
  /\ FieldParses(expr.minute, 0, MinutesPerHour - 1)
  /\ FieldParses(expr.hour, 0, HoursPerDay - 1)
  /\ FieldParses(expr.dom, 1, Longest)
  /\ FieldParses(expr.month, 1, MonthsPerYear)
  /\ FieldParses(expr.dow, 0, DaysPerWeek)

\* The last day of the week has two numbers.  A day field is restricted unless
\* it is written "*": "*/1" is, though it holds every day.
parseCron(expr) ==
  [minute |-> parseField(expr.minute, 0, MinutesPerHour - 1),
   hour |-> parseField(expr.hour, 0, HoursPerDay - 1),
   dom |-> parseField(expr.dom, 1, Longest),
   month |-> parseField(expr.month, 1, MonthsPerYear),
   dow |-> {v % DaysPerWeek : v \in parseField(expr.dow, 0, DaysPerWeek)},
   domRestricted |-> expr.dom # <<Star>>,
   dowRestricted |-> expr.dow # <<Star>>]

-----------------------------------------------------------------------------
(* Dates.  Times below are in minutes.                                     *)

MinutesPerDay == MinutesPerHour * HoursPerDay

\* The days of the cycle before each of its months, and before the next cycle.
MonthStart ==
  [k \in 1..(Len(MonthLengths) + 1) |->
     MapThenSumSet(LAMBDA j : MonthLengths[j], 1..(k - 1))]

CycleDays == MonthStart[Len(MonthLengths) + 1]

\* The month in the cycle of each of its days.
MonthOfDay ==
  [day \in 0..(CycleDays - 1) |->
     CHOOSE k \in DOMAIN MonthLengths : MonthStart[k] <= day /\ day < MonthStart[k + 1]]

DayOf(t) == t \div MinutesPerDay
MonthOf(t) == MonthOfDay[DayOf(t) % CycleDays]

Date(t) ==
  [month |-> 1 + ((MonthOf(t) - 1) % MonthsPerYear),
   dom |-> (DayOf(t) % CycleDays) - MonthStart[MonthOf(t)] + 1,
   dow |-> DayOf(t) % DaysPerWeek,
   hour |-> (t \div MinutesPerHour) % HoursPerDay,
   minute |-> t % MinutesPerHour]

NextMonth(t) == DayOf(t) - (DayOf(t) % CycleDays) + MonthStart[MonthOf(t) + 1]

-----------------------------------------------------------------------------
(* The search.                                                             *)

\* Either field will do when both are restricted.
dayMatches(date, p) ==
  IF p.domRestricted /\ p.dowRestricted
  THEN date.dom \in p.dom \/ date.dow \in p.dow
  ELSE date.dom \in p.dom /\ date.dow \in p.dow

Matches(t, p) ==
  LET date == Date(t)
  IN /\ date.month \in p.month
     /\ dayMatches(date, p)
     /\ date.hour \in p.hour
     /\ date.minute \in p.minute

\* A slip: a day is skipped to the same time of the next.
SkipKeepingTime(t, p) ==
  LET date == Date(t)
  IN IF date.month \notin p.month
     THEN NextMonth(t) * MinutesPerDay
     ELSE IF ~dayMatches(date, p) THEN t + MinutesPerDay
     ELSE IF date.hour \notin p.hour THEN (t \div MinutesPerHour + 1) * MinutesPerHour
     ELSE t + 1

\* Where to look after t: at the next month, day or hour, or minute.
Skip(t, p) ==
  LET date == Date(t)
  IN IF date.month \notin p.month
     THEN NextMonth(t) * MinutesPerDay
     ELSE IF ~dayMatches(date, p) THEN (DayOf(t) + 1) * MinutesPerDay
     ELSE IF date.hour \notin p.hour THEN (t \div MinutesPerHour + 1) * MinutesPerHour
     ELSE t + 1

NoRun == -1

\* The first run after the tick `from`, from the next whole minute on; NoRun
\* stands for the throw: the expression does not parse, or the search was long.
nextCronRun(expr, from) ==
  LET p == parseCron(expr)
      search[i \in 0..Cap] ==
        [t \in Nat |-> IF i = Cap THEN NoRun
                       ELSE IF Matches(t, p) THEN t * TicksPerMinute
                       ELSE search[i + 1][Skip(t, p)]]
  IN IF CronParses(expr) THEN search[0][from \div TicksPerMinute + 1] ELSE NoRun
=============================================================================
