---------------------------- MODULE TimerProofs ----------------------------
(***************************************************************************)
(* The search of CronSchedule gives the first run, over every calendar and *)
(* for every expression, though it leaps over months, days and hours; and  *)
(* the countdown of NextBundleTimer keeps to it.                           *)
(*                                                                         *)
(* The calendar comes first: a leap ends where the month, the day or the   *)
(* hour it leaps over does.  Then the search, by induction downward over   *)
(* its iterations, and then the steps of the page.                         *)
(***************************************************************************)
EXTENDS NextBundleTimer, RecursionFacts

-----------------------------------------------------------------------------
(* Quotients.                                                              *)

\* A natural lies in the interval of its quotient.
LEMMA Quotient ==
  ASSUME NEW n \in Nat, NEW d \in Nat \ {0}
  PROVE  /\ n \div d \in Nat /\ n % d \in 0..(d - 1)
         /\ n = d * (n \div d) + (n % d)
         /\ d * (n \div d) <= n /\ n < d * (n \div d) + d
OBVIOUS

\* Products grow with their factors.
LEMMA Grows ==
  ASSUME NEW a \in Nat, NEW b \in Nat, NEW d \in Nat, a <= b
  PROVE  d * a \in Nat /\ d * b \in Nat /\ d * a <= d * b
OBVIOUS

\* The quotient is known by the interval.
LEMMA QuotientIs ==
  ASSUME NEW n \in Nat, NEW d \in Nat \ {0}, NEW q \in Nat, d * q <= n, n < d * q + d
  PROVE  n \div d = q /\ n % d = n - d * q
<1> DEFINE r == n \div d
<1>1. r \in Nat /\ d * r <= n /\ n < d * r + d /\ n = d * r + (n % d) /\ n % d \in Nat
  BY Quotient
<1> HIDE DEF r
<1>2. d * q \in Nat /\ d * r \in Nat /\ d * (q + 1) = d * q + d /\ d * (r + 1) = d * r + d
  BY <1>1
<1>3. ~(r < q)
  <2> SUFFICES ASSUME r + 1 <= q PROVE FALSE
    BY <1>1
  <2>1. d * (r + 1) <= d * q
    BY <1>1, Grows
  <2>2. QED
    BY <1>1, <1>2, <2>1
<1>4. ~(q < r)
  <2> SUFFICES ASSUME q + 1 <= r PROVE FALSE
    BY <1>1
  <2>1. d * (q + 1) <= d * r
    BY <1>1, Grows
  <2>2. QED
    BY <1>1, <1>2, <2>1
<1>5. r = q
  BY <1>1, <1>3, <1>4
<1>6. QED
  BY <1>1, <1>2, <1>5 DEF r

\* Up to the next multiple the quotient stays, and that is later.
LEMMA SameQuotient ==
  ASSUME NEW t \in Nat, NEW d \in Nat \ {0}
  PROVE  /\ (t \div d + 1) * d \in Nat /\ t < (t \div d + 1) * d
         /\ \A u \in t..((t \div d + 1) * d - 1) : u \div d = t \div d
<1> DEFINE q == t \div d
<1>1. q \in Nat /\ d * q <= t /\ t < d * q + d /\ d * q \in Nat
  BY Quotient
<1> HIDE DEF q
<1>2. (q + 1) * d = d * q + d
  BY <1>1
<1>3. ASSUME NEW u \in t..((q + 1) * d - 1)
      PROVE  u \div d = q
  <2>1. u \in Nat /\ d * q <= u /\ u < d * q + d
    BY <1>1, <1>2
  <2>2. QED
    BY <1>1, <2>1, QuotientIs
<1>4. QED
  BY <1>1, <1>2, <1>3 DEF q

\* Quotients keep the order.
LEMMA QuotientGrows ==
  ASSUME NEW t \in Nat, NEW u \in Nat, t <= u, NEW d \in Nat \ {0}
  PROVE  t \div d <= u \div d
<1> DEFINE q == t \div d
           r == u \div d
<1>1. q \in Nat /\ d * q <= t /\ r \in Nat /\ u < d * r + d
  BY Quotient
<1> HIDE DEF q, r
<1>2. SUFFICES ASSUME r + 1 <= q PROVE FALSE
  BY <1>1 DEF q, r
<1>3. d * (r + 1) <= d * q
  BY <1>1, <1>2, Grows
<1>4. d * (r + 1) = d * r + d /\ d * q \in Nat /\ d * r \in Nat
  BY <1>1
<1>5. QED
  BY <1>1, <1>3, <1>4

\* Below a multiple the quotient is below the factor.
LEMMA QuotientBelow ==
  ASSUME NEW u \in Nat, NEW d \in Nat \ {0}, NEW m \in Nat, u < m * d
  PROVE  u \div d < m
<1> DEFINE r == u \div d
<1>1. r \in Nat /\ d * r <= u
  BY Quotient
<1> HIDE DEF r
<1>2. SUFFICES ASSUME m <= r PROVE FALSE
  BY <1>1 DEF r
<1>3. d * m <= d * r
  BY <1>1, <1>2, Grows
<1>4. d * m = m * d /\ d * m \in Nat /\ d * r \in Nat
  BY <1>1
<1>5. QED
  BY <1>1, <1>3, <1>4
-----------------------------------------------------------------------------
(* The calendar.                                                           *)

Months == Len(MonthLengths)

\* The parameters are positive.
LEMMA Positive ==
  /\ TicksPerMinute \in Nat \ {0} /\ MinutesPerHour \in Nat \ {0} /\ HoursPerDay \in Nat \ {0}
  /\ Cap \in Nat \ {0} /\ MinutesPerDay \in Nat \ {0}
  /\ Months \in Nat \ {0} /\ \A k \in 1..Months : MonthLengths[k] \in Nat \ {0}
<1>1. {TicksPerMinute, MinutesPerHour, HoursPerDay, Cap} \subseteq Nat \ {0}
  BY CronAssumption
<1>2. \A a \in Nat \ {0}, b \in Nat \ {0} : a * b \in Nat \ {0}
  OBVIOUS
<1>3. MinutesPerDay \in Nat \ {0}
  BY <1>1, <1>2 DEF MinutesPerDay
<1>4. MonthLengths \in Seq(Nat \ {0}) /\ Len(MonthLengths) > 0
  BY CronAssumption
<1>5. Months \in Nat \ {0} /\ \A k \in 1..Months : MonthLengths[k] \in Nat \ {0}
  BY <1>4 DEF Months
<1>6. QED
  BY <1>1, <1>3, <1>5

\* A month starts where the one before it ends.
LEMMA MonthsAdd ==
  /\ MonthStart[1] = 0
  /\ \A k \in 1..(Months + 1) : MonthStart[k] \in Nat
  /\ \A k \in 1..Months : MonthStart[k + 1] = MonthStart[k] + MonthLengths[k]
<1>1. \A k \in 1..(Months + 1) : MonthStart[k] = SumOver(MonthLengths, 1..(k - 1))
  BY DEF MonthStart, SumOver, Months
<1>2. Months \in Nat /\ \A k \in 1..Months : MonthLengths[k] \in Nat
  BY Positive
<1>3. ASSUME NEW n \in 0..Months
      PROVE  IsFiniteSet(1..n) /\ NatOn(MonthLengths, 1..n)
             /\ SumOver(MonthLengths, 1..n) \in Nat
  <2>1. IsFiniteSet(1..n)
    BY FS_Interval
  <2>2. NatOn(MonthLengths, 1..n)
    BY <1>2 DEF NatOn
  <2>3. SumOver(MonthLengths, 1..n) \in Nat
    BY <2>1, <2>2, SumStep DEF NatOn
  <2>4. QED
    BY <2>1, <2>2, <2>3
<1>4. SumOver(MonthLengths, {}) = 0
  <2>1. IsFiniteSet({}) /\ \A x \in {} : MonthLengths[x] \in Nat
    BY FS_EmptySet
  <2>2. QED
    BY <2>1, SumStep
<1>5. MonthStart[1] = 0
  <2>1. 1 \in 1..(Months + 1) /\ 1..(1 - 1) = {}
    BY <1>2
  <2>2. QED
    BY <1>1, <1>4, <2>1
<1>6. ASSUME NEW k \in 1..(Months + 1)
      PROVE  MonthStart[k] \in Nat
  <2>1. k - 1 \in 0..Months
    BY <1>2
  <2>2. QED
    BY <1>1, <1>3, <2>1
<1>7. ASSUME NEW k \in 1..Months
      PROVE  MonthStart[k + 1] = MonthStart[k] + MonthLengths[k]
  <2>1. k \in 0..Months /\ k \in 1..k /\ k \in 1..(Months + 1) /\ k + 1 \in 1..(Months + 1)
        /\ (k + 1) - 1 = k /\ (1..k) \ {k} = 1..(k - 1)
    BY <1>2
  <2>2. SumOver(MonthLengths, 1..k) = MonthLengths[k] + SumOver(MonthLengths, (1..k) \ {k})
    BY <1>3, <2>1, SumTake
  <2>3. MonthStart[k + 1] = MonthLengths[k] + MonthStart[k]
    BY <1>1, <2>1, <2>2
  <2>4. MonthLengths[k] \in Nat /\ MonthStart[k] \in Nat
    BY <1>2, <1>6, <2>1
  <2>5. QED
    BY <2>3, <2>4
<1>8. QED
  BY <1>5, <1>6, <1>7

\* A later month starts where an earlier one has ended.
LEMMA StartsGrow ==
  \A j, k \in 1..(Months + 1) : j < k => MonthStart[j + 1] <= MonthStart[k]
<1> DEFINE S == {n \in Nat : \A j \in 1..(Months + 1) :
                   j < n /\ n <= Months + 1 => MonthStart[j + 1] <= MonthStart[n]}
<1>1. Months \in Nat
  BY Positive
<1>2. 0 \in S
  OBVIOUS
<1>3. ASSUME NEW n \in Nat, n \in S
      PROVE  n + 1 \in S
  <2>1. ASSUME NEW j \in 1..(Months + 1), j < n + 1, n + 1 <= Months + 1
        PROVE  MonthStart[j + 1] <= MonthStart[n + 1]
    <3>1. n \in 1..Months /\ n \in 1..(Months + 1) /\ j \in 1..Months
          /\ n + 1 \in 1..(Months + 1) /\ j + 1 \in 1..(Months + 1)
      BY <1>1, <2>1
    <3>2. MonthStart[n] \in Nat /\ MonthStart[n + 1] \in Nat /\ MonthStart[j + 1] \in Nat
          /\ MonthLengths[n] \in Nat /\ MonthStart[n + 1] = MonthStart[n] + MonthLengths[n]
      BY <3>1, MonthsAdd, Positive
    <3>3. CASE j = n
      BY <3>2, <3>3
    <3>4. CASE j # n
      <4>1. j < n
        BY <2>1, <3>1, <3>4
      <4>2. MonthStart[j + 1] <= MonthStart[n]
        BY <1>1, <1>3, <2>1, <4>1
      <4>3. QED
        BY <3>2, <4>2
    <3>5. QED
      BY <3>3, <3>4
  <2>2. QED
    BY <2>1
<1>4. \A n \in Nat : n \in S
  <2> HIDE DEF S
  <2>1. QED
    BY <1>2, <1>3, Induct
<1>5. ASSUME NEW j \in 1..(Months + 1), NEW k \in 1..(Months + 1), j < k
      PROVE  MonthStart[j + 1] <= MonthStart[k]
  <2>1. k \in Nat /\ k <= Months + 1
    BY <1>1
  <2>2. k \in S
    BY <1>4, <2>1
  <2>3. QED
    BY <1>5, <2>1, <2>2
<1>6. QED
  BY <1>5

\* Day r of the cycle is in its month k.
InMonth(r, k) == MonthStart[k] <= r /\ r < MonthStart[k + 1]

\* The cycle has days, and every day of it is in one month.
LEMMA CycleIs == CycleDays \in Nat \ {0} /\ CycleDays = MonthStart[Months + 1]
<1>1. Months \in 1..Months /\ 1 \in 1..(Months + 1) /\ Months \in 1..(Months + 1)
      /\ Months + 1 \in 1..(Months + 1)
  BY Positive
<1>2. MonthStart[Months] \in Nat /\ MonthLengths[Months] \in Nat \ {0}
      /\ MonthStart[Months + 1] = MonthStart[Months] + MonthLengths[Months]
  BY <1>1, MonthsAdd, Positive
<1>3. QED
  BY <1>2 DEF CycleDays, Months

LEMMA MonthExists ==
  ASSUME NEW r \in 0..(CycleDays - 1)
  PROVE  \E k \in 1..Months : InMonth(r, k)
<1> DEFINE T == {n \in 1..(Months + 1) : r < MonthStart[n]}
<1>1. Months \in Nat /\ r \in Nat /\ Months + 1 \in 1..(Months + 1) /\ r < CycleDays
  BY Positive, CycleIs
<1>2. T \subseteq Nat /\ Months + 1 \in T
  BY <1>1, CycleIs
<1>3. PICK n \in T : \A m \in T : n <= m
  <2> HIDE DEF T
  <2>1. T # {}
    BY <1>2
  <2>2. QED
    BY <1>2, <2>1, Least
<1>4. n # 1
  BY <1>1, MonthsAdd
<1>5. n \in 1..(Months + 1) /\ n - 1 \in 1..Months /\ n - 1 \in 1..(Months + 1) /\ (n - 1) + 1 = n
      /\ ~(n <= n - 1)
  BY <1>1, <1>4
<1>6. n - 1 \notin T
  BY <1>3, <1>5
<1>7. MonthStart[n - 1] \in Nat /\ MonthStart[n] \in Nat
  BY <1>5, MonthsAdd
<1>8. MonthStart[n - 1] <= r
  BY <1>1, <1>5, <1>6, <1>7
<1>9. InMonth(r, n - 1)
  BY <1>3, <1>5, <1>8 DEF InMonth
<1>10. QED
  BY <1>5, <1>9

LEMMA MonthIsOne ==
  ASSUME NEW r \in Nat, NEW j \in 1..Months, NEW k \in 1..Months, InMonth(r, j), InMonth(r, k)
  PROVE  j = k
<1>1. /\ j \in 1..(Months + 1) /\ j + 1 \in 1..(Months + 1)
      /\ k \in 1..(Months + 1) /\ k + 1 \in 1..(Months + 1)
  BY Positive
<1>2. /\ MonthStart[j] \in Nat /\ MonthStart[j + 1] \in Nat
      /\ MonthStart[k] \in Nat /\ MonthStart[k + 1] \in Nat
  BY <1>1, MonthsAdd
<1>3. ~(j < k)
  BY <1>1, <1>2, StartsGrow DEF InMonth
<1>4. ~(k < j)
  BY <1>1, <1>2, StartsGrow DEF InMonth
<1>5. QED
  BY <1>1, <1>3, <1>4

\* MonthOfDay is the month.
LEMMA MonthIs ==
  ASSUME NEW r \in 0..(CycleDays - 1)
  PROVE  /\ MonthOfDay[r] \in 1..Months /\ InMonth(r, MonthOfDay[r])
         /\ \A k \in 1..Months : InMonth(r, k) => MonthOfDay[r] = k
<1>1. DOMAIN MonthLengths = 1..Months
  BY CronAssumption DEF Months
<1>2. MonthOfDay[r] = CHOOSE k \in 1..Months : InMonth(r, k)
  BY <1>1 DEF MonthOfDay, InMonth
<1>3. MonthOfDay[r] \in 1..Months /\ InMonth(r, MonthOfDay[r])
  BY <1>2, MonthExists
<1>4. r \in Nat
  BY CycleIs
<1>5. QED
  BY <1>3, <1>4, MonthIsOne

-----------------------------------------------------------------------------
(* The leaps.                                                              *)

\* The day of a time, and its month.
LEMMA MonthTyped ==
  ASSUME NEW t \in Nat
  PROVE  /\ DayOf(t) \in Nat /\ DayOf(t) % CycleDays \in 0..(CycleDays - 1)
         /\ MonthOf(t) \in 1..Months /\ InMonth(DayOf(t) % CycleDays, MonthOf(t))
<1>1. DayOf(t) \in Nat
  BY Positive, Quotient DEF DayOf
<1>2. DayOf(t) % CycleDays \in 0..(CycleDays - 1)
  BY <1>1, CycleIs, Quotient
<1>3. QED
  BY <1>1, <1>2, MonthIs DEF MonthOf

\* The next month is ahead, and until then the month stays.
LEMMA MonthStays ==
  ASSUME NEW t \in Nat
  PROVE  /\ NextMonth(t) * MinutesPerDay \in Nat /\ t < NextMonth(t) * MinutesPerDay
         /\ \A u \in t..(NextMonth(t) * MinutesPerDay - 1) : MonthOf(u) = MonthOf(t)
<1> DEFINE d == DayOf(t)
           q == d \div CycleDays
           r == d % CycleDays
           k == MonthOf(t)
           base == CycleDays * q
           D == MinutesPerDay
           next == base + MonthStart[k + 1]
<1>1. d \in Nat /\ k \in 1..Months /\ InMonth(r, k) /\ D \in Nat \ {0} /\ CycleDays \in Nat \ {0}
  BY MonthTyped, Positive, CycleIs
<1>2. q \in Nat /\ r \in 0..(CycleDays - 1) /\ d = base + r /\ base <= d /\ base \in Nat
  <2> HIDE DEF d
  <2>1. q \in Nat /\ r \in 0..(CycleDays - 1) /\ d = base + r /\ base <= d
    BY <1>1, Quotient
  <2>2. base \in Nat
    BY <1>1, <2>1
  <2>3. QED
    BY <2>1, <2>2
<1>3. k + 1 \in 1..(Months + 1) /\ k \in 1..(Months + 1) /\ Months + 1 \in 1..(Months + 1)
  BY <1>1, Positive
<1>4. MonthStart[k] \in Nat /\ MonthStart[k + 1] \in Nat
  BY <1>3, MonthsAdd
<1>5. MonthStart[k + 1] <= CycleDays
  <2>1. CASE k = Months
    BY <2>1, <1>4, CycleIs
  <2>2. CASE k # Months
    <3>1. k < Months + 1
      BY <1>1, Positive
    <3>2. QED
      BY <1>3, <3>1, CycleIs, StartsGrow
  <2>3. QED
    BY <2>1, <2>2
<1>6. NextMonth(t) = next
  <2>1. NextMonth(t) = d - r + MonthStart[k + 1]
    BY DEF NextMonth
  <2> HIDE DEF d, r, k, base
  <2>2. QED
    BY <1>2, <1>4, <2>1
<1>7. next \in Nat /\ d + 1 <= next
  <2>1. r < MonthStart[k + 1]
    BY <1>1 DEF InMonth
  <2> HIDE DEF d, r, k, base
  <2>2. QED
    BY <1>2, <1>4, <2>1
<1>8. next * D \in Nat /\ t < next * D
  <2>1. (d + 1) * D \in Nat /\ t < (d + 1) * D
    BY <1>1, SameQuotient DEF DayOf
  <2> HIDE DEF next, d, D
  <2>2. D * (d + 1) <= D * next /\ D * next \in Nat
    BY <1>1, <1>7, Grows
  <2>3. D * (d + 1) = (d + 1) * D /\ D * next = next * D
    BY <1>1, <1>7
  <2>4. QED
    BY <2>1, <2>2, <2>3
<1>9. ASSUME NEW u \in t..(next * D - 1)
      PROVE  MonthOf(u) = k
  <2> DEFINE e == DayOf(u)
  <2>1. u \in Nat /\ t <= u /\ u < next * D
    <3> HIDE DEF next, D
    <3>1. QED
      BY <1>8
  <2>2. e \in Nat /\ d <= e
    BY <1>1, <2>1, MonthTyped, QuotientGrows DEF DayOf
  <2>3. e < next
    <3> HIDE DEF next
    <3>1. QED
      BY <1>1, <1>7, <2>1, QuotientBelow DEF DayOf
  <2>4. CycleDays * q <= e /\ e < CycleDays * q + CycleDays
    <3> HIDE DEF d, r, k, e, q
    <3>1. QED
      BY <1>1, <1>2, <1>4, <1>5, <2>2, <2>3
  <2>5. e % CycleDays = e - base
    <3> HIDE DEF q, e
    <3>1. QED
      BY <1>1, <1>2, <2>2, <2>4, QuotientIs
  <2>6. InMonth(e - base, k) /\ e - base \in 0..(CycleDays - 1)
    <3> HIDE DEF d, r, k, e, q, base
    <3>1. MonthStart[k] <= r
      BY <1>1 DEF InMonth
    <3>2. QED
      BY <1>1, <1>2, <1>4, <1>5, <2>2, <2>3, <3>1 DEF InMonth
  <2>7. MonthOfDay[e - base] = k
    <3> HIDE DEF e, base, k
    <3>1. QED
      BY <1>1, <2>6, MonthIs
  <2>8. QED
    BY <2>5, <2>7 DEF MonthOf
<1>10. QED
  BY <1>6, <1>8, <1>9

\* The next day is ahead, and until then the day stays.
LEMMA DayStays ==
  ASSUME NEW t \in Nat
  PROVE  /\ (DayOf(t) + 1) * MinutesPerDay \in Nat /\ t < (DayOf(t) + 1) * MinutesPerDay
         /\ \A u \in t..((DayOf(t) + 1) * MinutesPerDay - 1) : DayOf(u) = DayOf(t)
BY Positive, SameQuotient DEF DayOf

\* No time from t to before u matches p.
NoneIn(t, u, p) == \A v \in t..(u - 1) : ~Matches(v, p)

\* Skip goes on, and leaps over no match.
LEMMA SkipIsSafe ==
  ASSUME NEW t \in Nat, NEW p, ~Matches(t, p)
  PROVE  Skip(t, p) \in Nat /\ t < Skip(t, p) /\ NoneIn(t, Skip(t, p), p)
<1>1. CASE Date(t).month \notin p.month
  <2>1. Skip(t, p) = NextMonth(t) * MinutesPerDay
    BY <1>1 DEF Skip
  <2>2. ASSUME NEW u \in t..(NextMonth(t) * MinutesPerDay - 1)
        PROVE  ~Matches(u, p)
    <3>1. MonthOf(u) = MonthOf(t)
      BY MonthStays
    <3>2. Date(u).month = Date(t).month
      BY <3>1 DEF Date
    <3>3. QED
      BY <1>1, <3>2 DEF Matches
  <2>3. QED
    BY <2>1, <2>2, MonthStays DEF NoneIn
<1>2. CASE Date(t).month \in p.month /\ ~dayMatches(Date(t), p)
  <2>1. Skip(t, p) = (DayOf(t) + 1) * MinutesPerDay
    BY <1>2 DEF Skip
  <2>2. ASSUME NEW u \in t..((DayOf(t) + 1) * MinutesPerDay - 1)
        PROVE  ~Matches(u, p)
    <3>1. DayOf(u) = DayOf(t)
      BY DayStays
    <3>2. Date(u).dom = Date(t).dom /\ Date(u).dow = Date(t).dow
      BY <3>1 DEF Date, MonthOf
    <3>3. ~dayMatches(Date(u), p)
      BY <1>2, <3>2 DEF dayMatches
    <3>4. QED
      BY <3>3 DEF Matches
  <2>3. QED
    BY <2>1, <2>2, DayStays DEF NoneIn
<1>3. CASE Date(t).month \in p.month /\ dayMatches(Date(t), p) /\ Date(t).hour \notin p.hour
  <2>1. Skip(t, p) = (t \div MinutesPerHour + 1) * MinutesPerHour
    BY <1>3 DEF Skip
  <2>2. ASSUME NEW u \in t..((t \div MinutesPerHour + 1) * MinutesPerHour - 1)
        PROVE  ~Matches(u, p)
    <3>1. u \div MinutesPerHour = t \div MinutesPerHour
      BY Positive, SameQuotient
    <3>2. Date(u).hour = Date(t).hour
      BY <3>1 DEF Date
    <3>3. QED
      BY <1>3, <3>2 DEF Matches
  <2>3. QED
    BY <2>1, <2>2, Positive, SameQuotient DEF NoneIn
<1>4. CASE Date(t).month \in p.month /\ dayMatches(Date(t), p) /\ Date(t).hour \in p.hour
  <2>1. Skip(t, p) = t + 1
    BY <1>4 DEF Skip
  <2>2. t..((t + 1) - 1) = {t}
    OBVIOUS
  <2>3. QED
    BY <2>1, <2>2 DEF NoneIn
<1>5. QED
  BY <1>1, <1>2, <1>3, <1>4

-----------------------------------------------------------------------------
(* The search.                                                             *)

\* The recursive function of nextCronRun, from its iterations and their times.
SearchStep(f, i, t, p) ==
  IF i = Cap THEN NoRun
  ELSE IF Matches(t, p) THEN t * TicksPerMinute
  ELSE f[i + 1][Skip(t, p)]

IsSearch(f, p) == f = [i \in 0..Cap |-> [t \in Nat |-> SearchStep(f, i, t, p)]]

\* Where Skip leads from a time that does not match.
LEMMA SkipTyped ==
  ASSUME NEW p
  PROVE  \A t \in Nat : ~Matches(t, p) => Skip(t, p) \in Nat
BY SkipIsSafe

\* There is such a function: its last n + 1 iterations are made of the last n.
LEMMA SearchExists ==
  ASSUME NEW p
  PROVE  \E f : IsSearch(f, p)
<1> DEFINE Good(g, n) == \A i \in 0..Cap, t \in Nat :
                           i >= Cap - n => g[i][t] = SearchStep(g, i, t, p)
           S == {n \in Nat : \E g \in [0..Cap -> [Nat -> Int]] : Good(g, n)}
<1>1. Cap \in Nat /\ TicksPerMinute \in Nat /\ NoRun \in Int
  BY Positive DEF NoRun
<1>2. \A t \in Nat : t * TicksPerMinute \in Int
  BY <1>1
<1>3. 0 \in S
  <2> DEFINE g == [i \in 0..Cap |-> [t \in Nat |-> NoRun]]
  <2>1. g \in [0..Cap -> [Nat -> Int]]
    BY <1>1
  <2>2. Good(g, 0)
    <3>1. \A i \in 0..Cap : i >= Cap - 0 => i = Cap
      BY <1>1
    <3>2. QED
      BY <3>1 DEF SearchStep
  <2>3. QED
    BY <2>1, <2>2
<1>4. ASSUME NEW n \in Nat, n \in S
      PROVE  n + 1 \in S
  <2>1. PICK g \in [0..Cap -> [Nat -> Int]] : Good(g, n)
    BY <1>4
  <2> DEFINE h == [i \in 0..Cap |-> [t \in Nat |-> SearchStep(g, i, t, p)]]
  <2>2. ASSUME NEW i \in 0..Cap, NEW t \in Nat
        PROVE  SearchStep(g, i, t, p) \in Int
    <3>1. CASE i # Cap /\ ~Matches(t, p)
      <4>1. i + 1 \in 0..Cap /\ Skip(t, p) \in Nat
        BY <1>1, <3>1, SkipTyped
      <4>2. QED
        BY <3>1, <4>1 DEF SearchStep
    <3>2. CASE i = Cap \/ Matches(t, p)
      BY <1>1, <1>2, <3>2 DEF SearchStep
    <3>3. QED
      BY <3>1, <3>2
  <2>3. \A i \in 0..Cap, t \in Nat : h[i][t] = SearchStep(g, i, t, p)
    OBVIOUS
  <2>4. h \in [0..Cap -> [Nat -> Int]]
    BY <2>2
  <2> HIDE DEF h
  <2>5. ASSUME NEW i \in 0..Cap, NEW t \in Nat, i >= Cap - (n + 1)
        PROVE  h[i][t] = SearchStep(h, i, t, p)
    <3>1. CASE i # Cap /\ ~Matches(t, p)
      <4>1. i + 1 \in 0..Cap /\ i + 1 >= Cap - n /\ Skip(t, p) \in Nat
        BY <1>1, <2>5, <3>1, SkipTyped
      <4>2. g[i + 1][Skip(t, p)] = SearchStep(g, i + 1, Skip(t, p), p)
        BY <2>1, <4>1
      <4>3. h[i + 1][Skip(t, p)] = SearchStep(g, i + 1, Skip(t, p), p)
        BY <2>3, <4>1
      <4>4. SearchStep(h, i, t, p) = SearchStep(g, i, t, p)
        BY <3>1, <4>2, <4>3 DEF SearchStep
      <4>5. QED
        BY <2>3, <4>4
    <3>2. CASE i = Cap \/ Matches(t, p)
      <4>1. SearchStep(h, i, t, p) = SearchStep(g, i, t, p)
        BY <3>2 DEF SearchStep
      <4>2. QED
        BY <2>3, <4>1
    <3>3. QED
      BY <3>1, <3>2
  <2>6. Good(h, n + 1)
    BY <2>5
  <2> HIDE DEF Good
  <2>7. QED
    BY <2>4, <2>6
<1>5. Cap \in S
  <2> HIDE DEF S
  <2>1. QED
    BY <1>1, <1>3, <1>4, Induct
<1>6. PICK g \in [0..Cap -> [Nat -> Int]] : Good(g, Cap)
  BY <1>5
<1>7. \A i \in 0..Cap, t \in Nat : g[i][t] = SearchStep(g, i, t, p)
  BY <1>1, <1>6
<1>8. g = [i \in 0..Cap |-> [t \in Nat |-> SearchStep(g, i, t, p)]]
  BY <1>7
<1>9. QED
  BY <1>8, Zenon DEF IsSearch

\* next is the first run from minute t on, or there is none for n minutes.
IsFirst(next, t, n, p) ==
  \/ next = NoRun /\ NoneIn(t, t + n, p)
  \/ \E m \in Nat : /\ t <= m /\ next = m * TicksPerMinute
                    /\ Matches(m, p) /\ NoneIn(t, m, p)

\* A leap over no match may be put before the first one.
LEMMA LeapIsFirst ==
  ASSUME NEW t \in Nat, NEW u \in Nat, NEW n \in Nat, NEW next, NEW p,
         t < u, NoneIn(t, u, p), IsFirst(next, u, n, p)
  PROVE  IsFirst(next, t, n + 1, p)
<1>1. ASSUME NEW m \in Nat, NoneIn(u, m, p)
      PROVE  NoneIn(t, m, p)
  BY <1>1 DEF NoneIn
<1>2. CASE next = NoRun /\ NoneIn(u, u + n, p)
  <2>1. NoneIn(t, u + n, p)
    BY <1>1, <1>2
  <2>2. NoneIn(t, t + (n + 1), p)
    BY <2>1 DEF NoneIn
  <2>3. QED
    BY <1>2, <2>2 DEF IsFirst
<1>3. CASE \E m \in Nat : /\ u <= m /\ next = m * TicksPerMinute
                          /\ Matches(m, p) /\ NoneIn(u, m, p)
  <2>1. PICK m \in Nat : /\ u <= m /\ next = m * TicksPerMinute
                         /\ Matches(m, p) /\ NoneIn(u, m, p)
    BY <1>3
  <2>2. t <= m /\ NoneIn(t, m, p)
    BY <1>1, <2>1
  <2>3. QED
    BY <2>1, <2>2 DEF IsFirst
<1>4. QED
  BY <1>2, <1>3 DEF IsFirst

\* The search gives the first, in as many minutes as it has iterations left.
LEMMA SearchIsFirst ==
  ASSUME NEW p, NEW f, IsSearch(f, p)
  PROVE  \A i \in 0..Cap, t \in Nat : IsFirst(f[i][t], t, Cap - i, p)
<1> DEFINE S == {i \in 0..Cap : \A t \in Nat : IsFirst(f[i][t], t, Cap - i, p)}
<1>1. Cap \in Nat
  BY Positive
<1>2. ASSUME NEW i \in 0..Cap, NEW t \in Nat
      PROVE  f[i][t] = SearchStep(f, i, t, p)
  <2> DEFINE g == [n \in 0..Cap |-> [m \in Nat |-> SearchStep(f, n, m, p)]]
  <2>1. f = g
    BY Zenon DEF IsSearch
  <2>2. g[i][t] = SearchStep(f, i, t, p)
    OBVIOUS
  <2> HIDE DEF g
  <2>3. QED
    BY <2>1, <2>2
<1>3. ASSUME NEW i \in 0..Cap, \A j \in (i + 1)..Cap : j \in S
      PROVE  i \in S
  <2>1. ASSUME NEW t \in Nat
        PROVE  IsFirst(f[i][t], t, Cap - i, p)
    <3>1. CASE i = Cap
      <4>1. f[i][t] = NoRun
        BY <1>2, <3>1 DEF SearchStep
      <4>2. NoneIn(t, t + (Cap - i), p)
        BY <1>1, <3>1 DEF NoneIn
      <4>3. QED
        BY <4>1, <4>2 DEF IsFirst
    <3>2. CASE i # Cap /\ Matches(t, p)
      <4>1. f[i][t] = t * TicksPerMinute
        BY <1>2, <3>2 DEF SearchStep
      <4>2. NoneIn(t, t, p) /\ t <= t
        BY DEF NoneIn
      <4>3. QED
        BY <3>2, <4>1, <4>2 DEF IsFirst
    <3>3. CASE i # Cap /\ ~Matches(t, p)
      <4> DEFINE u == Skip(t, p)
      <4>1. u \in Nat /\ t < u /\ NoneIn(t, u, p)
        BY <3>3, SkipIsSafe
      <4>2. f[i][t] = f[i + 1][u]
        BY <1>2, <3>3 DEF SearchStep
      <4>3. i + 1 \in (i + 1)..Cap /\ Cap - (i + 1) \in Nat /\ (Cap - (i + 1)) + 1 = Cap - i
        BY <1>1, <3>3
      <4> HIDE DEF u
      <4>4. IsFirst(f[i + 1][u], u, Cap - (i + 1), p)
        BY <1>3, <4>1, <4>3
      <4>5. QED
        BY <4>1, <4>2, <4>3, <4>4, LeapIsFirst
    <3>4. QED
      BY <3>1, <3>2, <3>3
  <2>2. QED
    BY <2>1
<1>4. \A i \in 0..Cap : i \in S
  <2> HIDE DEF S
  <2>1. QED
    BY <1>1, <1>3, Downward
<1>5. QED
  BY <1>4

\* nextCronRun gives the first run from the next whole minute on, or there is
\* none for Cap minutes (cron.ts 97-138).
THEOREM NextCronRunIsFirst ==
  ASSUME NEW expr, CronParses(expr), NEW from \in Nat
  PROVE  IsFirst(nextCronRun(expr, from), from \div TicksPerMinute + 1, Cap, parseCron(expr))
<1> DEFINE p == parseCron(expr)
           search == CHOOSE search : search =
                       [i \in 0..Cap |->
                          [t \in Nat |-> IF i = Cap THEN NoRun
                                         ELSE IF Matches(t, p) THEN t * TicksPerMinute
                                         ELSE search[i + 1][Skip(t, p)]]]
           first == from \div TicksPerMinute + 1
<1>1. nextCronRun(expr, from) = search[0][first]
  BY DEF nextCronRun
<1> HIDE DEF p
<1>2. IsSearch(search, p)
  <2>1. PICK f : IsSearch(f, p)
    BY SearchExists
  <2>2. \E g : g = [i \in 0..Cap |->
                     [t \in Nat |-> IF i = Cap THEN NoRun
                                    ELSE IF Matches(t, p) THEN t * TicksPerMinute
                                    ELSE g[i + 1][Skip(t, p)]]]
    BY <2>1, Zenon DEF IsSearch, SearchStep
  <2>3. QED
    BY <2>2, Zenon DEF IsSearch, SearchStep
<1> HIDE DEF search
<1>3. first \in Nat /\ 0 \in 0..Cap /\ Cap - 0 = Cap
  <2>1. from \div TicksPerMinute \in Nat
    BY Positive, Quotient
  <2>2. QED
    BY <2>1, Positive
<1> HIDE DEF first
<1>4. IsFirst(search[0][first], first, Cap - 0, p)
  BY <1>2, <1>3, SearchIsFirst
<1>5. QED
  BY <1>1, <1>3, <1>4 DEF p, first

-----------------------------------------------------------------------------
(* The runs.                                                               *)

\* A run that is found is later than the time it was asked for.
LEMMA MinuteIsLater ==
  ASSUME NEW t \in Nat, NEW m \in Nat
  PROVE  /\ t \div TicksPerMinute + 1 \in Nat /\ m * TicksPerMinute \in Nat
         /\ t \div TicksPerMinute + 1 <= m <=> t < m * TicksPerMinute
<1> DEFINE q == t \div TicksPerMinute
           d == TicksPerMinute
<1>1. d \in Nat \ {0}
  BY Positive
<1>2. q \in Nat /\ d * q <= t /\ t < d * q + d
  BY <1>1, Quotient
<1> HIDE DEF q, d
<1>3. m * d = d * m /\ d * m \in Nat /\ d * q \in Nat /\ d * (q + 1) = d * q + d
  BY <1>1, <1>2
<1>4. ASSUME q + 1 <= m
      PROVE  t < d * m
  <2>1. d * (q + 1) <= d * m
    BY <1>1, <1>2, <1>4, Grows
  <2>2. QED
    BY <1>1, <1>2, <1>3, <2>1
<1>5. ASSUME m <= q
      PROVE  d * m <= t
  <2>1. d * m <= d * q
    BY <1>1, <1>2, <1>5, Grows
  <2>2. QED
    BY <1>2, <1>3, <2>1
<1>6. QED
  BY <1>1, <1>2, <1>3, <1>4, <1>5 DEF q, d

LEMMA RunIsLater ==
  ASSUME NEW expr, NEW t \in Nat
  PROVE  \/ nextCronRun(expr, t) = NoRun
         \/ nextCronRun(expr, t) \in Nat /\ t < nextCronRun(expr, t)
<1>1. CASE ~CronParses(expr)
  BY <1>1 DEF nextCronRun
<1>2. CASE CronParses(expr)
  <2> DEFINE next == nextCronRun(expr, t)
             first == t \div TicksPerMinute + 1
             p == parseCron(expr)
  <2>1. IsFirst(next, first, Cap, p)
    BY <1>2, NextCronRunIsFirst
  <2> HIDE DEF next, p
  <2>2. CASE next = NoRun
    BY <2>2 DEF next
  <2>3. CASE next # NoRun
    <3>1. PICK m \in Nat : first <= m /\ next = m * TicksPerMinute
      BY <2>1, <2>3 DEF IsFirst
    <3>2. next \in Nat /\ t < next
      BY <3>1, MinuteIsLater
    <3>3. QED
      BY <3>2 DEF next
  <2>4. QED
    BY <2>2, <2>3
<1>3. QED
  BY <1>1, <1>2

\* Listed changes nothing.
LEMMA ListedIs ==
  ASSUME NEW fn
  PROVE  Listed(fn) = fn
BY DEF Listed

\* NextRun is nextCronRun, at the times it is asked for.
LEMMA NextRunIs ==
  ASSUME NEW expr \in Expressions \cup {DEFAULT_SCHEDULE}, NEW t \in Times
  PROVE  /\ NextRun[expr][t] = nextCronRun(expr, t) /\ t \in Nat
         /\ \/ NextRun[expr][t] = NoRun
            \/ NextRun[expr][t] \in Nat /\ t < NextRun[expr][t]
<1> DEFINE row(e) == [u \in Times |-> nextCronRun(e, u)]
<1>1. \A e : Listed(row(e)) = row(e)
  BY ListedIs
<1>2. NextRun = [e \in Expressions \cup {DEFAULT_SCHEDULE} |-> Listed(row(e))]
  BY ListedIs DEF NextRun
<1>3. NextRun[expr][t] = nextCronRun(expr, t)
  BY <1>1, <1>2
<1>4. t \in Nat
  BY DEF Times
<1>5. QED
  BY <1>3, <1>4, RunIsLater

-----------------------------------------------------------------------------
(* The page.                                                               *)

\* The answer that is under way was read since the page was loaded.
AnswerInv == request = "read" => answer.at \in start..clock

\* The client's time is one for which the next run may be asked.
NowInv == now # Unmounted => now \in Times

\* After a tick that could compute the next run the deadline is ahead.
CountdownInv == now # Unmounted /\ HasRun(now) => now < nextRunAt

TimerInv == TypeOK /\ AnswerInv /\ NowInv /\ CountdownInv

\* The parameters, and the times of the two clocks.
LEMMA TimerParameters ==
  /\ Starts \subseteq Nat /\ Horizon \in Nat /\ Delay \in Nat
  /\ \A s \in Starts, k \in Skews : k \in Int /\ -Delay <= k /\ k <= Delay /\ s + k >= 0
  /\ Unmounted \in Int /\ Unmounted \notin Nat
  /\ NoRun \notin Nat
  /\ Times \subseteq Nat
<1>1. Starts \subseteq Nat /\ Horizon \in Nat /\ Delay \in Nat /\ Skews \subseteq -Delay..Delay
      /\ \A s \in Starts, k \in Skews : s + k >= 0
  BY TimerAssumption
<1>2. Times \subseteq Nat
  BY DEF Times
<1>3. QED
  BY <1>1, <1>2 DEF Unmounted, NoRun

LEMMA ClockIsAsked ==
  ASSUME NEW s \in Starts, NEW k \in Skews, NEW c \in s..(s + Horizon)
  PROVE  c \in Nat /\ c \in Times /\ c + k \in Times
<1>1. s \in Nat /\ k \in Int /\ -Delay <= k /\ k <= Delay /\ s + k >= 0
      /\ Horizon \in Nat /\ Delay \in Nat
  BY TimerParameters
<1>2. c \in Nat /\ c + k \in Nat
  BY <1>1
<1>3. c \in (s - Delay)..(s + Horizon + Delay) /\ c + k \in (s - Delay)..(s + Horizon + Delay)
  BY <1>1
<1>4. QED
  BY <1>2, <1>3 DEF Times

\* The loader's deadline is a time.
LEMMA LoaderTyped ==
  ASSUME schedule \in Expressions, clock \in Times
  PROVE  LoaderNextRun \in Nat
<1>1. CASE HasRun(clock)
  BY <1>1, NextRunIs DEF LoaderNextRun, HasRun
<1>2. CASE ~HasRun(clock)
  <2>1. nextCronRun(DEFAULT_SCHEDULE, clock) # NoRun
    BY TimerAssumption
  <2>2. DEFAULT_SCHEDULE \in Expressions \cup {DEFAULT_SCHEDULE}
    OBVIOUS
  <2>3. LoaderNextRun = NextRun[DEFAULT_SCHEDULE][clock]
    BY <1>2 DEF LoaderNextRun
  <2>4. QED
    BY <2>1, <2>2, <2>3, NextRunIs
<1>3. QED
  BY <1>1, <1>2

\* What the effect of the countdown leaves.
LEMMA CrossIs ==
  ASSUME NEW t \in Times \cup {Unmounted}, NEW deadline \in Nat, Cross(t, deadline),
         schedule \in Expressions, clock \in Nat, timeouts \subseteq Nat, nextRunAt \in Nat,
         fired \subseteq 0..t
  PROVE  /\ nextRunAt' \in Nat /\ timeouts' \subseteq Nat /\ fired' \subseteq 0..t
         /\ t # Unmounted /\ HasRun(t) => t < nextRunAt'
<1>1. CASE t < deadline
  BY <1>1, TimerParameters DEF Cross
<1>2. CASE ~(t < deadline)
  <2>1. t \in Nat /\ t \in Times /\ deadline <= t
    BY <1>2, TimerParameters DEF Unmounted
  <2>2. \/ NextRun[schedule][t] = NoRun
        \/ NextRun[schedule][t] \in Nat /\ t < NextRun[schedule][t]
    BY <2>1, NextRunIs
  <2>3. nextRunAt' = IF HasRun(t) THEN NextRun[schedule][t] ELSE deadline
    BY <1>2 DEF Cross
  <2>4. nextRunAt' \in Nat /\ (HasRun(t) => t < nextRunAt')
    BY <2>2, <2>3 DEF HasRun
  <2>5. timeouts' = timeouts \cup {clock + Delay} /\ fired' = fired \cup {deadline}
    BY <1>2 DEF Cross
  <2>6. clock + Delay \in Nat /\ deadline \in 0..t
    BY <2>1, TimerParameters
  <2>7. QED
    BY <2>4, <2>5, <2>6
<1>3. QED
  BY <1>1, <1>2

\* The invariant holds at first, and every step keeps it.
LEMMA TimerInit == Init => TimerInv
<1> SUFFICES ASSUME Init PROVE TimerInv
  OBVIOUS
<1>1. schedule \in Expressions /\ skew \in Skews /\ start \in Starts /\ clock = start
      /\ start \in Nat /\ Horizon \in Nat
  BY TimerParameters DEF Init
<1>2. clock \in start..(start + Horizon) /\ start \in start..clock
  BY <1>1
<1>3. LoaderNextRun \in Nat
  BY <1>1, <1>2, ClockIsAsked, LoaderTyped
<1>4. /\ now = Unmounted /\ nextRunAt = LoaderNextRun /\ initialNextRunAt = LoaderNextRun
      /\ timeouts = {} /\ request = "none" /\ answer = NoAnswer /\ loaded = clock /\ fired = {}
  BY DEF Init
<1>5. NoAnswer \in [next : Nat, at : Nat]
  BY DEF NoAnswer
<1>6. TypeOK
  BY <1>1, <1>2, <1>3, <1>4, <1>5, TimerParameters DEF TypeOK
<1>7. QED
  BY <1>4, <1>6 DEF TimerInv, AnswerInv, NowInv, CountdownInv

LEMMA TimerStep == TimerInv /\ [Next]_vars => TimerInv'
<1> SUFFICES ASSUME TimerInv, [Next]_vars
             PROVE  TimerInv'
  OBVIOUS
<1>1. TypeOK /\ AnswerInv /\ NowInv /\ CountdownInv
  BY DEF TimerInv
<1>2. /\ schedule \in Expressions /\ skew \in Skews /\ start \in Starts
      /\ clock \in start..(start + Horizon) /\ start \in Nat /\ Horizon \in Nat
      /\ skew \in Int
  BY <1>1, TimerParameters DEF TypeOK
<1>3. clock \in Nat /\ clock \in Times /\ clock + skew \in Times /\ clock + skew \in Nat
  BY <1>2, ClockIsAsked, TimerParameters
<1>4. now \in Times \cup {Unmounted} /\ fired \subseteq 0..now /\ timeouts \subseteq Nat
      /\ nextRunAt \in Nat /\ initialNextRunAt \in Nat /\ loaded \in start..clock
      /\ answer \in [next : Nat, at : Nat] /\ (now # Unmounted => now <= clock + skew)
  BY <1>1 DEF TypeOK, NowInv
<1>5. CASE Advance
  <2>1. /\ clock < start + Horizon /\ clock' = clock + 1
        /\ UNCHANGED <<page, now, nextRunAt, initialNextRunAt, timeouts, request, answer,
                       loaded, fired>>
    BY <1>5 DEF Advance
  <2>2. clock' \in start..(start + Horizon) /\ start..clock \subseteq start..clock'
        /\ clock + skew <= clock' + skew
    BY <1>2, <2>1
  <2>3. TypeOK'
    <3>1. now # Unmounted => now <= clock' + skew
      BY <1>2, <1>3, <1>4, <2>1, TimerParameters
    <3>2. QED
      BY <1>1, <2>1, <2>2, <3>1 DEF TypeOK, page
  <2>4. AnswerInv' /\ NowInv'
    BY <1>1, <2>1, <2>2 DEF AnswerInv, NowInv, page
  <2>5. CountdownInv'
    BY <1>1, <2>1 DEF CountdownInv, HasRun, page
  <2>6. QED
    BY <2>3, <2>4, <2>5 DEF TimerInv
<1>6. CASE SetNow
  <2>1. /\ now' = clock + skew /\ Cross(now', nextRunAt)
        /\ UNCHANGED <<page, clock, initialNextRunAt, request, answer, loaded>>
    BY <1>6 DEF SetNow
  <2>2. fired \subseteq 0..now'
    <3>1. CASE now = Unmounted
      <4>1. 0..now = {}
        BY <3>1 DEF Unmounted
      <4>2. QED
        BY <1>4, <4>1
    <3>2. CASE now # Unmounted
      <4>1. now \in Nat /\ now <= now' /\ now' \in Nat
        BY <1>3, <1>4, <2>1, <3>2, TimerParameters
      <4>2. QED
        BY <1>4, <4>1
    <3>3. QED
      BY <3>1, <3>2
  <2>3. now' \in Times \cup {Unmounted}
    BY <1>3, <2>1
  <2>4. PICK t \in Times \cup {Unmounted} : t = now'
    BY <2>3
  <2>5. Cross(t, nextRunAt) /\ fired \subseteq 0..t
    BY <2>1, <2>2, <2>4
  <2>6. /\ nextRunAt' \in Nat /\ timeouts' \subseteq Nat /\ fired' \subseteq 0..t
        /\ t # Unmounted /\ HasRun(t) => t < nextRunAt'
    BY <1>2, <1>3, <1>4, <2>5, CrossIs
  <2>7. TypeOK'
    <3>1. now' \in Int /\ now' <= clock + skew
      BY <1>3, <2>1
    <3>2. QED
      BY <1>1, <2>1, <2>4, <2>6, <3>1 DEF TypeOK, page
  <2>8. AnswerInv' /\ NowInv'
    BY <1>1, <1>3, <2>1 DEF AnswerInv, NowInv, page
  <2>9. CountdownInv'
    BY <2>1, <2>4, <2>6 DEF CountdownInv, HasRun, page
  <2>10. QED
    BY <2>7, <2>8, <2>9 DEF TimerInv
<1>7. CASE \E due \in timeouts : Revalidate(due)
  <2>1. PICK due \in timeouts : Revalidate(due)
    BY <1>7
  <2>2. /\ timeouts' = timeouts \ {due} /\ request' = "sent" /\ answer' = NoAnswer
        /\ UNCHANGED <<page, clock, now, nextRunAt, initialNextRunAt, loaded, fired>>
    BY <2>1 DEF Revalidate
  <2>3. NoAnswer \in [next : Nat, at : Nat]
    BY DEF NoAnswer
  <2>4. TypeOK'
    BY <1>1, <2>2, <2>3 DEF TypeOK, page
  <2>5. AnswerInv' /\ NowInv' /\ CountdownInv'
    BY <1>1, <2>2 DEF AnswerInv, NowInv, CountdownInv, HasRun, page
  <2>6. QED
    BY <2>4, <2>5 DEF TimerInv
<1>8. CASE Read
  <2>1. /\ request' = "read" /\ answer' = [next |-> LoaderNextRun, at |-> clock]
        /\ UNCHANGED <<page, clock, now, nextRunAt, initialNextRunAt, timeouts, loaded, fired>>
    BY <1>8 DEF Read
  <2>2. LoaderNextRun \in Nat
    BY <1>2, <1>3, LoaderTyped
  <2>3. answer' \in [next : Nat, at : Nat] /\ answer'.at = clock
    BY <1>3, <2>1, <2>2
  <2>4. TypeOK'
    BY <1>1, <2>1, <2>3 DEF TypeOK, page
  <2>5. clock \in start..clock
    BY <1>2
  <2>6. AnswerInv' /\ NowInv' /\ CountdownInv'
    BY <1>1, <2>1, <2>3, <2>5 DEF AnswerInv, NowInv, CountdownInv, HasRun, page
  <2>7. QED
    BY <2>4, <2>6 DEF TimerInv
<1>9. CASE Deliver
  <2>1. /\ request = "read" /\ request' = "none" /\ answer' = NoAnswer
        /\ loaded' = answer.at /\ initialNextRunAt' = answer.next
        /\ IF answer.next = initialNextRunAt
           THEN UNCHANGED <<nextRunAt, timeouts, fired>>
           ELSE Cross(now, answer.next)
        /\ UNCHANGED <<page, clock, now>>
    BY <1>9 DEF Deliver
  <2>2. answer.next \in Nat /\ answer.at \in start..clock
    BY <1>1, <1>4, <2>1 DEF AnswerInv
  <2>3. /\ nextRunAt' \in Nat /\ timeouts' \subseteq Nat /\ fired' \subseteq 0..now
        /\ now # Unmounted /\ HasRun(now) => now < nextRunAt'
    <3>1. CASE answer.next = initialNextRunAt
      BY <1>1, <1>4, <2>1, <3>1 DEF CountdownInv
    <3>2. CASE answer.next # initialNextRunAt
      <4>1. Cross(now, answer.next)
        BY <2>1, <3>2
      <4>2. QED
        BY <1>2, <1>3, <1>4, <2>2, <4>1, CrossIs
    <3>3. QED
      BY <3>1, <3>2
  <2>4. NoAnswer \in [next : Nat, at : Nat]
    BY DEF NoAnswer
  <2>5. TypeOK'
    BY <1>1, <2>1, <2>2, <2>3, <2>4 DEF TypeOK, page
  <2>6. AnswerInv' /\ NowInv'
    BY <1>1, <2>1 DEF AnswerInv, NowInv, page
  <2>7. CountdownInv'
    BY <2>1, <2>3 DEF CountdownInv, HasRun, page
  <2>8. QED
    BY <2>5, <2>6, <2>7 DEF TimerInv
<1>10. CASE UNCHANGED vars
  <2>1. TypeOK'
    BY <1>1, <1>10 DEF TypeOK, vars, page
  <2>2. AnswerInv' /\ NowInv' /\ CountdownInv'
    BY <1>1, <1>10 DEF AnswerInv, NowInv, CountdownInv, HasRun, vars, page
  <2>3. QED
    BY <2>1, <2>2 DEF TimerInv
<1>11. QED
  BY <1>5, <1>6, <1>7, <1>8, <1>9, <1>10 DEF Next

\* In a state of the invariant the run that nextCronRun gives is the first.
LEMMA FirstInState == TypeOK => NextRunIsFirst
<1> SUFFICES ASSUME TypeOK, schedule \in Valid
             PROVE  LET next == NextRun[schedule][clock]
                        later == {t \in Runs[schedule] : t > clock}
                    IN IF next = NoRun THEN \A t \in later : t > clock + Year
                       ELSE /\ next > clock /\ next % TicksPerMinute = 0
                            /\ Matches(next \div TicksPerMinute, parseCron(schedule))
                            /\ \A t \in later : next <= t
  BY DEF NextRunIsFirst
<1> DEFINE p == parseCron(schedule)
           next == NextRun[schedule][clock]
           first == clock \div TicksPerMinute + 1
           minutes == UNION {(s \div TicksPerMinute)..((s + Horizon + Year) \div TicksPerMinute) :
                              s \in Starts}
           RunsOf(e) == LET q == parseCron(e)
                        IN {m * TicksPerMinute : m \in {t \in minutes : Matches(t, q)}}
           later == {t \in Runs[schedule] : t > clock}
<1>1. schedule \in Expressions /\ start \in Starts /\ skew \in Skews
      /\ clock \in start..(start + Horizon)
  BY DEF TypeOK
<1>2. clock \in Nat /\ clock \in Times
  BY <1>1, ClockIsAsked
<1>3. Runs = [e \in {x \in Expressions : CronParses(x)} |-> RunsOf(e)]
  BY ListedIs DEF Runs
<1>4. CronParses(schedule) /\ Runs[schedule] = RunsOf(schedule)
  <2>1. schedule \in {x \in Expressions : CronParses(x)}
    BY <1>3 DEF Valid
  <2> HIDE DEF RunsOf
  <2>2. QED
    BY <1>3, <2>1
<1>5. minutes \subseteq Nat
  <2>1. ASSUME NEW s \in Starts
        PROVE  s \div TicksPerMinute \in Nat
    BY Positive, Quotient, TimerParameters
  <2>2. QED
    BY <2>1
<1>6. ASSUME NEW t \in later
      PROVE  \E m \in Nat : t = m * TicksPerMinute /\ Matches(m, p) /\ first <= m
  <2>1. t \in RunsOf(schedule) /\ t > clock
    BY <1>4
  <2>2. PICK m \in minutes : t = m * TicksPerMinute /\ Matches(m, p)
    BY <2>1
  <2>3. m \in Nat
    BY <1>5
  <2>4. first <= m
    BY <1>2, <2>1, <2>2, <2>3, MinuteIsLater
  <2>5. QED
    BY <2>2, <2>3, <2>4
<1>7. IsFirst(next, first, Cap, p)
  BY <1>1, <1>2, <1>4, NextRunIs, NextCronRunIsFirst
<1>8. first \in Nat /\ Cap \in Nat /\ TicksPerMinute \in Nat \ {0}
  BY <1>2, Positive, MinuteIsLater
<1>9. CASE next = NoRun
  <2>1. NoneIn(first, first + Cap, p)
    <3>1. \A m \in Nat : m * TicksPerMinute # NoRun
      BY <1>8 DEF NoRun
    <3> HIDE DEF next, first, p
    <3>2. QED
      BY <1>7, <1>9, <3>1 DEF IsFirst
  <2>2. ASSUME NEW t \in later
        PROVE  t > clock + Year
    <3>1. PICK m \in Nat : t = m * TicksPerMinute /\ Matches(m, p) /\ first <= m
      BY <1>6
    <3>2. first + Cap <= m
      <4> HIDE DEF first, p
      <4>1. QED
        BY <1>8, <2>1, <3>1 DEF NoneIn
    <3>3. TicksPerMinute * (first + Cap) <= TicksPerMinute * m
      <4> HIDE DEF first
      <4>1. QED
        BY <1>8, <3>2, Grows
    <3>4. clock < first * TicksPerMinute /\ first * TicksPerMinute \in Nat
      <4>1. first <= first
        BY <1>8
      <4>2. QED
        BY <1>2, <1>8, <4>1, MinuteIsLater
    <3>5. /\ TicksPerMinute * (first + Cap) = first * TicksPerMinute + Year
          /\ TicksPerMinute * m = t /\ Year \in Nat /\ t \in Nat
      <4> HIDE DEF first
      <4>1. QED
        BY <1>8, <3>1 DEF Year
    <3>6. QED
      <4> HIDE DEF first
      <4>1. QED
        BY <1>2, <3>3, <3>4, <3>5
  <2>3. QED
    BY <1>9, <2>2
<1>10. CASE next # NoRun
  <2>1. PICK m \in Nat : /\ first <= m /\ next = m * TicksPerMinute
                         /\ Matches(m, p) /\ NoneIn(first, m, p)
    <3> HIDE DEF next, first, p
    <3>1. QED
      BY <1>7, <1>10 DEF IsFirst
  <2>2. clock < next /\ next \in Nat
    BY <1>2, <2>1, MinuteIsLater
  <2>3. next % TicksPerMinute = 0 /\ next \div TicksPerMinute = m
    <3>1. next = TicksPerMinute * m /\ next < TicksPerMinute * m + TicksPerMinute
          /\ TicksPerMinute * m <= next
      <4> HIDE DEF next
      <4>1. QED
        BY <1>8, <2>1, <2>2
    <3>2. next - TicksPerMinute * m = 0
      <4> HIDE DEF next
      <4>1. QED
        BY <2>2, <3>1
    <3> HIDE DEF next
    <3>3. QED
      BY <1>8, <2>2, <3>1, <3>2, QuotientIs
  <2>4. ASSUME NEW t \in later
        PROVE  next <= t
    <3>1. PICK n \in Nat : t = n * TicksPerMinute /\ Matches(n, p) /\ first <= n
      BY <1>6
    <3>2. m <= n
      <4> HIDE DEF first, p
      <4>1. QED
        BY <1>8, <2>1, <3>1 DEF NoneIn
    <3>3. TicksPerMinute * m <= TicksPerMinute * n
      BY <1>8, <3>2, Grows
    <3>4. TicksPerMinute * m = m * TicksPerMinute /\ TicksPerMinute * n = n * TicksPerMinute
      BY <1>8
    <3>5. QED
      BY <2>1, <3>1, <3>3, <3>4
  <2>5. QED
    BY <1>10, <2>1, <2>2, <2>3, <2>4
<1>11. QED
  BY <1>9, <1>10

\* After a tick that could compute the deadline it is a new one.
LEMMA TickStep ==
  ASSUME TimerInv, now = Unmounted \/ HasRun(now)
  PROVE  nextRunAt \notin fired
<1>1. fired \subseteq 0..now /\ nextRunAt \in Nat /\ now \in Int
      /\ (now # Unmounted /\ HasRun(now) => now < nextRunAt)
  BY DEF TimerInv, TypeOK, CountdownInv
<1>2. CASE now = Unmounted
  <2>1. 0..now = {}
    BY <1>2 DEF Unmounted
  <2>2. QED
    BY <1>1, <2>1
<1>3. CASE now # Unmounted
  BY <1>1, <1>3
<1>4. QED
  BY <1>2, <1>3

-----------------------------------------------------------------------------
(* Theorems.                                                               *)

\* What TypeOK needs to be kept by every step: an answer was read since the page
\* was loaded, the client's time is one that nextCronRun was asked for, and the
\* deadline is ahead of the last tick, unless that could compute none.
THEOREM TimerInvHolds == Spec => []TimerInv
BY TimerInit, TimerStep, PTL DEF Spec

\* The page's state has its types; the clocks, the time of the data that is shown
\* and the deadlines called back for are in order.
THEOREM TimerTypeCorrect == Spec => []TypeOK
<1>1. TimerInv => TypeOK
  BY DEF TimerInv
<1>2. QED
  BY <1>1, TimerInvHolds, PTL

\* The run nextCronRun gives the loader is a run after the server's time and no
\* run is before it; when it gives none there is none within a year.
THEOREM LoaderRunIsFirst == Spec => []NextRunIsFirst
BY TimerTypeCorrect, FirstInState, PTL

\* A tick calls back for a new deadline (next-bundle-timer.tsx 53-65).
THEOREM TicksFireNewRuns == Spec => TickFiresNewRun
<1>1. TimerInv /\ [Next]_vars =>
        [now' # now /\ now' >= nextRunAt /\ (now = Unmounted \/ HasRun(now)) =>
           nextRunAt \notin fired]_vars
  BY TickStep
<1>2. QED
  BY <1>1, TimerInvHolds, PTL DEF Spec, TickFiresNewRun
=============================================================================
