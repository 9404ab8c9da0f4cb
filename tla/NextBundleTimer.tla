-------------------------- MODULE NextBundleTimer --------------------------
(***************************************************************************)
(* The countdown of the landing page to the next run of the cron.  At the  *)
(* deadline it computes the next one by itself and calls back; the page    *)
(* then waits a moment and asks the server again, whose answer carries a   *)
(* deadline of its own, computed by the clock of the server.               *)
(*                                                                         *)
(* A change of state and the effects that React runs after it are one      *)
(* step.  The browser may run any timer late.                              *)
(***************************************************************************)
EXTENDS CronSchedule

CONSTANTS Expressions,           \* values of CRON_SCHEDULE
          DEFAULT_SCHEDULE,
          Starts,                \* when the page may be loaded
          Horizon,               \* bound: how long it is looked at
          Skews,                 \* by how much the client's clock is ahead
          Delay                  \* the 2000 ms of handleBundleElapsed

\* When nextCronRun is asked, by the server or by the client.
Times == UNION {((s - Delay)..(s + Horizon + Delay)) \cap Nat : s \in Starts}

ASSUME TimerAssumption ==
  /\ Starts \subseteq Nat
  /\ Horizon \in Nat
  /\ Skews \subseteq -Delay..Delay
  /\ \A s \in Starts, k \in Skews : s + k >= 0
  /\ Delay \in Nat
  /\ \A t \in Times : nextCronRun(DEFAULT_SCHEDULE, t) # NoRun

VARIABLES schedule, skew, start, \* of this page, they do not change
          clock,                 \* of the server
          now,                   \* of the client, at its last tick
          nextRunAt,
          initialNextRunAt,      \* the property, from the last answer
          timeouts,              \* when the page will ask
          request,               \* "none", "sent", "read"
          answer,                \* of the loader, when the request is "read"
          loaded,                \* when the data that is shown was read
          fired                  \* history: the deadlines called back for

page == <<schedule, skew, start>>
vars == <<page, clock, now, nextRunAt, initialNextRunAt, timeouts, request, answer, loaded, fired>>

Unmounted == -1
NoAnswer == [next |-> 0, at |-> 0]

TypeOK ==
  /\ schedule \in Expressions /\ skew \in Skews /\ start \in Starts
  /\ clock \in start..(start + Horizon)
  /\ now \in Int /\ (now # Unmounted => now <= clock + skew)
  /\ nextRunAt \in Nat /\ initialNextRunAt \in Nat
  /\ timeouts \subseteq Nat
  /\ request \in {"none", "sent", "read"}
  /\ answer \in [next : Nat, at : Nat]
  /\ loaded \in start..clock
  /\ fired \subseteq 0..now

-----------------------------------------------------------------------------
\* The function itself, compared: TLC then evaluates its body once for each value.
Listed(fn) == CHOOSE listed \in {fn} : listed = fn

\* nextCronRun, for all that the page may ask.
NextRun ==
  Listed([expr \in Expressions \cup {DEFAULT_SCHEDULE} |->
            Listed([t \in Times |-> nextCronRun(expr, t)])])

HasRun(t) == NextRun[schedule][t] # NoRun

\* nextRunAt of the loader: an expression without a next run shows the default's.
LoaderNextRun == NextRun[IF HasRun(clock) THEN schedule ELSE DEFAULT_SCHEDULE][clock]

\* A slip: the server renders the page with its own time.
InitWithTime ==
  /\ schedule \in Expressions /\ skew \in Skews /\ start \in Starts
  /\ clock = start
  /\ now = clock
  /\ nextRunAt = LoaderNextRun /\ initialNextRunAt = LoaderNextRun
  /\ timeouts = {} /\ request = "none" /\ answer = NoAnswer
  /\ loaded = clock
  /\ fired = {}

Init ==
  /\ schedule \in Expressions /\ skew \in Skews /\ start \in Starts
  /\ clock = start
  /\ now = Unmounted
  /\ nextRunAt = LoaderNextRun /\ initialNextRunAt = LoaderNextRun
  /\ timeouts = {} /\ request = "none" /\ answer = NoAnswer
  /\ loaded = clock
  /\ fired = {}

Advance ==
  /\ clock < start + Horizon
  /\ clock' = clock + 1
  /\ UNCHANGED <<page, now, nextRunAt, initialNextRunAt, timeouts, request, answer, loaded, fired>>

\* A slip: the next deadline is left to the server.
CrossWaiting(t, deadline) ==
  /\ nextRunAt' = deadline
  /\ IF t < deadline
     THEN UNCHANGED <<timeouts, fired>>
     ELSE timeouts' = timeouts \cup {clock + Delay} /\ fired' = fired \cup {deadline}

\* A slip: a tick that comes late moves the countdown on in silence.
CrossOnTime(t, deadline) ==
  /\ nextRunAt' = IF t >= deadline /\ HasRun(t) THEN NextRun[schedule][t] ELSE deadline
  /\ IF t # deadline
     THEN UNCHANGED <<timeouts, fired>>
     ELSE timeouts' = timeouts \cup {clock + Delay} /\ fired' = fired \cup {deadline}

\* The effect of the countdown at time t of the client.
Cross(t, deadline) ==
  IF t < deadline
  THEN nextRunAt' = deadline /\ UNCHANGED <<timeouts, fired>>
  ELSE /\ nextRunAt' = IF HasRun(t) THEN NextRun[schedule][t] ELSE deadline
       /\ timeouts' = timeouts \cup {clock + Delay}
       /\ fired' = fired \cup {deadline}

\* The page mounts, or its interval ticks.
SetNow ==
  /\ now # clock + skew
  /\ now' = clock + skew
  /\ Cross(now', nextRunAt)
  /\ UNCHANGED <<page, clock, initialNextRunAt, request, answer, loaded>>

\* The page asks, and gives up the request that is under way.  At the horizon
\* the clock stands for all later times.
Revalidate(due) ==
  /\ due <= clock \/ clock = start + Horizon
  /\ timeouts' = timeouts \ {due}
  /\ request' = "sent" /\ answer' = NoAnswer
  /\ UNCHANGED <<page, clock, now, nextRunAt, initialNextRunAt, loaded, fired>>

Read ==
  /\ request = "sent"
  /\ request' = "read"
  /\ answer' = [next |-> LoaderNextRun, at |-> clock]
  /\ UNCHANGED <<page, clock, now, nextRunAt, initialNextRunAt, timeouts, loaded, fired>>

\* The answer: a deadline that differs from the last answer's replaces the one
\* of the countdown, which may be ahead of it.
Deliver ==
  /\ request = "read"
  /\ request' = "none" /\ answer' = NoAnswer
  /\ loaded' = answer.at
  /\ initialNextRunAt' = answer.next
  /\ IF answer.next = initialNextRunAt
     THEN UNCHANGED <<nextRunAt, timeouts, fired>>
     ELSE Cross(now, answer.next)
  /\ UNCHANGED <<page, clock, now>>

Next ==
  \/ Advance
  \/ SetNow
  \/ \E due \in timeouts : Revalidate(due)
  \/ Read \/ Deliver

\* Timers run in the end and requests are answered.
Fairness ==
  /\ WF_vars(Advance)
  /\ WF_vars(SetNow)
  /\ WF_vars(\E due \in timeouts : Revalidate(due))
  /\ WF_vars(Read)
  /\ WF_vars(Deliver)

Spec == Init /\ [][Next]_vars /\ Fairness

-----------------------------------------------------------------------------
(* Properties.                                                             *)

Year == Cap * TicksPerMinute

\* When the cron runs, up to a year after the page.
Runs ==
  LET minutes == UNION {(s \div TicksPerMinute)..((s + Horizon + Year) \div TicksPerMinute) :
                          s \in Starts}
  IN Listed([expr \in {e \in Expressions : CronParses(e)} |->
               LET p == parseCron(expr)
               IN {m * TicksPerMinute : m \in {t \in minutes : Matches(t, p)}}])

Valid == DOMAIN Runs

\* The time that nextCronRun gives is a run and no run is before it, though the
\* search leaps over months, days and hours, and when it gives none there is
\* none within a year of the time it was asked for (cron.ts 97-98).
NextRunIsFirst ==
  schedule \in Valid =>
    LET next == NextRun[schedule][clock]
        later == {t \in Runs[schedule] : t > clock}
    IN IF next = NoRun THEN \A t \in later : t > clock + Year
       ELSE /\ next > clock /\ next % TicksPerMinute = 0
            /\ Matches(next \div TicksPerMinute, parseCron(schedule))
            /\ \A t \in later : next <= t

\* A tick of a page whose last tick, if it had one, could compute the next run
\* calls back for a deadline it has not called back for, whatever the answers of
\* the server put into the countdown.  (An answer that comes after its own
\* deadline does call back a second time.)
TickFiresNewRun ==
  [][now' # now /\ now' >= nextRunAt /\ (now = Unmounted \/ HasRun(now)) =>
       nextRunAt \notin fired]_vars

\* After every run of the cron the page comes to show data that was read at its
\* time or later, though a page that ticks late skips runs and the two clocks
\* differ, by up to the delay of the page.  The end of the horizon is left out.
CatchesUp ==
  \A d \in 1..(Horizon - Delay) :
    (clock = start + d /\ schedule \in Valid /\ clock \in Runs[schedule])
      ~> (loaded >= start + d)
=============================================================================
