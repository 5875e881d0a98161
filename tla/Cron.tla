-------------------------------- MODULE Cron --------------------------------
(***************************************************************************)
(* When a schedule fires next: scheduling/schedule.py on a small calendar. *)
(* A moment is a minute counted from the calendar's first midnight; a cron *)
(* expression names the hours, minutes, days of the month, months and days *)
(* of the week it allows, and whether each kind of day was restricted.     *)
(***************************************************************************)
EXTENDS Naturals, FiniteSets, FiniteSetsExt

CONSTANTS
  HourLength, DayLength,          \* minutes of an hour, hours of a day
  WeekLength, MonthLength,        \* days of a week, days of a month
  YearLength,                     \* months of a year
  DayScan                         \* _MAX_DAY_SCAN: the turns of the search

ASSUME CronAssumption ==
  {HourLength, DayLength, WeekLength, MonthLength, YearLength, DayScan} \subseteq Nat \ {0}

MinutesOfDay == HourLength * DayLength
Day(t) == t \div MinutesOfDay
Minute(t) == t % HourLength
Hour(t) == (t % MinutesOfDay) \div HourLength
DayOfWeek(t) == Day(t) % WeekLength
DayOfMonth(t) == Day(t) % MonthLength
Month(t) == (Day(t) \div MonthLength) % YearLength

\* A component of a field, "a-b/step": the values from a to b, every step-th.  The
\* field's whole range stands for "*", and a single value with a step runs to its end.
Component(low, high, step) == {v \in low .. high : (v - low) % step = 0}

\* When both kinds of day are restricted either of them is enough, as in cron.
DayMatches(cron, t) ==
  LET dom == DayOfMonth(t) \in cron.daysOfMonth
      dow == DayOfWeek(t) \in cron.daysOfWeek
  IN IF cron.domRestricted /\ cron.dowRestricted THEN dom \/ dow ELSE dom /\ dow

DayFits(cron, t) == Month(t) \in cron.months /\ DayMatches(cron, t)
TimeFits(cron, t) == Hour(t) \in cron.hours /\ Minute(t) \in cron.minutes

Never == 0

NextMidnight(t) == (Day(t) + 1) * MinutesOfDay

\* The minutes left of the day of t that fit, t the first of them: none if the day does not.
FitsToday(cron, t) ==
  IF DayFits(cron, t) THEN {m \in t .. NextMidnight(t) - 1 : TimeFits(cron, m)} ELSE {}

\* CronExpression.next_after, with so many turns left, from the minute t on: a day that
\* does not fit is skipped whole, a day that fits is searched minute by minute, and the
\* search goes on at the next midnight until its turns are used up.
Search(cron) ==
  LET search[turns \in Nat] ==
        [t \in Nat |-> IF turns = 0 THEN Never
                       ELSE IF FitsToday(cron, t) # {} THEN Min(FitsToday(cron, t))
                       ELSE search[turns - 1][NextMidnight(t)]]
  IN search

FirstFrom(cron, t) == Search(cron)[DayScan][t]

\* NextAfter as if the minute being left might fire again.
NextAfterAtOnce(cron, t) == FirstFrom(cron, t)

NextAfter(cron, t) == FirstFrom(cron, t + 1)

\* ScheduleSpec.next_fire_at: a cron's next minute or an interval from now, and at
\* most the jitter more.
NextFires(spec, t) ==
  LET base == IF spec.cron # {} THEN NextAfter(CHOOSE c \in spec.cron : TRUE, t)
                                ELSE t + spec.interval
  IN IF spec.cron # {} /\ base = Never THEN {} ELSE base .. base + spec.jitter

\* ScheduleSpec.__post_init__: exactly one of a cron and a positive interval.
WellFormed(spec) ==
  /\ spec.jitter \in Nat
  /\ \/ \E c \in spec.cron : spec.cron = {c}
     \/ spec.cron = {} /\ spec.interval \in Nat \ {0}

-----------------------------------------------------------------------------
(* What the search is for.                                                 *)

Matches(cron, t) == DayFits(cron, t) /\ TimeFits(cron, t)
Reach(t) == (Day(t + 1) + DayScan) * MinutesOfDay - 1

\* A schedule fires strictly later than it is asked, a cron at the very next minute it
\* matches within the days searched: no slot is passed over and none is fired twice.
FiresNextAndLater(specs, moments) ==
  \A spec \in specs, t \in moments :
    /\ \A m \in NextFires(spec, t) : m > t
    /\ \A cron \in spec.cron :
         LET slots == {m \in t + 1 .. Reach(t) : Matches(cron, m)}
         IN NextFires(spec, t) =
              IF slots = {} THEN {} ELSE Min(slots) .. Min(slots) + spec.jitter
=============================================================================
