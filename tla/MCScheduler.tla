---------------------------- MODULE MCScheduler ----------------------------
EXTENDS Scheduler

CONSTANTS hot, mastercard

With(entry, env) == [entry |-> entry, env |-> env]
Two(a, b) == [s \in Sources |-> IF s = hot THEN a ELSE b]

\* Two sources at work, one of them from the start, on the production journal; one
\* source alone on the file journal; and every other entry and override.
MCStarts ==
  {[config |-> Two(With("startup", "unset"), With("listed", "unset")), journal |-> "mongo"]}
    \union {[config |-> Two(With(e, v), With("disabled", "unset")), journal |-> "json"] :
              e \in Entries, v \in Overrides}

\* Crons whose days are named by month, by week, by both or by neither, one that never
\* fires, and an interval, with and without jitter.
EveryDay == [daysOfMonth |-> 0 .. MonthLength - 1, daysOfWeek |-> 0 .. WeekLength - 1,
             months |-> 0 .. YearLength - 1, domRestricted |-> FALSE, dowRestricted |-> FALSE,
             hours |-> 0 .. DayLength - 1, minutes |-> 0 .. HourLength - 1]
MCCrons ==
  {[EveryDay EXCEPT !.minutes = {0}, !.hours = h, !.daysOfMonth = dom, !.domRestricted = TRUE,
                    !.daysOfWeek = dow, !.dowRestricted = restricted, !.months = m] :
     h \in {{0}, Component(0, 1, 1)}, dom \in {{1}, Component(0, 3, 2)},
     dow \in {{2}, {0}}, restricted \in BOOLEAN, m \in {{}, {1}, {0, 1}}}
    \union {EveryDay, [EveryDay EXCEPT !.minutes = {1}, !.daysOfWeek = {1}, !.dowRestricted = TRUE]}
MCSchedules ==
  {[cron |-> {c}, interval |-> 0, jitter |-> j] : c \in MCCrons, j \in {0, 2}}
    \union {[cron |-> {}, interval |-> 3, jitter |-> j] : j \in {0, 2}}
MCMoments == 0 .. 3 * MonthLength * YearLength
=============================================================================
