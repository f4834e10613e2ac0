-------------------------- MODULE TradingCalendar --------------------------
(***************************************************************************)
(* The two tasks of platform_runner.py that sleep until a time of the      *)
(* trading day: _eod_flatten_task (15:50) and _poll_daily_bar (16:05).     *)
(*                                                                         *)
(* Instants are minutes; a clock in New York shows an instant shifted by   *)
(* an hour after the change of a Sunday.  Both tasks subtract two aware    *)
(* datetimes of the same ZoneInfo, which Python does on the clock's        *)
(* numbers: a sleep over the change is an hour off.  A sleep may also end  *)
(* a little early, as asyncio rounds to the resolution of its clock: a     *)
(* minute stands for it.                                                   *)
(***************************************************************************)
EXTENDS Integers, FiniteSets

CONSTANTS Shifts,      \* minutes the clock is set forward by: 60, -60, 0
          StartTimes,  \* instants at which the platform is started
          Outages,     \* minutes from a failed fetch to the next that is modelled
          LastDate,    \* bound: no task acts after it
          MaxRaises    \* bound: bars whose handling raises

ASSUME ShiftsAssumption == Shifts \subseteq {-60, 0, 60}
ASSUME StartTimesAssumption == IsFiniteSet(StartTimes) /\ StartTimes \subseteq Nat /\ StartTimes # {}
ASSUME OutagesAssumption == Outages \subseteq Nat \ {0} /\ LastDate \in Nat /\ MaxRaises \in Nat

VARIABLES
  shift,        \* what the clock is changed by
  now,          \* the instant of the last event
  life,         \* the instant of the running start
  flattenWakes, \* _eod_flatten_task: when its sleep ends,
  flattenFrom,  \* and the date on which it began
  flattened,    \* history of this life: date and minute of each enforce_eod_close
  pollWakes,    \* _poll_daily_bar: when its sleep ends,
  pollFrom,     \* the date on which it began,
  pollNext,     \* and whether it then fetches or looks at the clock; none before a start
  handledBars   \* history of this life: date and minute of each _handle_bar that came to
                \* on_bar, and whether it raised after it

flattenVars == <<flattenWakes, flattenFrom, flattened>>
pollVars == <<pollWakes, pollFrom, pollNext, handledBars>>
calendarVars == <<shift, now, life, flattenVars, pollVars>>

Day == 1440
EodTime == 15 * 60 + 50
MarketClose == 16 * 60
PollTime == 16 * 60 + 5

\* Date 0 is a Monday.  The clock changes on the first Sunday at 2:00.
ChangeDate == 6
ChangeInstant == ChangeDate * Day + 120

Wall(t) == IF t < ChangeInstant THEN t ELSE t + shift
DateOf(w) == w \div Day
MinuteOf(w) == w % Day
IsWeekday(d) == d % 7 < 5
WeekdayAfter(d) == IF d % 7 < 4 THEN d + 1 ELSE 7 * (d \div 7 + 1)

Stamped(w) == [date |-> DateOf(w), minute |-> MinuteOf(w)]

\* asyncio.sleep of the difference between two readings of the clock.  What is left
\* after a sleep that was short is slept without another error.
SleptUntil(t, w) ==
  LET left == w - Wall(t)
  IN  IF left <= 0 THEN {t} ELSE IF left = 1 THEN {t + 1} ELSE {t + left - 1, t + left}

-----------------------------------------------------------------------------
(* _eod_flatten_task *)

\* Mutant: the target is looked for from tomorrow on.
FlattenTargetTomorrow(w) == WeekdayAfter(DateOf(w)) * Day + EodTime

\* Today's 15:50 on a weekday before it, else that of the next weekday.
FlattenTarget(w) ==
  (IF IsWeekday(DateOf(w)) /\ MinuteOf(w) < EodTime THEN DateOf(w) ELSE WeekdayAfter(DateOf(w)))
    * Day + EodTime

FlattenSleeps(t) ==
  /\ flattenWakes' \in SleptUntil(t, FlattenTarget(Wall(t)))
  /\ flattenFrom' = DateOf(Wall(t))

\* enforce_eod_close does nothing before 15:50; an error of the broker ends it, and
\* either way the loop looks for the next time.
FlattenRuns ==
  /\ pollNext # "none"
  /\ flattenWakes <= pollWakes
  /\ DateOf(flattenWakes) <= LastDate
  /\ now' = flattenWakes
  /\ flattened' = flattened \cup
       (IF MinuteOf(Wall(flattenWakes)) < EodTime THEN {}
        ELSE {[at |-> Stamped(Wall(flattenWakes)), from |-> flattenFrom]})
  /\ FlattenSleeps(flattenWakes)
  /\ UNCHANGED <<shift, life, pollVars>>

-----------------------------------------------------------------------------
(* _poll_daily_bar *)

\* _next_scheduled_405_et
NextScheduled(w) ==
  IF ~IsWeekday(DateOf(w)) THEN WeekdayAfter(DateOf(w)) * Day + PollTime
  ELSE IF MinuteOf(w) < PollTime THEN DateOf(w) * Day + PollTime
  ELSE w

\* Mutant: at 16:05 or after it today's time is taken again.
NextAfterToday(w) ==
  (IF IsWeekday(DateOf(w)) THEN DateOf(w) ELSE WeekdayAfter(DateOf(w))) * Day + PollTime

\* _next_trading_day_405_after
NextAfter(w) ==
  (IF IsWeekday(DateOf(w)) /\ MinuteOf(w) < PollTime THEN DateOf(w) ELSE WeekdayAfter(DateOf(w)))
    * Day + PollTime

\* The top of the loop: sleep to the time, or fetch at once.
PollLooks ==
  /\ pollNext = "look"
  /\ pollWakes <= flattenWakes
  /\ DateOf(pollWakes) <= LastDate
  /\ now' = pollWakes
  /\ pollFrom' = DateOf(Wall(pollWakes))
  /\ pollNext' = "fetch"
  /\ IF NextScheduled(Wall(pollWakes)) > Wall(pollWakes)
       THEN pollWakes' \in SleptUntil(pollWakes, NextScheduled(Wall(pollWakes)))
       ELSE UNCHANGED pollWakes
  /\ UNCHANGED <<shift, life, flattenVars, handledBars>>

Fetching ==
  /\ pollNext = "fetch"
  /\ pollWakes <= flattenWakes
  /\ DateOf(pollWakes) <= LastDate
  /\ now' = pollWakes
  /\ pollFrom' = DateOf(Wall(pollWakes))
  /\ pollNext' = "look"
  /\ UNCHANGED <<shift, life, flattenVars>>

\* on_bar has the bar.
Given(raised) ==
  handledBars' = handledBars \cup
    {[at |-> Stamped(Wall(pollWakes)), from |-> pollFrom, n |-> Cardinality(handledBars),
      raised |-> raised]}

\* A bar, handled, and the sleep to the next trading day.
PollHandles ==
  /\ Fetching
  /\ Given(FALSE)
  /\ pollWakes' \in SleptUntil(pollWakes, NextAfter(Wall(pollWakes)))

\* After on_bar the routing or post_bar_async raises (route's BrokerErrors do not come
\* here): after a minute the loop begins again.
PollRaises ==
  /\ Fetching
  /\ Cardinality({b \in handledBars : b.raised}) < MaxRaises
  /\ Given(TRUE)
  /\ pollWakes' = pollWakes + 1

\* No bar, or an error before on_bar: once more after a minute, and again while the
\* outage lasts.
PollFails ==
  /\ Fetching
  /\ \E outage \in Outages : pollWakes' = pollWakes + outage
  /\ UNCHANGED handledBars

-----------------------------------------------------------------------------

Begins(t) ==
  /\ life' = t
  /\ now' = t
  /\ flattened' = {}
  /\ FlattenSleeps(t)
  /\ handledBars' = {}
  /\ pollWakes' = t
  /\ pollFrom' = DateOf(Wall(t))
  /\ pollNext' = "look"

CalendarInit ==
  /\ shift \in Shifts
  /\ life = 0
  /\ now = 0
  /\ flattened = {}
  /\ flattenWakes = 0
  /\ flattenFrom = 0
  /\ handledBars = {}
  /\ pollWakes = 0
  /\ pollFrom = 0
  /\ pollNext = "none"

\* The platform is started, for the first time or after it died some time before.
Start405 ==
  /\ \E t \in StartTimes : t > now /\ Begins(t)
  /\ UNCHANGED shift

CalendarNext ==
  \/ FlattenRuns
  \/ PollLooks
  \/ PollHandles
  \/ PollRaises
  \/ PollFails
  \/ Start405

CalendarSpec == CalendarInit /\ [][CalendarNext]_calendarVars

-----------------------------------------------------------------------------
(* Properties *)

\* Every variable has its type.
CalendarTypeOK ==
  /\ shift \in {-60, 0, 60}
  /\ now \in Nat /\ life \in Nat
  /\ flattenWakes \in Nat /\ pollWakes \in Nat
  /\ flattenFrom \in Nat /\ pollFrom \in Nat
  /\ \A f \in flattened : f.at.date \in Nat /\ f.at.minute \in 0..(Day - 1) /\ f.from \in Nat
  /\ pollNext \in {"none", "look", "fetch"}
  /\ \A b \in handledBars :
       /\ b.at.date \in Nat /\ b.at.minute \in 0..(Day - 1)
       /\ b.from \in Nat /\ b.n \in Nat /\ b.raised \in BOOLEAN

\* The platform was up at the time m of date d and the date is over.
UpAt(d, m) ==
  /\ pollNext # "none"
  /\ Wall(life) < d * Day + m
  /\ d < DateOf(Wall(now))

\* A weekday the platform runs through has one flatten, before the market closes.  Only
\* the first one after the clock was set forward comes too late, at 16:50.
FlattenedInTime ==
  /\ \A d \in 0..LastDate : IsWeekday(d) /\ UpAt(d, EodTime) =>
       Cardinality({f \in flattened : f.at.date = d}) = 1
  /\ \A f \in flattened : f.at.minute >= MarketClose =>
       shift = 60 /\ f.from <= ChangeDate /\ ChangeDate < f.at.date
  /\ \A f \in flattened : IsWeekday(f.at.date)

\* After the day's last trade a weekday's bar is handled until one handling does not
\* raise and not again after it, never on a weekend.  A bar handled before that is of a
\* day that is not over, fetched at the end of a sleep that was a little short, or short
\* of an hour because it began on the weekend on which the clock is set back.
HandledUntilDone ==
  /\ \A b \in handledBars : IsWeekday(b.at.date)
  /\ \A b, c \in handledBars :
       b.at.date = c.at.date /\ b.at.minute >= PollTime /\ c.at.minute >= PollTime /\ ~b.raised
         => c.n <= b.n
  /\ \A b \in handledBars : b.at.minute < PollTime - 1 =>
       shift = -60 /\ ~IsWeekday(b.from) /\ b.from <= ChangeDate

=============================================================================
