------------------------------ MODULE Calendar -------------------------------
(***************************************************************************)
(* The clock and the gate before a strategy: core/conditions.py.  Day 1 is *)
(* a Monday and days begin at midnight in India (IST); the server's own    *)
(* date, in UTC, turns at the tick Dawn (05:30 IST).                       *)
(***************************************************************************)
EXTENDS Integers

CONSTANTS
    Holidays,                 \* the days listed in HOLIDAYS
    DayLength,                \* ticks of a day
    Dawn,                     \* the tick at which the server's date turns
    MarketOpen, MarketClose,  \* the first and the last tick of the session
    FirstDay, LastDay         \* the days that are explored

ASSUME CalendarAssumption ==
    /\ DayLength \in Nat /\ Dawn \in Nat /\ MarketOpen \in Nat /\ MarketClose \in Nat
    /\ 0 < Dawn /\ Dawn <= MarketOpen /\ MarketOpen <= MarketClose /\ MarketClose < DayLength
    /\ FirstDay \in Nat \ {0} /\ LastDay \in Nat /\ FirstDay <= LastDay

VARIABLES day, time

clockVars == <<day, time>>

Days == FirstDay .. LastDay

Ticks == 0 .. DayLength - 1

ClockInit == day = FirstDay /\ time = 0

ClockTypeOK == day \in Days /\ time \in Ticks

Tick == time < DayLength - 1 /\ time' = time + 1 /\ UNCHANGED day

Midnight == time = DayLength - 1 /\ day < LastDay /\ day' = day + 1 /\ time' = 0

IsWeekend(d) == (d - 1) % 7 >= 5

IsTradingDay(d) == ~IsWeekend(d) /\ d \notin Holidays

\* Fault: any time of the day is in the session.
AnyHour(t) == t \in Ticks

\* Both ends are in the session.
IsMarketHours(t) == MarketOpen <= t /\ t <= MarketClose

\* active: is_enabled of the strategy's row, and FALSE if it cannot be read.
CanStrategyRun(active) == IsTradingDay(day) /\ IsMarketHours(time) /\ active

\* date.today() on a server that keeps UTC.
ServerDay == IF time < Dawn THEN day - 1 ELSE day

=============================================================================
