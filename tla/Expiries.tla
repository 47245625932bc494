------------------------------ MODULE Expiries ------------------------------
(***************************************************************************)
(* Which expiry is nearest, and which index the strategies trade           *)
(* (apps/marketdata/expiry.py, apps/scheduling/instrument_selector.py).    *)
(* Dates are numbered; an expiry string that does not parse is not listed. *)
(***************************************************************************)
EXTENDS Integers

Indices == {"NIFTY", "SENSEX"}

NoExpiry == 0

Earliest(days) ==
    IF days = {} THEN NoExpiry ELSE CHOOSE e \in days : \A f \in days : e <= f

\* Fault: an expiry falling on the day itself counts as over.
ExpiryDayOver(listed, day) == Earliest({e \in listed : e > day})

\* The nearest of the listed expiries that is not over on the given day.
NearestExpiry(listed, day) == Earliest({e \in listed : e >= day})

\* Monday is 0; day 1 is a Monday.
Weekday(day) == (day - 1) % 7

MondayOf(day) == day - Weekday(day)

\* Fault: Thursday does not count.
UntilWednesday(expiry, day) == MondayOf(day) = MondayOf(expiry) /\ Weekday(day) < 3

InExpiryWeek(expiry, day) == MondayOf(day) = MondayOf(expiry) /\ Weekday(day) <= 3

\* The nearest expiry that does not end the present week, asked Monday to Thursday.
SafeExpiry(listed, day) ==
    Earliest({e \in listed : e >= day /\ ~InExpiryWeek(e, day)})

\* The index with the sooner expiry; NIFTY on a tie and if there is none.
Sooner(nifty, sensex) ==
    IF sensex # NoExpiry /\ (nifty = NoExpiry \/ sensex < nifty)
    THEN "SENSEX" ELSE "NIFTY"

=============================================================================
