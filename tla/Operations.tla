----------------------------- MODULE Operations ------------------------------
(***************************************************************************)
(* The operation of the server over several days: what makes a strategy    *)
(* run, with the overnight trades, and the users' broker sessions.  The    *)
(* two share the calendar and the clock and nothing else, so a behaviour   *)
(* moves one of them, the part, and leaves the other where it is.          *)
(***************************************************************************)
EXTENDS Scheduling, Accounts

VARIABLE part

vars == <<clockVars, schedulingVars, overnightVars, accountVars, part>>

Init ==
    /\ ClockInit
    /\ SchedulingInit
    /\ OvernightInit
    /\ AccountsInit
    /\ part \in {"tasks", "accounts"}

Next ==
    /\ \/ part = "tasks"    /\ SchedulingNext /\ UNCHANGED accountVars
       \/ part = "accounts" /\ AccountsNext   /\ UNCHANGED <<schedulingVars, overnightVars>>
    /\ UNCHANGED part

Spec == Init /\ [][Next]_vars

\* Time passes, and idle workers take what is due and go on with what they do, as
\* do the refresh and the requests: each has a bounded number of steps to take, so
\* it is enough that some step is taken as long as there is one.
Clock ==
    \/ part = "tasks" /\ SchedulingClock /\ UNCHANGED <<accountVars, part>>
    \/ part = "accounts" /\ (AccountsTick \/ AccountsMidnight)
         /\ UNCHANGED <<schedulingVars, overnightVars, part>>

Work ==
    \/ part = "tasks" /\ SchedulingWork /\ UNCHANGED <<accountVars, part>>
    \/ part = "accounts" /\ AccountsWork /\ UNCHANGED <<schedulingVars, overnightVars, part>>

FairSpec == Spec /\ WF_vars(Clock) /\ WF_vars(Work)

-----------------------------------------------------------------------------
TypeOK == ClockTypeOK /\ SchedulingTypeOK /\ OvernightTypeOK /\ AccountsTypeOK

DayOf(s) == s.at \div DayLength

\* On a day of India a strategy writes one signal of a kind for an instrument at
\* most, whoever started it and on however many workers, and only on a trading day;
\* the date it carries, the server's, is the same day (test_strategy.py 65-72, 109;
\* demo_strategy.py 56, 88; conditions.py 101-119).
OneTradeADay ==
    \A s \in signals :
        /\ s.day = DayOf(s) /\ IsTradingDay(DayOf(s))
        /\ \A other \in signals :
             /\ other.task = s.task /\ other.instrument = s.instrument
             /\ other.kind = s.kind /\ DayOf(other) = DayOf(s)
             => other = s

Asked(r) == r.role = "AP" /\ r.confirmed

\* Nothing is traded that nobody has asked for: a signal comes of the schedule, of
\* the operator or of a confirmed request of an AP user, not before its time; a LIVE
\* one of such a request for LIVE, or for a test whose mode was left open; and no
\* overnight trade that was entered DRY is resumed LIVE (views.py 240-321,
\* celery.py 50-105, tasks.py 334-354).
OrdersAreAsked ==
    /\ \A s \in signals :
         LET m == s.message
         IN  /\ m.from \in {Beat, Operator} \/ Asked(m.from)
             /\ m.eta <= s.at
             /\ TaskMode(m) = "LIVE" =>
                  /\ m.from \notin {Beat, Operator}
                  /\ m.from.mode = "LIVE" \/ (m.from.task = "test" /\ m.from.mode = "")
    /\ \A t \in Trades : resumed[t] = "LIVE" => entered[t] = "LIVE"

\* Every message is taken in the end, though strategies hold workers for hours:
\* what a worker does comes to an end (tasks.py 97-203, 318-455).
MessagesAreTaken ==
    \A i \in 1 .. MaxSent : (\E m \in queue : m.id = i) ~> (\A m \in queue : m.id # i)

\* A task that goes through the overnight trades leaves none out: a trade comes off
\* its list to be resumed or marked, or because its own quotes fail, whatever happens
\* to the others, unless the worker dies, a resumed strategy raises or the snapshot's
\* one login fails, which ends the task (tasks.py 334-354, 377-427).
NoTradeIsLeftOut ==
    [][\A w \in Workers : \A t \in loop[w].todo \ loop'[w].todo :
         \/ loop'[w].at = t
         \/ t \in loop'[w].marked
         \/ t \in lost'
         \/ Snapshotting(w) /\ t \notin Quoted]_vars

\* An account the morning's refresh has counted as success has a token of its own,
\* good for the day, whatever requests write to its row before, meanwhile and after
\* (tasks.py 52-86, balance.py 61-85, accounts/views.py 67-74).
RefreshedTokensWork == \A a \in ok : row[a].token = Token(a, day)

\* An account becomes verified by a validation its user has asked for and by nothing
\* else: a refresh that has listed it before does not bring it back
\* (tasks.py 74-79, accounts/views.py 67-74).
OnlyValidationVerifies ==
    [][\A a \in Users : ~row[a].verified /\ row'[a].verified =>
         \E v \in Visits : v.kind = "validate" /\ v.user = a /\ visit[v].pc = "store"]_vars

\* The refresh comes to every account it has listed, whatever happens to the others,
\* unless its worker dies (tasks.py 52-86).
RefreshReachesEach == \A a \in Users : a \in refresh.todo ~> a \in ok \cup failed

\* The app's balance is not refused for an old token, unless midnight has passed
\* since it asked, or pin and secret are not there to log in with (balance.py 65-66,
\* 96-124).
BalanceRecovers ==
    \A v \in Visits :
        v.kind = "app" /\ Credentials[v.user] = "good" /\ visit[v].since = day =>
            visit[v].pc # "stale"

=============================================================================
