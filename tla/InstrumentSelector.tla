-------------------------- MODULE InstrumentSelector -------------------------
(***************************************************************************)
(* The index of the day (apps/scheduling/instrument_selector.py) on top of *)
(* the scrip master.  A thread runs one job: a preload of the list, the    *)
(* morning's select_daily_instrument_task, or a strategy's task that asks  *)
(* get_todays_instrument.  The choice is kept in storage, as a date and an *)
(* index; date 0 is no object.                                             *)
(***************************************************************************)
EXTENDS ScripMaster, Expiries

CONSTANTS
    JobOf,          \* what a thread does: "preload", "select" or "pick"
    TradingDays,    \* the days for which is_trading_day holds
    Listed          \* Listed[d][i]: the expiries of index i in the list of day d

ASSUME SelectorAssumption ==
    /\ JobOf \in [Threads -> {"preload", "select", "pick"}]
    /\ TradingDays \subseteq Days
    /\ Listed \in [Days -> [Indices -> SUBSET (Nat \ {NoExpiry})]]

VARIABLES
    job,        \* job[t]: where the job of t is
    asked,      \* asked[t]: the day it began
    near,       \* near[t]: NIFTY's nearest expiry, once known
    pick,       \* pick[t]: the index it has chosen or read
    label,      \* label[t]: the date it writes with its choice
    choice      \* the object in storage

jobVars == <<job, asked, near, pick, label, choice>>
vars == <<masterVars, jobVars>>

Fetching == {"preload", "nifty", "sensex"}

Jobs == {"idle", "cache", "store", "done", "failed", "skipped"} \cup Fetching

TypeOK ==
    /\ MasterTypeOK
    /\ job \in [Threads -> Jobs]
    /\ asked \in [Threads -> 0 .. LastDay]
    /\ near \in [Threads -> Nat]
    /\ pick \in [Threads -> Indices \cup {"None"}]
    /\ label \in [Threads -> 0 .. LastDay]
    /\ choice \in [date : 0 .. LastDay, index : Indices \cup {"None"}]

Init ==
    /\ MasterInit
    /\ job = [t \in Threads |-> "idle"]
    /\ asked = [t \in Threads |-> 0]
    /\ near = [t \in Threads |-> NoExpiry]
    /\ pick = [t \in Threads |-> "None"]
    /\ label = [t \in Threads |-> 0]
    /\ choice = [date |-> 0, index |-> "None"]

-----------------------------------------------------------------------------
Goto(t, place) == job' = [job EXCEPT ![t] = place]

\* India's date, for which the calendar is asked: the server's, which dates the
\* caches, or in the last hours of that the next one.
IndiaDates == {today, today + 1}

\* A task returns at once on a day without trading; the copies that
\* warm_scrip_master_task sends out do not ask again.
Skip(t) ==
    /\ job[t] = "idle" /\ JobOf[t] # "preload" /\ ~(IndiaDates \subseteq TradingDays)
    /\ Goto(t, "skipped")
    /\ asked' = [asked EXCEPT ![t] = today]
    /\ UNCHANGED <<masterVars, near, pick, label, choice>>

Start(t) ==
    /\ job[t] = "idle"
    /\ JobOf[t] # "preload" => IndiaDates \cap TradingDays # {}
    /\ asked' = [asked EXCEPT ![t] = today]
    /\ IF JobOf[t] = "pick" THEN UNCHANGED masterVars /\ Goto(t, "cache")
       ELSE StartFetch(t) /\ Goto(t, IF JobOf[t] = "preload" THEN "preload" ELSE "nifty")
    /\ UNCHANGED <<near, pick, label, choice>>

\* Fault: the object counts whatever its date.
AnyChoice == choice.date # 0

ChoiceIsOfToday == choice.date = today

ReadChoice(t) ==
    /\ job[t] = "cache"
    /\ ChoiceIsOfToday
    /\ pick' = [pick EXCEPT ![t] = choice.index]
    /\ Goto(t, "done")
    /\ UNCHANGED <<masterVars, asked, near, label, choice>>

MissChoice(t) ==
    /\ job[t] = "cache"
    /\ ~ChoiceIsOfToday \/ "storage" \in Faults
    /\ StartFetch(t)
    /\ Goto(t, "nifty")
    /\ UNCHANGED <<asked, near, pick, label, choice>>

Fetch(t) == FetchStep(t) /\ UNCHANGED jobVars

Preloaded(t) ==
    /\ job[t] = "preload" /\ fetch[t] = "returned"
    /\ Goto(t, "done")
    /\ UNCHANGED <<masterVars, asked, near, pick, label, choice>>

ResolveNifty(t) ==
    /\ job[t] = "nifty" /\ fetch[t] = "returned"
    /\ near' = [near EXCEPT ![t] = NearestExpiry(Listed[got[t]]["NIFTY"], began[t])]
    /\ StartFetch(t)
    /\ Goto(t, "sensex")
    /\ UNCHANGED <<asked, pick, label, choice>>

ResolveSensex(t) ==
    /\ job[t] = "sensex" /\ fetch[t] = "returned"
    /\ LET sensex == NearestExpiry(Listed[got[t]]["SENSEX"], began[t])
       IN  pick' = [pick EXCEPT ![t] = Sooner(near[t], sensex)]
    /\ label' = [label EXCEPT ![t] = today]
    /\ Goto(t, "store")
    /\ UNCHANGED <<masterVars, asked, near, choice>>

\* The write may fail, which nobody is told of.
StoreChoice(t) ==
    /\ job[t] = "store"
    /\ \/ choice' = [date |-> label[t], index |-> pick[t]]
       \/ "storage" \in Faults /\ UNCHANGED choice
    /\ Goto(t, "done")
    /\ UNCHANGED <<masterVars, asked, near, pick, label>>

GiveUp(t) ==
    /\ job[t] \in Fetching /\ fetch[t] = "raised"
    /\ Goto(t, "failed")
    /\ UNCHANGED <<masterVars, asked, near, pick, label, choice>>

Step(t) ==
    \/ ReadChoice(t)
    \/ MissChoice(t)
    \/ Fetch(t)
    \/ Preloaded(t)
    \/ ResolveNifty(t)
    \/ ResolveSensex(t)
    \/ StoreChoice(t)
    \/ GiveUp(t)

Ended(t) == job[t] \in {"idle", "done", "failed", "skipped"}

WorkerDies(p) ==
    /\ Crash(p)
    /\ job' = [t \in Threads |-> IF ProcOf[t] = p /\ ~Ended(t) THEN "failed" ELSE job[t]]
    /\ UNCHANGED <<asked, near, pick, label, choice>>

Midnight ==
    /\ NewDay
    /\ QuietMidnight => \A t \in Threads : Ended(t)
    /\ UNCHANGED jobVars

Next ==
    \/ \E t \in Threads : Skip(t) \/ Start(t) \/ Step(t)
    \/ \E p \in Procs : WorkerDies(p)
    \/ Midnight

Spec == Init /\ [][Next]_vars

\* A thread that can go on does: no call in here waits without a timeout.
FairSpec == Spec /\ \A t \in Threads : WF_vars(Step(t))

=============================================================================
