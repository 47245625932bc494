------------------------------ MODULE Overnight ------------------------------
(***************************************************************************)
(* The overnight trades and the two tasks that go through them one by one, *)
(* resume_overnight_trades_task and snapshot_overnight_pnl_task.  The      *)
(* strategy that opens and manages the trades, stock_hedge, is not in the  *)
(* repository: it is modelled from how the tasks call it.                  *)
(***************************************************************************)
EXTENDS Naturals, FiniteSets

CONSTANTS
    Trades,     \* the trades that are open or may be opened
    Opened,     \* of a trade: the mode it has been opened in, or "" if it has not
    Quoted,     \* the trades whose quotes arrive, not zero, and whose rows can be written
    Workers,    \* the worker processes
    Faults,     \* what may go wrong: see FaultKinds
    NoTrade

Modes == {"DRY", "LIVE"}

FaultKinds == {"crash", "stale_beat", "redelivery", "store", "market", "raise"}

ASSUME OvernightAssumption ==
    /\ Quoted \subseteq Trades
    /\ NoTrade \notin Trades
    /\ Faults \subseteq FaultKinds
    /\ Opened \in [Trades -> Modes \cup {""}]

VARIABLES
    status,     \* of a trade: whether it is open
    entered,    \* the mode its signal was written with
    resumed,    \* the mode it was resumed in
    loop,       \* what a worker's task is going through
    lost        \* trades on a list whose task was cut short

overnightVars == <<status, entered, resumed, loop, lost>>

NoLoop == [of |-> "", todo |-> {}, at |-> NoTrade, marked |-> {}]

Loops == [of : {"", "resume", "snapshot"}, todo : SUBSET Trades, at : Trades \cup {NoTrade},
          marked : SUBSET Trades]

OvernightInit ==
    /\ status = [t \in Trades |-> IF Opened[t] = "" THEN "none" ELSE "active"]
    /\ entered = [t \in Trades |-> IF Opened[t] = "" THEN "DRY" ELSE Opened[t]]
    /\ resumed = [t \in Trades |-> "no"]
    /\ loop = [w \in Workers |-> NoLoop]
    /\ lost = {}

OvernightTypeOK ==
    /\ status \in [Trades -> {"none", "active", "closed"}]
    /\ entered \in [Trades -> Modes]
    /\ resumed \in [Trades -> Modes \cup {"no"}]
    /\ loop \in [Workers -> Loops]
    /\ lost \subseteq Trades
    /\ \A t \in Trades : resumed[t] # "no" => status[t] # "none"

-----------------------------------------------------------------------------
Active == {t \in Trades : status[t] = "active"}

\* run_stock_hedge has bought: the trade is on record (bound: Trades).
OpenTrade(mode) ==
    /\ IF \A t \in Trades : status[t] # "none"
       THEN UNCHANGED <<status, entered>>
       ELSE \E t \in Trades :
              /\ status[t] = "none"
              /\ status' = [status EXCEPT ![t] = "active"]
              /\ entered' = [entered EXCEPT ![t] = mode]
    /\ UNCHANGED <<resumed, loop, lost>>

ListTrades(w, of) ==
    /\ loop' = [loop EXCEPT ![w] = [of |-> of, todo |-> Active, at |-> NoTrade, marked |-> {}]]
    /\ UNCHANGED <<status, entered, resumed, lost>>

\* The end of a task in the middle of its list.
CutShort(w) ==
    /\ loop' = [loop EXCEPT ![w] = NoLoop]
    /\ lost' = lost \cup loop[w].todo
    /\ UNCHANGED <<status, entered, resumed>>

-----------------------------------------------------------------------------
Resuming(w) == loop[w].of = "resume"

\* Faults: what cannot be looked up is taken to be real, or left open.
AssumeLive == "LIVE"

NoMode == ""

UnknownMode == "DRY"

\* The next trade's mode is looked up and resume_stock_hedge called with it.
Resume(w) ==
    /\ Resuming(w) /\ loop[w].at = NoTrade
    /\ \E t \in loop[w].todo :
        /\ loop' = [loop EXCEPT ![w] = [of |-> "resume", todo |-> @.todo \ {t}, at |-> t,
                                        marked |-> {}]]
        /\ \/ resumed' = [resumed EXCEPT ![t] = entered[t]]
           \/ "store" \in Faults /\ resumed' = [resumed EXCEPT ![t] = UnknownMode]
    /\ UNCHANGED <<status, entered, lost>>

\* It returns once the trade is over, or for now.
ResumeReturns(w) ==
    /\ Resuming(w) /\ loop[w].at # NoTrade
    /\ \E over \in BOOLEAN :
        status' = IF over THEN [status EXCEPT ![loop[w].at] = "closed"] ELSE status
    /\ loop' = [loop EXCEPT ![w].at = NoTrade]
    /\ UNCHANGED <<entered, resumed, lost>>

\* The call is outside any try: what it raises ends the task.
ResumeRaises(w) ==
    /\ "raise" \in Faults
    /\ Resuming(w) /\ loop[w].at # NoTrade
    /\ CutShort(w)

-----------------------------------------------------------------------------
Snapshotting(w) == loop[w].of = "snapshot"

\* Fault: a quote that fails is not caught, and ends the task.
EndsTask(w, t) == loop' = [loop EXCEPT ![w] = NoLoop]

SkipTrade(w, t) == loop' = [loop EXCEPT ![w].todo = @ \ {t}]

\* A trade's profit is computed from two quotes and stored; it is left out if a
\* quote is missing or zero, or anything raises.
Snapshot(w) ==
    /\ Snapshotting(w)
    /\ \E t \in loop[w].todo :
        \/ loop' = [loop EXCEPT ![w] = [of |-> "snapshot", todo |-> @.todo \ {t},
                                        at |-> NoTrade, marked |-> @.marked \cup {t}]]
        \/ "market" \in Faults /\ t \notin Quoted /\ SkipTrade(w, t)
    /\ UNCHANGED <<status, entered, resumed, lost>>

-----------------------------------------------------------------------------
LoopStep(w) == Resume(w) \/ ResumeReturns(w) \/ Snapshot(w)

LoopOver(w) == loop[w].of # "" /\ loop[w].todo = {} /\ loop[w].at = NoTrade

LoopEnds(w) ==
    /\ LoopOver(w)
    /\ loop' = [loop EXCEPT ![w] = NoLoop]
    /\ UNCHANGED <<status, entered, resumed, lost>>

=============================================================================
