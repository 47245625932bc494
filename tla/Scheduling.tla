----------------------------- MODULE Scheduling ------------------------------
(***************************************************************************)
(* What makes a strategy run: Celery Beat's entries, the admin's triggers, *)
(* the queue between them and a pool of workers, and the tasks the workers *)
(* run, from delivery to the signal a strategy writes.  What a signal      *)
(* leads to is the subject of Execution.                                   *)
(***************************************************************************)
EXTENDS Calendar, Overnight

CONSTANTS
    Instruments,    \* what a strategy may trade
    BeatTime,       \* of a task on Beat's schedule: the tick at which it is sent
    Pick,           \* of a day: the instrument of its strategies
    Triggers,       \* requests to the admin API
    ByHand,         \* tasks an operator starts
    MaxSent         \* bound: messages

Intraday == {"bell", "strangle", "jackpot"}

Tasks == Intraday \cup {"test", "hedge", "resume", "snapshot"}

Sides == {"", "ENTRY", "EXIT"}

\* A mode or "", the task's default.
OptionalModes == Modes \cup {""}

\* A request: who makes it, for which task, with what.  at is the trigger_time, 0
\* if there is none; side is that of a test order, BUY or SELL.
Requests == [role : {"AP", ""}, confirmed : BOOLEAN, task : {"bell", "jackpot", "test", "hedge"},
             instrument : Instruments, side : Sides, mode : OptionalModes \cup {"PAPER"},
             at : Ticks]

\* Who else sends tasks: the schedule, and an operator at the command line.
Beat     == [role |-> "beat"]
Operator == [role |-> "operator"]

ASSUME SchedulingAssumption ==
    /\ DOMAIN BeatTime \subseteq Intraday \cup {"resume", "snapshot"}
    /\ \A e \in DOMAIN BeatTime : BeatTime[e] \in Ticks
    /\ Pick \in [Days -> Instruments]
    /\ "" \notin Instruments
    /\ Triggers \subseteq Requests
    /\ ByHand \subseteq Intraday \cup {"resume", "snapshot"}
    /\ MaxSent \in Nat

VARIABLES
    fired,      \* entries Beat has sent today
    sent,       \* the number of messages sent so far
    queue,      \* messages sent and not taken
    job,        \* what a worker is doing
    signals     \* the signals written

schedulingVars == <<fired, sent, queue, job, signals>>

NoMessage == [task |-> ""]

Idle == [pc |-> "idle", message |-> NoMessage, instrument |-> "", today |-> 0]

Messages == [id : 1 .. MaxSent, copy : 0 .. 2, from : Requests \cup {Beat, Operator},
             task : Tasks, instrument : Instruments \cup {""}, side : Sides,
             mode : OptionalModes, eta : Nat]

Jobs == [pc : {"idle", "started", "picked", "gated", "holding", "login", "loop"},
         message : Messages \cup {NoMessage}, instrument : Instruments \cup {""},
         today : 0 .. LastDay]

Signals == [task : Tasks, instrument : Instruments, kind : {"ENTRY", "EXIT"},
            day : 0 .. LastDay, message : Messages, at : Nat]

SchedulingTypeOK ==
    /\ fired \subseteq DOMAIN BeatTime
    /\ sent \in 0 .. MaxSent
    /\ queue \subseteq Messages
    /\ job \in [Workers -> Jobs]
    /\ signals \subseteq Signals

SchedulingInit ==
    /\ fired = {}
    /\ sent = 0
    /\ queue = {}
    /\ job = [w \in Workers |-> Idle]
    /\ signals = {}

Now == day * DayLength + time

-----------------------------------------------------------------------------
\* An instrument that is not sent is "": the task picks one.
Send(from, task, instrument, side, mode, eta) ==
    /\ sent < MaxSent
    /\ sent' = sent + 1
    /\ queue' = queue \cup {[id |-> sent + 1, copy |-> 0, from |-> from, task |-> task,
                             instrument |-> instrument, side |-> side, mode |-> mode, eta |-> eta]}

\* Fault: every entry is LIVE.
LiveEntry(task) == "LIVE"

BeatMode(task) == IF task \in Intraday THEN "DRY" ELSE ""

\* An entry is due, Monday to Friday.
BeatFires(e) ==
    /\ time = BeatTime[e] /\ ~IsWeekend(day) /\ e \notin fired
    /\ fired' = fired \cup {e}
    /\ Send(Beat, e, "", "", BeatMode(e), 0)
    /\ UNCHANGED <<job, signals>>

\* With a stale celerybeat-schedule file Beat takes an entry to be overdue.
BeatRefires(e) ==
    /\ "stale_beat" \in Faults
    /\ Send(Beat, e, "", "", BeatMode(e), 0)
    /\ UNCHANGED <<fired, job, signals>>

-----------------------------------------------------------------------------
\* Fault: a preview starts the task.
RoleOnly(r) == r.role = "AP"

\* A request that starts a task: of an AP user, confirmed, its mode one of the two.
Accepted(r) == r.role = "AP" /\ r.confirmed /\ r.mode \in OptionalModes

\* The trigger of an index strategy passes no mode on.
TriggerIndex(r) ==
    /\ r.role = "AP" /\ r.confirmed /\ r.task \in {"bell", "jackpot"}
    /\ Send(r, r.task, IF r.task = "bell" THEN r.instrument ELSE "", "", "", 0)

\* A hedge is started if its preview could be put together.
TriggerHedge(r) ==
    /\ Accepted(r) /\ r.task = "hedge"
    /\ Send(r, "hedge", r.instrument, "", IF r.mode = "" THEN "DRY" ELSE r.mode, 0)

InTheFuture(at) == at > time

\* A test order, at once or at a later time of the same day.
TriggerTest(r) ==
    /\ Accepted(r) /\ r.task = "test" /\ r.side # ""
    /\ r.at # 0 => InTheFuture(r.at)
    /\ Send(r, "test", r.instrument, r.side, IF r.mode = "" THEN "LIVE" ELSE r.mode,
            IF r.at = 0 THEN 0 ELSE day * DayLength + r.at)

Trigger(r) ==
    /\ TriggerIndex(r) \/ TriggerHedge(r) \/ TriggerTest(r)
    /\ UNCHANGED <<fired, job, signals>>

\* celery call: a strategy right now, or the overnight trades after a restart.
CallByHand(task) ==
    /\ Send(Operator, task, "", "", "", 0)
    /\ UNCHANGED <<fired, job, signals>>

\* Fault: a message is taken before its time.
Early(m) == m.eta >= 0

Due(m) == m.eta <= Now

\* A message is acknowledged when its task begins.  One that is held back longer than
\* the broker's visibility timeout, for its time or by a worker that is busy, is
\* delivered again (bound: once).
Redeliver(m) ==
    /\ "redelivery" \in Faults
    /\ m.copy = 0
    /\ ~Due(m) \/ \E w \in Workers : job[w] # Idle
    /\ queue' = (queue \ {m}) \cup {[m EXCEPT !.copy = 1]}
    /\ UNCHANGED <<fired, sent, job, signals>>

\* What remains of a message that is taken: its second copy, if there is one.
Remains(m) == IF m.copy = 1 THEN {[m EXCEPT !.copy = 2]} ELSE {}

-----------------------------------------------------------------------------
At(w, pc) == job[w].pc = pc

TaskOf(w) == job[w].message.task

Goto(w, pc) == job' = [job EXCEPT ![w].pc = pc]

\* Fault: the worker is never free again.
KeepBusy(w) == Goto(w, "started")

Finish(w) == job' = [job EXCEPT ![w] = Idle]

Take(w, m) ==
    /\ At(w, "idle") /\ Due(m)
    /\ queue' = (queue \ {m}) \cup Remains(m)
    /\ job' = [job EXCEPT ![w] = [pc |-> "started", message |-> [m EXCEPT !.copy = 0],
                                  instrument |-> "", today |-> 0]]
    /\ UNCHANGED <<fired, sent, signals, overnightVars>>

\* Every task asks first whether today is a trading day.
NotToday(w) ==
    /\ At(w, "started") /\ ~IsTradingDay(day)
    /\ Finish(w)
    /\ UNCHANGED <<fired, sent, queue, signals, overnightVars>>

Overnight(w) == TaskOf(w) \in {"resume", "snapshot"}

PickInstrument(w) ==
    /\ At(w, "started") /\ IsTradingDay(day) /\ ~Overnight(w)
    /\ LET given == job[w].message.instrument
       IN  job' = [job EXCEPT ![w] = [pc |-> "picked", message |-> @.message, today |-> 0,
                                      instrument |-> IF given = "" THEN Pick[day] ELSE given]]
    /\ UNCHANGED <<fired, sent, queue, signals, overnightVars>>

\* The strategy's own gate, with the strategy's row as it is now.
Gate(w) ==
    /\ At(w, "picked")
    /\ \E active \in BOOLEAN :
         IF CanStrategyRun(active) THEN Goto(w, "gated") ELSE Finish(w)
    /\ UNCHANGED <<fired, sent, queue, signals, overnightVars>>

\* No instrument, no feed account, no expiry, no contract or no price.
MarketFails(w) ==
    /\ "market" \in Faults
    /\ At(w, "gated") \/ (At(w, "started") /\ IsTradingDay(day) /\ ~Overnight(w))
    /\ Finish(w)
    /\ UNCHANGED <<fired, sent, queue, signals, overnightVars>>

-----------------------------------------------------------------------------
TaskMode(m) ==
    IF m.mode # "" THEN m.mode ELSE IF m.task = "test" THEN "LIVE" ELSE "DRY"

Signal(w, kind, d) ==
    [task |-> TaskOf(w), instrument |-> job[w].instrument, kind |-> kind, day |-> d,
     message |-> job[w].message, at |-> Now]

Slot(s) == <<s.task, s.instrument, s.kind, s.day>>

Taken(s) == \E other \in signals : Slot(other) = Slot(s)

\* The signal of an entry, or of a test order in either direction; the day is the
\* server's.
FirstSignal(w) ==
    Signal(w, IF TaskOf(w) = "test" THEN job[w].message.side ELSE "ENTRY", ServerDay)

\* The entry is written and fanned out, and a strategy stays to see it through.
Enter(w) ==
    /\ At(w, "gated") /\ ~Taken(FirstSignal(w))
    /\ signals' = signals \cup {FirstSignal(w)}
    /\ IF TaskOf(w) = "test" THEN Finish(w)
       ELSE job' = [job EXCEPT ![w] = [pc |-> "holding", message |-> @.message,
                                       instrument |-> @.instrument, today |-> ServerDay]]
    /\ IF TaskOf(w) = "hedge" THEN OpenTrade(TaskMode(job[w].message))
       ELSE UNCHANGED overnightVars
    /\ UNCHANGED <<fired, sent, queue>>

\* Somebody has been here before, or the insert raises, done or not.
EntryFails(w) ==
    /\ At(w, "gated")
    /\ \/ Taken(FirstSignal(w)) /\ UNCHANGED signals
       \/ "store" \in Faults /\ UNCHANGED signals
       \/ "store" \in Faults /\ ~Taken(FirstSignal(w))
            /\ signals' = signals \cup {FirstSignal(w)}
    /\ Finish(w)
    /\ UNCHANGED <<fired, sent, queue, overnightVars>>

\* The exit carries the day of the entry.
Exit(w) ==
    /\ At(w, "holding") /\ TaskOf(w) \in Intraday
    /\ LET exit == Signal(w, "EXIT", job[w].today)
       IN  signals' = IF Taken(exit) THEN signals ELSE signals \cup {exit}
    /\ Finish(w)
    /\ UNCHANGED <<fired, sent, queue, overnightVars>>

\* The task of a hedge ends, with the trade over or not.
HedgeEnds(w) ==
    /\ At(w, "holding") /\ TaskOf(w) = "hedge"
    /\ Finish(w)
    /\ UNCHANGED <<fired, sent, queue, signals, overnightVars>>

-----------------------------------------------------------------------------
\* The trades that are open now are the task's list, if they can be read; the
\* snapshot then logs in to the first feed account.
StartLoop(w) ==
    /\ At(w, "started") /\ IsTradingDay(day) /\ Overnight(w)
    /\ \/ /\ Active = {} \/ "store" \in Faults
          /\ Finish(w) /\ UNCHANGED overnightVars
       \/ /\ Active # {}
          /\ Goto(w, IF TaskOf(w) = "snapshot" THEN "login" ELSE "loop")
          /\ ListTrades(w, TaskOf(w))
    /\ UNCHANGED <<fired, sent, queue, signals>>

LogInFeed(w) ==
    /\ At(w, "login") /\ Goto(w, "loop")
    /\ UNCHANGED <<fired, sent, queue, signals, overnightVars>>

\* No trade of the list is marked if the login is refused or raises.
LoginFails(w) ==
    /\ "market" \in Faults
    /\ At(w, "login") /\ Finish(w) /\ CutShort(w)
    /\ UNCHANGED <<fired, sent, queue, signals>>

RunLoop(w) ==
    /\ At(w, "loop")
    /\ \/ LoopStep(w) /\ UNCHANGED job
       \/ LoopEnds(w) /\ Finish(w)
    /\ UNCHANGED <<fired, sent, queue, signals>>

LoopRaises(w) ==
    /\ At(w, "loop") /\ ResumeRaises(w) /\ Finish(w)
    /\ UNCHANGED <<fired, sent, queue, signals>>

WorkerDies(w) ==
    /\ "crash" \in Faults
    /\ ~At(w, "idle")
    /\ Finish(w) /\ CutShort(w)
    /\ UNCHANGED <<fired, sent, queue, signals>>

-----------------------------------------------------------------------------
WorkStep(w) ==
    \/ NotToday(w)
    \/ PickInstrument(w)
    \/ Gate(w)
    \/ Enter(w)
    \/ EntryFails(w)
    \/ Exit(w)
    \/ HedgeEnds(w)
    \/ StartLoop(w)
    \/ LogInFeed(w)
    \/ RunLoop(w)

WorkFault(w) == MarketFails(w) \/ LoginFails(w) \/ LoopRaises(w) \/ WorkerDies(w)

\* Lookups take minutes and strategies leave the market by 15:25: only a hedge is
\* still held when the day ends.
DayIsOver == \A w \in Workers : ~At(w, "gated") /\ (At(w, "holding") => TaskOf(w) = "hedge")

SchedulingClock ==
    /\ \/ Tick /\ UNCHANGED fired
       \/ Midnight /\ DayIsOver /\ fired' = {}
    /\ UNCHANGED <<sent, queue, job, signals, overnightVars>>

Sending ==
    /\ \/ \E e \in DOMAIN BeatTime : BeatFires(e) \/ BeatRefires(e)
       \/ \E r \in Triggers : Trigger(r)
       \/ \E task \in ByHand : CallByHand(task)
       \/ \E m \in queue : Redeliver(m)
    /\ UNCHANGED overnightVars

SchedulingNext ==
    \/ SchedulingClock
    \/ UNCHANGED clockVars
         /\ \/ Sending
            \/ \E w \in Workers :
                 (\E m \in queue : Take(w, m)) \/ WorkStep(w) \/ WorkFault(w)

SchedulingWork ==
    /\ UNCHANGED clockVars
    /\ \E w \in Workers : WorkStep(w) \/ \E m \in queue : Take(w, m)

=============================================================================
