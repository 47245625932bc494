-------------------------- MODULE OperationsProofs ---------------------------
(***************************************************************************)
(* The safety properties of what makes a strategy run, proved: an          *)
(* inductive invariant of the queue, the workers, the signals and the      *)
(* lists of overnight trades.  The other part of Operations leaves them    *)
(* alone; it is the subject of AccountProofs.                              *)
(***************************************************************************)
EXTENDS AccountProofs

\* A message somebody may send, asked for if it trades for real.
Proper(m) ==
    /\ m.from \in {Beat, Operator} \/ Asked(m.from)
    /\ TaskMode(m) = "LIVE" =>
         /\ m.from \notin {Beat, Operator}
         /\ m.from.mode = "LIVE" \/ (m.from.task = "test" /\ m.from.mode = "")
    /\ m.task = "test" => m.side # ""

QueueInv == \A m \in queue : Proper(m)

InSession == IsTradingDay(day) /\ Dawn <= time

\* A worker that is past the gate is still in the session of that day.
GoodJob(w) ==
    /\ job[w].pc # "idle" =>
         job[w].message \in Messages /\ Proper(job[w].message) /\ job[w].message.eta <= Now
    /\ job[w].pc \in {"picked", "gated", "holding"} => job[w].instrument \in Instruments
    /\ job[w].pc = "gated" => InSession
    /\ job[w].pc = "holding" /\ TaskOf(w) \in Intraday => InSession /\ job[w].today = day

JobsInv == \A w \in Workers : GoodJob(w)

GoodSignal(s) ==
    /\ s.day = DayOf(s) /\ IsTradingDay(s.day)
    /\ Proper(s.message) /\ s.message.eta <= s.at

SignalsInv ==
    /\ \A s \in signals : GoodSignal(s)
    /\ \A s, other \in signals : Slot(s) = Slot(other) => s = other

\* A task has a list while it logs in for it and goes through it.
ListPcs == {"login", "loop"}

USE DEF ListPcs

\* A list is gone when its task is, and what is on it has been opened.
GoodLoop(w) ==
    /\ job[w].pc \notin ListPcs => loop[w] = NoLoop
    /\ \A t \in loop[w].todo : status[t] # "none"

LoopsInv == \A w \in Workers : GoodLoop(w)

ResumedAsEntered == \A t \in Trades : resumed[t] = "LIVE" => entered[t] = "LIVE"

TasksInv ==
    /\ ClockTypeOK
    /\ SchedulingTypeOK
    /\ OvernightTypeOK
    /\ QueueInv
    /\ JobsInv
    /\ SignalsInv
    /\ LoopsInv
    /\ ResumedAsEntered

-----------------------------------------------------------------------------
\* The tick d * L + t is one of day d.
LEMMA DayOfTick ==
    ASSUME NEW L \in Nat, NEW d \in Nat, NEW t \in Nat, t < L
    PROVE  (d * L + t) \div L = d
<1> DEFINE q == (d * L + t) \div L
<1>1. L > 0 /\ d * L + t \in Nat
  OBVIOUS
<1>2. q \in Int /\ q * L <= d * L + t /\ d * L + t < (q + 1) * L
  BY <1>1
<1> HIDE DEF q
<1>3. ASSUME q < d PROVE FALSE
  <2>1. (q + 1) * L <= d * L
    BY <1>2, <1>3
  <2> QED
    BY <1>2, <2>1
<1>4. ASSUME q > d PROVE FALSE
  <2>1. (d + 1) * L <= q * L
    BY <1>2, <1>4
  <2> QED
    BY <1>2, <2>1
<1>5. q = d
  BY <1>2, <1>3, <1>4
<1> QED
  BY <1>5 DEF q

\* The day of the tick that is now, and the way it goes on.
LEMMA NowIsToday == ClockTypeOK => Now \in Nat /\ Now \div DayLength = day
<1> SUFFICES ASSUME ClockTypeOK PROVE Now \in Nat /\ Now \div DayLength = day
  OBVIOUS
<1>1. day \in Nat /\ time \in Nat /\ DayLength \in Nat /\ time < DayLength
  BY ClockNumbers
<1> QED
  BY <1>1, DayOfTick DEF Now

LEMMA NowGoesOn == ClockTypeOK /\ (Tick \/ Midnight) => Now' = Now + 1
<1> SUFFICES ASSUME ClockTypeOK, Tick \/ Midnight PROVE Now' = Now + 1
  OBVIOUS
<1>1. day \in Nat /\ time \in Nat /\ DayLength \in Nat
  BY ClockNumbers
<1>2. CASE Tick
  BY <1>1, <1>2 DEF Tick, Now
<1>3. CASE Midnight
  <2>1. (day + 1) * DayLength = day * DayLength + DayLength
    BY <1>1
  <2> QED
    BY <1>1, <1>3, <2>1 DEF Midnight, Now
<1> QED
  BY <1>2, <1>3

\* What is on record of a message.
LEMMA MessageFields ==
    ASSUME NEW m \in Messages
    PROVE  /\ m.eta \in Nat /\ m.side \in {"", "ENTRY", "EXIT"} /\ m.task \in Tasks
           /\ m.instrument \in Instruments \cup {""} /\ m.mode \in {"", "DRY", "LIVE"}
           /\ m.from \in Requests \cup {Beat, Operator}
  BY DEF Messages, Sides, Modes, OptionalModes

LEMMA JobFields ==
    ASSUME NEW x \in Jobs
    PROVE  /\ x.pc \in {"idle", "started", "picked", "gated", "holding", "login", "loop"}
           /\ x.message \in Messages \cup {NoMessage}
           /\ x.instrument \in Instruments \cup {""} /\ x.today \in 0 .. LastDay
           /\ x = [pc |-> x.pc, message |-> x.message, instrument |-> x.instrument,
                   today |-> x.today]
  BY DEF Jobs

\* A job that is put together is one.
LEMMA JobType ==
    ASSUME NEW pc \in {"idle", "started", "picked", "gated", "holding", "login", "loop"},
           NEW m \in Messages \cup {NoMessage}, NEW i \in Instruments \cup {""},
           NEW d \in 0 .. LastDay
    PROVE  [pc |-> pc, message |-> m, instrument |-> i, today |-> d] \in Jobs
  BY DEF Jobs

LEMMA IdleIsJob == Idle \in Jobs
<1>1. 0 \in 0 .. LastDay
  BY ClockNumbers
<1> QED
  BY <1>1 DEF Idle, Jobs

LEMMA TasksInitial == ClockTypeOK /\ SchedulingInit /\ OvernightInit => TasksInv
<1> SUFFICES ASSUME ClockTypeOK, SchedulingInit, OvernightInit PROVE TasksInv
  OBVIOUS
<1>1. SchedulingTypeOK
  <2>1. MaxSent \in Nat
    BY SchedulingAssumption
  <2>2. 0 \in 0 .. MaxSent
    BY <2>1
  <2> QED
    BY <2>2, IdleIsJob DEF SchedulingInit, SchedulingTypeOK
<1>2. OvernightTypeOK
  <2>1. status \in [Trades -> {"none", "active", "closed"}]
    BY DEF OvernightInit
  <2>2. entered \in [Trades -> Modes]
    BY OvernightAssumption DEF OvernightInit, Modes
  <2>3. resumed \in [Trades -> Modes \cup {"no"}] /\ \A t \in Trades : resumed[t] = "no"
    BY DEF OvernightInit
  <2>4. loop \in [Workers -> Loops]
    BY DEF OvernightInit, NoLoop, Loops
  <2> QED
    BY <2>1, <2>2, <2>3, <2>4 DEF OvernightInit, OvernightTypeOK
<1>3. QueueInv /\ SignalsInv
  BY DEF SchedulingInit, QueueInv, SignalsInv
<1>4. JobsInv
  BY DEF SchedulingInit, JobsInv, GoodJob, Idle
<1>5. LoopsInv
  BY DEF SchedulingInit, OvernightInit, LoopsInv, GoodLoop, NoLoop, Idle
<1>6. ResumedAsEntered
  BY DEF OvernightInit, ResumedAsEntered
<1> QED
  BY <1>1, <1>2, <1>3, <1>4, <1>5, <1>6 DEF TasksInv

-----------------------------------------------------------------------------
LEMMA OneMore ==
    /\ \A M \in Nat : \A n \in 0 .. M : n < M => n + 1 \in 0 .. M /\ n + 1 \in 1 .. M
    /\ 0 \in 0 .. 2
  OBVIOUS

\* What is sent with these is proper.
Sendable(from, task, side, mode) ==
    \A m \in Messages :
        m.from = from /\ m.task = task /\ m.side = side /\ m.mode = mode => Proper(m)

\* A message that is sent joins the queue.
LEMMA MessageSent ==
    ASSUME TasksInv, NEW from \in Requests \cup {Beat, Operator}, NEW task \in Tasks,
           NEW instrument \in Instruments \cup {""}, NEW side \in Sides,
           NEW mode \in OptionalModes, NEW eta \in Nat,
           Send(from, task, instrument, side, mode, eta),
           Sendable(from, task, side, mode)
    PROVE  sent' \in 0 .. MaxSent /\ queue' \subseteq Messages /\ QueueInv'
<1> DEFINE m == [id |-> sent + 1, copy |-> 0, from |-> from, task |-> task,
                 instrument |-> instrument, side |-> side, mode |-> mode, eta |-> eta]
<1>1. /\ sent \in 0 .. MaxSent /\ MaxSent \in Nat /\ queue \subseteq Messages /\ QueueInv
      /\ sent < MaxSent /\ sent' = sent + 1 /\ queue' = queue \cup {m}
  BY SchedulingAssumption DEF TasksInv, SchedulingTypeOK, Send
<1> HIDE DEF m
<1>2. sent' \in 0 .. MaxSent /\ sent + 1 \in 1 .. MaxSent /\ 0 \in 0 .. 2
  BY <1>1, OneMore, Zenon
<1>3. m \in Messages
  BY <1>2 DEF Messages, m
<1>4. m.from = from /\ m.task = task /\ m.side = side /\ m.mode = mode
  BY DEF m
<1>5. Proper(m)
  BY <1>3, <1>4 DEF Sendable
<1> QED
  BY <1>1, <1>2, <1>3, <1>5 DEF QueueInv

\* A copy of a message is as proper as the message.
LEMMA CopyIsProper ==
    ASSUME NEW m \in Messages, Proper(m), NEW c \in 0 .. 2
    PROVE  /\ [m EXCEPT !.copy = c] \in Messages /\ Proper([m EXCEPT !.copy = c])
           /\ [m EXCEPT !.copy = c].eta = m.eta
<1> DEFINE x == [m EXCEPT !.copy = c]
<1>1. x \in Messages /\ x.eta = m.eta
  BY DEF Messages
<1>2. x.from = m.from /\ x.task = m.task /\ x.side = m.side /\ x.mode = m.mode
  BY DEF Messages
<1> HIDE DEF x
<1>3. Proper(x)
  BY <1>2 DEF Proper, TaskMode
<1> QED
  BY <1>1, <1>3 DEF x

\* Whoever sends: the schedule and the operator send what is not LIVE, an AP user
\* what the request says (views.py 78-321, celery.py 50-105).
LEMMA SendingPreserves ==
    ASSUME TasksInv, UNCHANGED clockVars, Sending
    PROVE  TasksInv'
<1>1. /\ UNCHANGED <<day, time, job, signals, status, entered, resumed, loop, lost>>
      /\ fired' \subseteq DOMAIN BeatTime
      /\ \/ \E e \in DOMAIN BeatTime : Send(Beat, e, "", "", BeatMode(e), 0)
         \/ \E r \in Triggers : TriggerIndex(r) \/ TriggerHedge(r) \/ TriggerTest(r)
         \/ \E task \in ByHand : Send(Operator, task, "", "", "", 0)
         \/ \E m \in queue : Redeliver(m)
  BY DEF TasksInv, SchedulingTypeOK, Sending, BeatFires, BeatRefires, Trigger, CallByHand,
         Redeliver, clockVars, overnightVars
<1>2. SUFFICES sent' \in 0 .. MaxSent /\ queue' \subseteq Messages /\ QueueInv'
  <2>1. Now' = Now /\ UNCHANGED <<clockVars, overnightVars, job, signals>>
    BY <1>1 DEF Now, clockVars, overnightVars
  <2> QED
    BY <1>1, <2>1
    DEF TasksInv, SchedulingTypeOK, OvernightTypeOK, ClockTypeOK, JobsInv, GoodJob, InSession,
        TaskOf, SignalsInv, GoodSignal, LoopsInv, GoodLoop, ResumedAsEntered
<1>3. ASSUME NEW e \in DOMAIN BeatTime, Send(Beat, e, "", "", BeatMode(e), 0)
      PROVE  sent' \in 0 .. MaxSent /\ queue' \subseteq Messages /\ QueueInv'
  <2>1. e \in Tasks /\ e # "test" /\ BeatMode(e) \in {"DRY", ""} /\ BeatMode(e) \in OptionalModes
    BY SchedulingAssumption DEF Tasks, Intraday, BeatMode, OptionalModes, Modes
  <2>2. Sendable(Beat, e, "", BeatMode(e))
    BY <2>1 DEF Sendable, Proper, TaskMode
  <2>3. Beat \in Requests \cup {Beat, Operator} /\ "" \in Sides /\ 0 \in Nat
    BY DEF Sides
  <2> HIDE DEF BeatMode
  <2> QED
    BY <1>3, <2>1, <2>2, <2>3, MessageSent
<1>4. ASSUME NEW task \in ByHand, Send(Operator, task, "", "", "", 0)
      PROVE  sent' \in 0 .. MaxSent /\ queue' \subseteq Messages /\ QueueInv'
  <2>1. task \in Tasks /\ task # "test"
    BY SchedulingAssumption DEF Tasks, Intraday
  <2>2. Sendable(Operator, task, "", "")
    BY <2>1 DEF Sendable, Proper, TaskMode
  <2>3. /\ Operator \in Requests \cup {Beat, Operator} /\ 0 \in Nat
        /\ "" \in Sides /\ "" \in OptionalModes
    BY DEF Sides, OptionalModes
  <2> QED
    BY <1>4, <2>1, <2>2, <2>3, MessageSent
<1>5. ASSUME NEW r \in Triggers, TriggerIndex(r) \/ TriggerHedge(r) \/ TriggerTest(r)
      PROVE  sent' \in 0 .. MaxSent /\ queue' \subseteq Messages /\ QueueInv'
  <2>1. /\ r \in Requests /\ r \in Requests \cup {Beat, Operator} /\ r.side \in Sides
        /\ r.instrument \in Instruments \cup {""} /\ r.task \in Tasks
        /\ r.role \in {"AP", ""} /\ r.at \in Ticks
    BY SchedulingAssumption DEF Requests, Tasks, Intraday
  <2>2. r \notin {Beat, Operator}
    <3>1. Beat.role = "beat" /\ Operator.role = "operator"
      BY DEF Beat, Operator
    <3> QED
      BY <2>1, <3>1
  <2>3. "" \in Sides /\ "" \in OptionalModes /\ 0 \in Nat
    BY DEF Sides, OptionalModes
  <2>4. CASE TriggerIndex(r)
    <3>1. /\ Asked(r) /\ r.task # "test"
          /\ Send(r, r.task, IF r.task = "bell" THEN r.instrument ELSE "", "", "", 0)
      BY <2>4 DEF TriggerIndex, Asked
    <3>2. Sendable(r, r.task, "", "")
      BY <3>1 DEF Sendable, Proper, TaskMode
    <3>3. (IF r.task = "bell" THEN r.instrument ELSE "") \in Instruments \cup {""}
      BY <2>1
    <3> QED
      BY <2>1, <2>3, <3>1, <3>2, <3>3, MessageSent
  <2>5. CASE TriggerHedge(r)
    <3> DEFINE mode == IF r.mode = "" THEN "DRY" ELSE r.mode
    <3>1. Asked(r) /\ r.task = "hedge" /\ Send(r, "hedge", r.instrument, "", mode, 0)
      BY <2>5 DEF TriggerHedge, Accepted, Asked
    <3>2. mode \in OptionalModes /\ (mode = "LIVE" => r.mode = "LIVE") /\ mode # ""
          /\ "hedge" \in Tasks
      BY <2>5 DEF TriggerHedge, Accepted, OptionalModes, Modes, Tasks
    <3> HIDE DEF mode
    <3>3. Sendable(r, "hedge", "", mode)
      BY <2>2, <3>1, <3>2 DEF Sendable, Proper, TaskMode
    <3> QED
      BY <2>1, <2>3, <3>1, <3>2, <3>3, MessageSent
  <2>6. CASE TriggerTest(r)
    <3> DEFINE mode == IF r.mode = "" THEN "LIVE" ELSE r.mode
               eta == IF r.at = 0 THEN 0 ELSE day * DayLength + r.at
    <3>1. /\ Asked(r) /\ r.task = "test" /\ r.side # ""
          /\ Send(r, "test", r.instrument, r.side, mode, eta)
      BY <2>6 DEF TriggerTest, Accepted, Asked
    <3>2. /\ mode \in OptionalModes /\ mode # "" /\ "test" \in Tasks
          /\ mode = "LIVE" => r.mode = "LIVE" \/ r.mode = ""
      BY <2>6 DEF TriggerTest, Accepted, OptionalModes, Modes, Tasks
    <3>3. eta \in Nat
      <4>1. day \in Nat /\ DayLength \in Nat
        BY ClockNumbers DEF TasksInv
      <4>2. r.at \in Nat
        <5>1. r.at \in 0 .. DayLength - 1
          BY <2>1 DEF Ticks
        <5> QED
          BY <4>1, <5>1
      <4>3. day * DayLength \in Nat
        BY <4>1
      <4> QED
        BY <4>2, <4>3
    <3> HIDE DEF mode, eta
    <3>4. Sendable(r, "test", r.side, mode)
      BY <2>2, <3>1, <3>2 DEF Sendable, Proper, TaskMode
    <3> QED
      BY <2>1, <3>1, <3>2, <3>3, <3>4, MessageSent
  <2> QED
    BY <1>5, <2>4, <2>5, <2>6
<1>6. ASSUME NEW m \in queue, Redeliver(m)
      PROVE  sent' \in 0 .. MaxSent /\ queue' \subseteq Messages /\ QueueInv'
  <2>1. m \in Messages /\ Proper(m) /\ queue \subseteq Messages /\ QueueInv /\ sent' = sent
    BY <1>6 DEF TasksInv, SchedulingTypeOK, QueueInv, Redeliver
  <2>2. [m EXCEPT !.copy = 1] \in Messages /\ Proper([m EXCEPT !.copy = 1])
    <3>1. 1 \in 0 .. 2
      OBVIOUS
    <3> QED
      BY <2>1, <3>1, CopyIsProper
  <2> QED
    BY <1>6, <2>1, <2>2 DEF Redeliver, TasksInv, SchedulingTypeOK, QueueInv
<1> QED
  BY <1>1, <1>3, <1>4, <1>5, <1>6

-----------------------------------------------------------------------------
\* The queue, the lists of trades and the signals do not depend on each other.
Around == UNCHANGED <<day, time, fired, sent>>

\* A worker that goes one step on changes nothing for the others.
LEMMA OneJob ==
    ASSUME TasksInv, Around, NEW w \in Workers, NEW x \in Jobs,
           job' = [job EXCEPT ![w] = x],
           x.pc # "idle" => x.message \in Messages /\ Proper(x.message) /\ x.message.eta <= Now,
           x.pc \in {"picked", "gated", "holding"} => x.instrument \in Instruments,
           x.pc = "gated" => InSession,
           x.pc = "holding" /\ x.message.task \in Intraday => InSession /\ x.today = day
    PROVE  job' \in [Workers -> Jobs] /\ JobsInv'
<1>1. job \in [Workers -> Jobs] /\ JobsInv
  BY DEF TasksInv, SchedulingTypeOK
<1>2. Now' = Now /\ (InSession' <=> InSession) /\ day' = day
  BY DEF Around, Now, InSession
<1>3. job' \in [Workers -> Jobs]
  BY <1>1
<1>4. ASSUME NEW u \in Workers, u # w PROVE GoodJob(u)'
  <2>1. job'[u] = job[u] /\ GoodJob(u)
    BY <1>1, <1>4 DEF JobsInv
  <2> QED
    BY <1>2, <2>1 DEF GoodJob, TaskOf
<1>5. GoodJob(w)'
  <2>1. job'[w] = x
    BY <1>1
  <2> QED
    BY <1>2, <2>1 DEF GoodJob, TaskOf
<1> QED
  BY <1>3, <1>4, <1>5 DEF JobsInv

\* A worker that is done.
LEMMA Done ==
    ASSUME TasksInv, Around, NEW w \in Workers, Finish(w)
    PROVE  /\ job' \in [Workers -> Jobs] /\ JobsInv' /\ job'[w].pc = "idle"
           /\ \A u \in Workers : u # w => job'[u] = job[u]
<1>1. job' = [job EXCEPT ![w] = Idle] /\ job \in [Workers -> Jobs]
  BY DEF Finish, TasksInv, SchedulingTypeOK
<1>2. Idle.pc = "idle"
  BY DEF Idle
<1> QED
  BY <1>1, <1>2, IdleIsJob, OneJob

\* A signal in a slot that was free.
LEMMA SignalWritten ==
    ASSUME TasksInv, NEW s \in Signals, GoodSignal(s), ~Taken(s), signals' = signals \cup {s}
    PROVE  signals' \subseteq Signals /\ SignalsInv'
<1>1. signals \subseteq Signals /\ SignalsInv
  BY DEF TasksInv, SchedulingTypeOK
<1>2. \A u \in signals' : GoodSignal(u)
  BY <1>1 DEF SignalsInv
<1>3. \A u, other \in signals' : Slot(u) = Slot(other) => u = other
  BY <1>1 DEF SignalsInv, Taken
<1> QED
  BY <1>1, <1>2, <1>3 DEF SignalsInv, GoodSignal

\* What a step of a worker leaves to be shown.
LEMMA WorkLeft ==
    ASSUME TasksInv, Around, job' \in [Workers -> Jobs], JobsInv',
           queue' \subseteq queue \/ (queue' \subseteq Messages /\ QueueInv'),
           signals' \subseteq Signals, SignalsInv',
           OvernightTypeOK', LoopsInv', ResumedAsEntered'
    PROVE  TasksInv'
  BY DEF TasksInv, Around, ClockTypeOK, SchedulingTypeOK, QueueInv

\* A step of a worker that is not at a list and leaves the trades alone.
LEMMA LoopsStay ==
    ASSUME TasksInv, NEW w \in Workers, UNCHANGED overnightVars, job[w].pc \notin ListPcs,
           \A u \in Workers : u # w => job'[u] = job[u]
    PROVE  OvernightTypeOK' /\ LoopsInv' /\ ResumedAsEntered'
<1>1. OvernightTypeOK /\ LoopsInv /\ ResumedAsEntered
  BY DEF TasksInv
<1>2. LoopsInv'
  BY <1>1 DEF LoopsInv, GoodLoop, overnightVars
<1> QED
  BY <1>1, <1>2 DEF OvernightTypeOK, ResumedAsEntered, overnightVars

-----------------------------------------------------------------------------
\* A worker takes a message: it is due.
LEMMA TakePreserves ==
    ASSUME TasksInv, UNCHANGED clockVars, NEW w \in Workers, NEW m \in queue, Take(w, m)
    PROVE  TasksInv'
<1> DEFINE n == [m EXCEPT !.copy = 0]
           x == [pc |-> "started", message |-> n, instrument |-> "", today |-> 0]
<1>1. /\ Around /\ job[w].pc = "idle" /\ m.eta <= Now /\ m \in Messages /\ Proper(m)
      /\ job \in [Workers -> Jobs] /\ job' = [job EXCEPT ![w] = x]
      /\ queue' = (queue \ {m}) \cup Remains(m) /\ UNCHANGED <<signals, overnightVars>>
  BY DEF Take, At, Due, TasksInv, SchedulingTypeOK, QueueInv, Around, clockVars
<1>2. 0 \in 0 .. LastDay
  BY ClockNumbers
<1>3. 0 \in 0 .. 2 /\ 2 \in 0 .. 2
  OBVIOUS
<1>4. n \in Messages /\ Proper(n) /\ n.eta <= Now
  BY <1>1, <1>3, CopyIsProper
<1>5. queue' \subseteq Messages /\ QueueInv'
  <2>1. [m EXCEPT !.copy = 2] \in Messages /\ Proper([m EXCEPT !.copy = 2])
    BY <1>1, <1>3, CopyIsProper
  <2> QED
    BY <1>1, <2>1 DEF Remains, QueueInv, TasksInv, SchedulingTypeOK
<1> HIDE DEF n
<1>6. x \in Jobs
  BY <1>2, <1>4, JobType
<1>7. job' \in [Workers -> Jobs] /\ JobsInv'
  BY <1>1, <1>4, <1>6, OneJob
<1>8. signals' \subseteq Signals /\ SignalsInv'
  BY <1>1 DEF TasksInv, SchedulingTypeOK, SignalsInv, GoodSignal
<1>9. OvernightTypeOK' /\ LoopsInv' /\ ResumedAsEntered'
  BY <1>1, LoopsStay
<1> QED
  BY <1>1, <1>5, <1>7, <1>8, <1>9, WorkLeft

\* A task that ends before it has traded, at the calendar, at its gate or for want of
\* a contract or a price.
LEMMA FinishPreserves ==
    ASSUME TasksInv, UNCHANGED clockVars, NEW w \in Workers, job[w].pc \notin ListPcs, Finish(w),
           UNCHANGED <<fired, sent, overnightVars>>, queue' \subseteq queue,
           signals' \subseteq Signals, SignalsInv'
    PROVE  TasksInv'
<1>1. Around
  BY DEF Around, clockVars
<1>2. /\ job' \in [Workers -> Jobs] /\ JobsInv'
      /\ \A u \in Workers : u # w => job'[u] = job[u]
  BY <1>1, Done
<1>3. OvernightTypeOK' /\ LoopsInv' /\ ResumedAsEntered'
  BY <1>2, LoopsStay
<1> QED
  BY <1>1, <1>2, <1>3, WorkLeft

\* The instrument is the message's, or the day's.
LEMMA PickPreserves ==
    ASSUME TasksInv, UNCHANGED clockVars, NEW w \in Workers, PickInstrument(w)
    PROVE  TasksInv'
<1> DEFINE i == IF job[w].message.instrument = "" THEN Pick[day] ELSE job[w].message.instrument
           x == [pc |-> "picked", message |-> job[w].message, today |-> 0, instrument |-> i]
<1>1. /\ Around /\ job[w].pc = "started" /\ job \in [Workers -> Jobs] /\ GoodJob(w)
      /\ job' = [job EXCEPT ![w] = x]
      /\ queue' \subseteq queue /\ UNCHANGED <<signals, overnightVars>>
  BY DEF PickInstrument, At, TasksInv, SchedulingTypeOK, JobsInv, Around, clockVars
<1>2. /\ job[w].message \in Messages /\ Proper(job[w].message)
      /\ job[w].message.eta <= Now
  BY <1>1 DEF GoodJob
<1>3. day \in Days /\ Pick[day] \in Instruments
  BY SchedulingAssumption DEF TasksInv, ClockTypeOK
<1>4. i \in Instruments
  BY <1>2, <1>3, MessageFields
<1> HIDE DEF i
<1>5. x \in Jobs
  <2>1. 0 \in 0 .. LastDay
    BY ClockNumbers
  <2> QED
    BY <1>2, <1>4, <2>1, JobType
<1>6. job' \in [Workers -> Jobs] /\ JobsInv'
  BY <1>1, <1>2, <1>4, <1>5, OneJob
<1>7. signals' \subseteq Signals /\ SignalsInv'
  BY <1>1 DEF TasksInv, SchedulingTypeOK, SignalsInv, GoodSignal
<1>8. OvernightTypeOK' /\ LoopsInv' /\ ResumedAsEntered'
  BY <1>1, LoopsStay
<1> QED
  BY <1>1, <1>6, <1>7, <1>8, WorkLeft

\* Past the gate a strategy is in the session (conditions.py 101-119).
LEMMA GatePreserves ==
    ASSUME TasksInv, UNCHANGED clockVars, NEW w \in Workers, Gate(w)
    PROVE  TasksInv'
<1>1. /\ Around /\ job[w].pc = "picked" /\ job \in [Workers -> Jobs] /\ GoodJob(w)
      /\ queue' \subseteq queue /\ UNCHANGED <<fired, sent, signals, overnightVars>>
  BY DEF Gate, At, TasksInv, SchedulingTypeOK, JobsInv, Around, clockVars
<1>2. signals' \subseteq Signals /\ SignalsInv'
  BY <1>1 DEF TasksInv, SchedulingTypeOK, SignalsInv, GoodSignal
<1>3. CASE Finish(w)
  BY <1>1, <1>2, <1>3, FinishPreserves
<1>4. CASE Goto(w, "gated") /\ \E active \in BOOLEAN : CanStrategyRun(active)
  <2> DEFINE x == [job[w] EXCEPT !.pc = "gated"]
  <2>1. /\ job[w].message \in Messages /\ Proper(job[w].message)
        /\ job[w].message.eta <= Now /\ job[w].instrument \in Instruments
    BY <1>1 DEF GoodJob
  <2>2. job' = [job EXCEPT ![w] = x]
    BY <1>1, <1>4 DEF Goto
  <2>3. /\ x \in Jobs /\ x.pc = "gated" /\ x.message = job[w].message
        /\ x.instrument = job[w].instrument
    BY <1>1 DEF Jobs
  <2> HIDE DEF x
  <2>4. InSession
    <3>1. IsTradingDay(day) /\ MarketOpen <= time
      BY <1>4 DEF CanStrategyRun, IsMarketHours
    <3>2. time \in Nat /\ Dawn \in Nat /\ MarketOpen \in Nat /\ Dawn <= MarketOpen
      BY CalendarAssumption, ClockNumbers DEF TasksInv
    <3> QED
      BY <3>1, <3>2 DEF InSession
  <2>5. job' \in [Workers -> Jobs] /\ JobsInv'
    BY <1>1, <2>1, <2>2, <2>3, <2>4, OneJob
  <2>6. OvernightTypeOK' /\ LoopsInv' /\ ResumedAsEntered'
    BY <1>1, <2>2, LoopsStay
  <2> QED
    BY <1>1, <1>2, <2>5, <2>6, WorkLeft
<1> QED
  BY <1>3, <1>4 DEF Gate

-----------------------------------------------------------------------------
\* What a strategy writes in the session is a signal of today.
LEMMA SignalOfToday ==
    ASSUME TasksInv, NEW w \in Workers, InSession, job[w].message \in Messages,
           Proper(job[w].message), job[w].message.eta <= Now,
           job[w].instrument \in Instruments, NEW kind \in {"ENTRY", "EXIT"}
    PROVE  Signal(w, kind, day) \in Signals /\ GoodSignal(Signal(w, kind, day))
<1> DEFINE s == Signal(w, kind, day)
<1>1. day \in 0 .. LastDay /\ Now \in Nat /\ Now \div DayLength = day
  <2>1. ClockTypeOK
    BY DEF TasksInv
  <2>2. day \in Nat /\ day <= LastDay /\ LastDay \in Nat
    BY <2>1, ClockNumbers
  <2>3. day \in 0 .. LastDay
    BY <2>2
  <2> QED
    BY <2>1, <2>3, NowIsToday, Zenon
<1>2. TaskOf(w) \in Tasks
  BY MessageFields DEF TaskOf
<1>3. /\ s.day = day /\ s.message = job[w].message /\ s.at = Now
      /\ s \in Signals
  BY <1>1, <1>2 DEF Signal, Signals
<1> HIDE DEF s
<1>4. GoodSignal(s)
  BY <1>1, <1>3 DEF GoodSignal, DayOf, InSession
<1> QED
  BY <1>3, <1>4 DEF s

\* The signal of an entry carries today's date: the session begins after dawn, when
\* the server's day has turned (test_strategy.py 109; demo_strategy.py 88).
LEMMA FirstSignalIsGood ==
    ASSUME TasksInv, NEW w \in Workers, job[w].pc = "gated"
    PROVE  /\ FirstSignal(w) \in Signals /\ GoodSignal(FirstSignal(w))
           /\ ServerDay = day /\ InSession
<1>1. /\ job[w].message \in Messages /\ Proper(job[w].message) /\ job[w].message.eta <= Now
      /\ job[w].instrument \in Instruments /\ InSession
  BY DEF TasksInv, JobsInv, GoodJob
<1>2. ServerDay = day
  <2>1. Dawn \in Nat /\ time \in Nat /\ Dawn <= time
    BY <1>1, CalendarAssumption, ClockNumbers DEF TasksInv, InSession
  <2> QED
    BY <2>1 DEF ServerDay
<1> DEFINE kind == IF TaskOf(w) = "test" THEN job[w].message.side ELSE "ENTRY"
<1>3. kind \in {"ENTRY", "EXIT"}
  BY <1>1, MessageFields DEF Proper, TaskOf
<1>4. FirstSignal(w) = Signal(w, kind, day)
  BY <1>2 DEF FirstSignal
<1> HIDE DEF kind
<1> QED
  BY <1>1, <1>2, <1>3, <1>4, SignalOfToday

\* A hedge opens a trade that has not been there, so it has not been resumed.
LEMMA TradeOpened ==
    ASSUME TasksInv, NEW mode \in Modes, OpenTrade(mode)
    PROVE  /\ OvernightTypeOK' /\ ResumedAsEntered' /\ UNCHANGED loop
           /\ \A t \in Trades : status[t] # "none" => status'[t] # "none"
<1>1. /\ OvernightTypeOK /\ ResumedAsEntered /\ UNCHANGED <<resumed, loop, lost>>
  BY DEF TasksInv, OpenTrade
<1>2. CASE UNCHANGED <<status, entered>>
  BY <1>1, <1>2 DEF OvernightTypeOK, ResumedAsEntered
<1>3. ASSUME NEW t \in Trades, status[t] = "none",
             status' = [status EXCEPT ![t] = "active"],
             entered' = [entered EXCEPT ![t] = mode]
      PROVE  /\ OvernightTypeOK' /\ ResumedAsEntered'
             /\ \A u \in Trades : status[u] # "none" => status'[u] # "none"
  <2>1. status' \in [Trades -> {"none", "active", "closed"}] /\ entered' \in [Trades -> Modes]
    BY <1>1, <1>3 DEF OvernightTypeOK
  <2>2. resumed[t] = "no"
    BY <1>1, <1>3 DEF OvernightTypeOK
  <2>3. /\ \A u \in Trades : u # t => status'[u] = status[u] /\ entered'[u] = entered[u]
        /\ status'[t] = "active"
    BY <1>1, <1>3 DEF OvernightTypeOK
  <2>4. ResumedAsEntered'
    BY <1>1, <2>2, <2>3 DEF ResumedAsEntered
  <2> QED
    BY <1>1, <2>1, <2>2, <2>3, <2>4 DEF OvernightTypeOK
<1> QED
  BY <1>1, <1>2, <1>3 DEF OpenTrade

LEMMA EnterPreserves ==
    ASSUME TasksInv, UNCHANGED clockVars, NEW w \in Workers, Enter(w)
    PROVE  TasksInv'
<1>1. /\ Around /\ job[w].pc = "gated" /\ job \in [Workers -> Jobs] /\ GoodJob(w)
      /\ queue' \subseteq queue /\ UNCHANGED <<fired, sent>>
  BY DEF Enter, At, TasksInv, SchedulingTypeOK, JobsInv, Around, clockVars
<1>2. /\ FirstSignal(w) \in Signals /\ GoodSignal(FirstSignal(w))
      /\ ServerDay = day /\ InSession
  BY <1>1, FirstSignalIsGood
<1>3. signals' \subseteq Signals /\ SignalsInv'
  BY <1>2, SignalWritten DEF Enter
<1>4. /\ job[w].message \in Messages /\ Proper(job[w].message)
      /\ job[w].message.eta <= Now /\ job[w].instrument \in Instruments
  BY <1>1 DEF GoodJob
<1>5. /\ job' \in [Workers -> Jobs] /\ JobsInv' /\ job'[w].pc \notin ListPcs
      /\ \A u \in Workers : u # w => job'[u] = job[u]
  <2>1. CASE Finish(w)
    BY <1>1, <2>1, Done
  <2> DEFINE x == [pc |-> "holding", message |-> job[w].message,
                   instrument |-> job[w].instrument, today |-> ServerDay]
  <2>2. CASE job' = [job EXCEPT ![w] = x]
    <3>1. x \in Jobs
      <4>1. day \in Nat /\ day <= LastDay /\ LastDay \in Nat
        BY ClockNumbers DEF TasksInv
      <4>2. ServerDay \in 0 .. LastDay
        BY <1>2, <4>1
      <4> QED
        BY <1>4, <4>2, JobType
    <3>2. x.pc = "holding" /\ x.message = job[w].message /\ x.instrument = job[w].instrument
          /\ x.today = day
      BY <1>2
    <3> HIDE DEF x
    <3>3. job' \in [Workers -> Jobs] /\ JobsInv'
      BY <1>1, <1>2, <1>4, <2>2, <3>1, <3>2, OneJob
    <3> QED
      BY <1>1, <2>2, <3>2, <3>3
  <2> QED
    BY <2>1, <2>2 DEF Enter
<1>6. OvernightTypeOK' /\ LoopsInv' /\ ResumedAsEntered'
  <2>1. CASE UNCHANGED overnightVars
    BY <1>1, <1>5, <2>1, LoopsStay
  <2>2. CASE OpenTrade(TaskMode(job[w].message))
    <3>1. TaskMode(job[w].message) \in Modes
      BY <1>4, MessageFields DEF TaskMode, Modes
    <3>2. /\ OvernightTypeOK' /\ ResumedAsEntered' /\ UNCHANGED loop
          /\ \A t \in Trades : status[t] # "none" => status'[t] # "none"
      BY <2>2, <3>1, TradeOpened
    <3>3. LoopsInv /\ \A u \in Workers : loop[u].todo \subseteq Trades
      BY DEF TasksInv, OvernightTypeOK, Loops
    <3>4. LoopsInv'
      BY <1>1, <1>5, <3>2, <3>3 DEF LoopsInv, GoodLoop
    <3> QED
      BY <3>2, <3>4
  <2> QED
    BY <2>1, <2>2 DEF Enter
<1> QED
  BY <1>1, <1>3, <1>5, <1>6, WorkLeft

LEMMA EntryFailsPreserves ==
    ASSUME TasksInv, UNCHANGED clockVars, NEW w \in Workers, EntryFails(w)
    PROVE  TasksInv'
<1>1. /\ job[w].pc = "gated" /\ queue' \subseteq queue /\ Finish(w)
      /\ UNCHANGED <<fired, sent, overnightVars>>
  BY DEF EntryFails, At
<1>2. signals' \subseteq Signals /\ SignalsInv'
  <2>1. CASE signals' = signals
    BY <2>1 DEF TasksInv, SchedulingTypeOK, SignalsInv, GoodSignal
  <2>2. CASE ~Taken(FirstSignal(w)) /\ signals' = signals \cup {FirstSignal(w)}
    BY <1>1, <2>2, FirstSignalIsGood, SignalWritten
  <2> QED
    BY <2>1, <2>2 DEF EntryFails
<1> QED
  BY <1>1, <1>2, FinishPreserves

\* The exit carries the day of its entry, and that is today (demo_strategy.py 118-140).
LEMMA ExitPreserves ==
    ASSUME TasksInv, UNCHANGED clockVars, NEW w \in Workers, Exit(w)
    PROVE  TasksInv'
<1>1. /\ job[w].pc = "holding" /\ queue' \subseteq queue /\ Finish(w)
      /\ UNCHANGED <<fired, sent, overnightVars>> /\ TaskOf(w) \in Intraday
      /\ signals' \in {signals, signals \cup {Signal(w, "EXIT", job[w].today)}}
      /\ signals' # signals => ~Taken(Signal(w, "EXIT", job[w].today))
  BY DEF Exit, At
<1>2. /\ job[w].message \in Messages /\ Proper(job[w].message)
      /\ job[w].message.eta <= Now /\ job[w].instrument \in Instruments
      /\ InSession /\ job[w].today = day
  BY <1>1 DEF TasksInv, JobsInv, GoodJob
<1>3. signals' \subseteq Signals /\ SignalsInv'
  <2>1. CASE signals' = signals
    BY <2>1 DEF TasksInv, SchedulingTypeOK, SignalsInv, GoodSignal
  <2>2. CASE signals' # signals
    <3>1. Signal(w, "EXIT", day) \in Signals /\ GoodSignal(Signal(w, "EXIT", day))
      BY <1>2, SignalOfToday
    <3> QED
      BY <1>1, <1>2, <2>2, <3>1, SignalWritten
  <2> QED
    BY <2>1, <2>2
<1> QED
  BY <1>1, <1>3, FinishPreserves

-----------------------------------------------------------------------------
\* One worker's list goes on, the others' stay.
LEMMA OneLoop ==
    ASSUME TasksInv, NEW w \in Workers, NEW x \in Loops, loop' = [loop EXCEPT ![w] = x],
           job'[w].pc \notin ListPcs => x = NoLoop,
           \A t \in x.todo : status[t] # "none",
           \A u \in Workers : u # w => job'[u] = job[u],
           \A t \in Trades : status[t] # "none" => status'[t] # "none"
    PROVE  loop' \in [Workers -> Loops] /\ LoopsInv'
<1>1. loop \in [Workers -> Loops] /\ LoopsInv
  BY DEF TasksInv, OvernightTypeOK
<1>2. loop' \in [Workers -> Loops]
  BY <1>1
<1>3. ASSUME NEW u \in Workers, u # w PROVE GoodLoop(u)'
  <2>1. loop'[u] = loop[u] /\ job'[u] = job[u] /\ GoodLoop(u) /\ loop[u].todo \subseteq Trades
    BY <1>1, <1>3 DEF LoopsInv, Loops
  <2> QED
    BY <2>1 DEF GoodLoop
<1>4. GoodLoop(w)'
  <2>1. loop'[w] = x /\ x.todo \subseteq Trades
    BY <1>1 DEF Loops
  <2> QED
    BY <2>1 DEF GoodLoop
<1> QED
  BY <1>2, <1>3, <1>4 DEF LoopsInv

LEMMA EmptyLoop == NoLoop \in Loops /\ NoLoop.todo = {} /\ NoLoop.of = ""
  BY DEF NoLoop, Loops

\* What is on record of a list.
LEMMA LoopFields ==
    ASSUME TasksInv, NEW w \in Workers
    PROVE  /\ loop[w] \in Loops /\ loop[w].todo \in SUBSET Trades
           /\ loop[w].at \in Trades \cup {NoTrade} /\ loop[w].marked \in SUBSET Trades
           /\ \A t \in loop[w].todo : status[t] # "none"
           /\ job[w].pc \notin ListPcs => loop[w] = NoLoop
  BY DEF TasksInv, OvernightTypeOK, Loops, LoopsInv, GoodLoop

\* The jobs and the signals, when a step moves neither.
LEMMA JobsStay ==
    ASSUME TasksInv, Around, UNCHANGED <<job, signals>>
    PROVE  /\ job' \in [Workers -> Jobs] /\ JobsInv'
           /\ signals' \subseteq Signals /\ SignalsInv'
<1>1. Now' = Now /\ (InSession' <=> InSession) /\ day' = day
  BY DEF Around, Now, InSession
<1> QED
  BY <1>1
  DEF TasksInv, SchedulingTypeOK, JobsInv, GoodJob, TaskOf, SignalsInv, GoodSignal

\* The list that is drawn up has trades that are open.
LEMMA StartLoopPreserves ==
    ASSUME TasksInv, UNCHANGED clockVars, NEW w \in Workers, StartLoop(w)
    PROVE  TasksInv'
<1>1. /\ Around /\ job[w].pc = "started" /\ job \in [Workers -> Jobs] /\ GoodJob(w)
      /\ queue' \subseteq queue /\ UNCHANGED <<fired, sent, signals>>
  BY DEF StartLoop, At, TasksInv, SchedulingTypeOK, JobsInv, Around, clockVars
<1>2. signals' \subseteq Signals /\ SignalsInv'
  BY <1>1 DEF TasksInv, SchedulingTypeOK, SignalsInv, GoodSignal
<1>3. CASE Finish(w) /\ UNCHANGED overnightVars
  BY <1>1, <1>2, <1>3, FinishPreserves
<1> DEFINE pc == IF TaskOf(w) = "snapshot" THEN "login" ELSE "loop"
<1>4. CASE Goto(w, pc) /\ ListTrades(w, TaskOf(w))
  <2> DEFINE x == [job[w] EXCEPT !.pc = pc]
             l == [of |-> TaskOf(w), todo |-> Active, at |-> NoTrade, marked |-> {}]
  <2>1. job' = [job EXCEPT ![w] = x] /\ loop' = [loop EXCEPT ![w] = l]
        /\ UNCHANGED <<status, entered, resumed, lost>>
    BY <1>1, <1>4 DEF Goto, ListTrades
  <2>2. /\ x \in Jobs /\ x.pc \in ListPcs /\ x.message = job[w].message
    BY <1>1 DEF Jobs
  <2>3. TaskOf(w) \in {"resume", "snapshot"} /\ Active \subseteq Trades
        /\ \A t \in Active : status[t] # "none"
    BY DEF StartLoop, Overnight, Active
  <2>4. l \in Loops /\ l.todo = Active
    BY <2>3 DEF Loops
  <2> HIDE DEF x, l
  <2>5. job' \in [Workers -> Jobs] /\ JobsInv' /\ job'[w] = x
        /\ \A u \in Workers : u # w => job'[u] = job[u]
    BY <1>1, <2>1, <2>2, OneJob DEF GoodJob
  <2>6. loop' \in [Workers -> Loops] /\ LoopsInv'
    BY <2>1, <2>2, <2>3, <2>4, <2>5, OneLoop
  <2>7. OvernightTypeOK' /\ ResumedAsEntered'
    BY <2>1, <2>6 DEF TasksInv, OvernightTypeOK, ResumedAsEntered
  <2> QED
    BY <1>1, <1>2, <2>5, <2>6, <2>7, WorkLeft
<1> QED
  BY <1>3, <1>4 DEF StartLoop

\* The login leaves the list as it is.
LEMMA LogInPreserves ==
    ASSUME TasksInv, UNCHANGED clockVars, NEW w \in Workers, LogInFeed(w)
    PROVE  TasksInv'
<1> DEFINE x == [job[w] EXCEPT !.pc = "loop"]
<1>1. /\ Around /\ job[w].pc = "login" /\ job \in [Workers -> Jobs] /\ GoodJob(w)
      /\ job' = [job EXCEPT ![w] = x]
      /\ queue' \subseteq queue /\ UNCHANGED <<signals, overnightVars>>
  BY DEF LogInFeed, Goto, At, TasksInv, SchedulingTypeOK, JobsInv, Around, clockVars
<1>2. x \in Jobs /\ x.pc = "loop" /\ x.message = job[w].message
  BY <1>1 DEF Jobs
<1> HIDE DEF x
<1>3. job' \in [Workers -> Jobs] /\ JobsInv' /\ job'[w] = x
      /\ \A u \in Workers : u # w => job'[u] = job[u]
  BY <1>1, <1>2, OneJob DEF GoodJob
<1>4. signals' \subseteq Signals /\ SignalsInv'
  BY <1>1 DEF TasksInv, SchedulingTypeOK, SignalsInv, GoodSignal
<1>5. OvernightTypeOK' /\ LoopsInv' /\ ResumedAsEntered'
  <2>1. OvernightTypeOK /\ LoopsInv /\ ResumedAsEntered
    BY DEF TasksInv
  <2>2. LoopsInv'
    BY <1>1, <1>2, <1>3, <2>1 DEF LoopsInv, GoodLoop, overnightVars
  <2> QED
    BY <1>1, <2>1, <2>2 DEF OvernightTypeOK, ResumedAsEntered, overnightVars
<1> QED
  BY <1>1, <1>3, <1>4, <1>5, WorkLeft

\* A trade is resumed in the mode it has been entered in, or DRY (tasks.py 334-354).
LEMMA ResumePreserves ==
    ASSUME TasksInv, Around, NEW w \in Workers, job[w].pc = "loop", Resume(w),
           UNCHANGED <<job, queue, signals>>
    PROVE  TasksInv'
<1>1. PICK t \in loop[w].todo :
        /\ loop' = [loop EXCEPT ![w] = [of |-> "resume", todo |-> @.todo \ {t}, at |-> t,
                                        marked |-> {}]]
        /\ resumed' \in {[resumed EXCEPT ![t] = entered[t]], [resumed EXCEPT ![t] = "DRY"]}
  BY DEF Resume, UnknownMode
<1>2. UNCHANGED <<status, entered, lost>>
  BY DEF Resume
<1> DEFINE l == [of |-> "resume", todo |-> loop[w].todo \ {t}, at |-> t, marked |-> {}]
<1>3. t \in Trades /\ status[t] # "none" /\ OvernightTypeOK /\ ResumedAsEntered
  BY LoopFields DEF TasksInv
<1>4. l \in Loops /\ \A u \in l.todo : status[u] # "none"
  BY <1>3, LoopFields DEF Loops
<1>5. loop' = [loop EXCEPT ![w] = l]
  BY <1>1, LoopFields DEF TasksInv, OvernightTypeOK
<1> HIDE DEF l
<1>6. loop' \in [Workers -> Loops] /\ LoopsInv'
  BY <1>2, <1>4, <1>5, OneLoop
<1>7. OvernightTypeOK' /\ ResumedAsEntered'
  <2>1. resumed' \in [Trades -> Modes \cup {"no"}]
    BY <1>1, <1>3 DEF OvernightTypeOK, Modes
  <2>2. \A u \in Trades : u # t => resumed'[u] = resumed[u]
    BY <1>1, <1>3 DEF OvernightTypeOK
  <2>3. resumed'[t] \in {entered[t], "DRY"}
    BY <1>1, <1>3 DEF OvernightTypeOK
  <2>4. ResumedAsEntered'
    BY <1>2, <1>3, <2>2, <2>3 DEF ResumedAsEntered
  <2> QED
    BY <1>2, <1>3, <1>6, <2>1, <2>2, <2>4 DEF OvernightTypeOK
<1> QED
  BY <1>6, <1>7, JobsStay, WorkLeft

\* A resumed trade is over or still open, but it has been opened.
LEMMA ReturnPreserves ==
    ASSUME TasksInv, Around, NEW w \in Workers, job[w].pc = "loop", ResumeReturns(w),
           UNCHANGED <<job, queue, signals>>
    PROVE  TasksInv'
<1> DEFINE t == loop[w].at
           l == [loop[w] EXCEPT !.at = NoTrade]
<1>1. /\ loop' = [loop EXCEPT ![w] = l] /\ t # NoTrade
      /\ status' \in {status, [status EXCEPT ![t] = "closed"]}
      /\ UNCHANGED <<entered, resumed, lost>> /\ OvernightTypeOK /\ ResumedAsEntered
  BY DEF ResumeReturns, TasksInv
<1>2. l \in Loops /\ l.todo = loop[w].todo
  BY LoopFields DEF Loops
<1> HIDE DEF l
<1>3. t \in Trades
  BY <1>1, LoopFields
<1>4. /\ status' \in [Trades -> {"none", "active", "closed"}]
      /\ \A u \in Trades : status[u] # "none" => status'[u] # "none"
  BY <1>1, <1>3 DEF OvernightTypeOK
<1>5. loop' \in [Workers -> Loops] /\ LoopsInv'
  BY <1>1, <1>2, <1>4, OneLoop, LoopFields
<1>6. OvernightTypeOK' /\ ResumedAsEntered'
  BY <1>1, <1>4, <1>5 DEF OvernightTypeOK, ResumedAsEntered
<1> QED
  BY <1>5, <1>6, JobsStay, WorkLeft

LEMMA SnapshotPreserves ==
    ASSUME TasksInv, Around, NEW w \in Workers, job[w].pc = "loop", Snapshot(w),
           UNCHANGED <<job, queue, signals>>
    PROVE  TasksInv'
<1>1. PICK t \in loop[w].todo :
        \/ loop' = [loop EXCEPT ![w] = [of |-> "snapshot", todo |-> @.todo \ {t},
                                        at |-> NoTrade, marked |-> @.marked \cup {t}]]
        \/ SkipTrade(w, t)
  BY DEF Snapshot
<1>2. /\ UNCHANGED <<status, entered, resumed, lost>> /\ OvernightTypeOK /\ ResumedAsEntered
      /\ t \in Trades
  BY LoopFields DEF Snapshot, TasksInv
<1> DEFINE marked == [of |-> "snapshot", todo |-> loop[w].todo \ {t}, at |-> NoTrade,
                      marked |-> loop[w].marked \cup {t}]
           skipped == [loop[w] EXCEPT !.todo = @ \ {t}]
<1>3. loop' = [loop EXCEPT ![w] = marked] \/ loop' = [loop EXCEPT ![w] = skipped]
  BY <1>1, <1>2 DEF SkipTrade, OvernightTypeOK
<1>4. marked \in Loops /\ skipped \in Loops
  <2>1. marked \in Loops
    BY <1>2, LoopFields DEF Loops
  <2>2. skipped \in Loops
    BY <1>2, LoopFields DEF Loops
  <2> QED
    BY <2>1, <2>2
<1>5. marked.todo \subseteq loop[w].todo /\ skipped.todo \subseteq loop[w].todo
  BY LoopFields DEF Loops
<1> HIDE DEF marked, skipped
<1>6. loop' \in [Workers -> Loops] /\ LoopsInv'
  BY <1>2, <1>3, <1>4, <1>5, OneLoop, LoopFields
<1>7. OvernightTypeOK' /\ ResumedAsEntered'
  BY <1>2, <1>6 DEF OvernightTypeOK, ResumedAsEntered
<1> QED
  BY <1>6, <1>7, JobsStay, WorkLeft

\* A list that is done with, or given up.
LEMMA LoopGonePreserves ==
    ASSUME TasksInv, UNCHANGED clockVars, NEW w \in Workers, Finish(w),
           LoopEnds(w) \/ CutShort(w), UNCHANGED <<fired, sent, queue, signals>>
    PROVE  TasksInv'
<1>1. Around
  BY DEF Around, clockVars
<1>2. /\ job' \in [Workers -> Jobs] /\ JobsInv' /\ job'[w].pc = "idle"
      /\ \A u \in Workers : u # w => job'[u] = job[u]
  BY <1>1, Done
<1>3. /\ loop' = [loop EXCEPT ![w] = NoLoop] /\ UNCHANGED <<status, entered, resumed>>
      /\ lost' \subseteq lost \cup loop[w].todo
  BY DEF LoopEnds, CutShort
<1>4. loop' \in [Workers -> Loops] /\ LoopsInv'
  BY <1>2, <1>3, EmptyLoop, OneLoop
<1>5. OvernightTypeOK' /\ ResumedAsEntered'
  BY <1>3, <1>4, LoopFields DEF TasksInv, OvernightTypeOK, ResumedAsEntered
<1>6. signals' \subseteq Signals /\ SignalsInv'
  BY DEF TasksInv, SchedulingTypeOK, SignalsInv, GoodSignal
<1> QED
  BY <1>1, <1>2, <1>4, <1>5, <1>6, WorkLeft

-----------------------------------------------------------------------------
\* Every step of a worker, with what may go wrong in it.
LEMMA WorkPreserves ==
    ASSUME TasksInv, UNCHANGED clockVars, NEW w \in Workers, WorkStep(w) \/ WorkFault(w)
    PROVE  TasksInv'
<1>1. ASSUME job[w].pc \notin ListPcs, Finish(w),
             UNCHANGED <<fired, sent, queue, signals, overnightVars>>
      PROVE  TasksInv'
  <2>1. signals' \subseteq Signals /\ SignalsInv' /\ queue' \subseteq queue
    BY <1>1 DEF TasksInv, SchedulingTypeOK, SignalsInv, GoodSignal
  <2> QED
    BY <1>1, <2>1, FinishPreserves
<1>2. CASE NotToday(w) \/ HedgeEnds(w) \/ MarketFails(w)
  BY <1>1, <1>2 DEF NotToday, HedgeEnds, MarketFails, At
<1>3. CASE RunLoop(w)
  <2>1. job[w].pc = "loop" /\ UNCHANGED <<fired, sent, queue, signals>> /\ Around
    BY <1>3 DEF RunLoop, At, Around, clockVars
  <2>2. CASE LoopStep(w) /\ UNCHANGED job
    BY <2>1, <2>2, ResumePreserves, ReturnPreserves, SnapshotPreserves DEF LoopStep
  <2>3. CASE LoopEnds(w) /\ Finish(w)
    BY <2>1, <2>3, LoopGonePreserves
  <2> QED
    BY <1>3, <2>2, <2>3 DEF RunLoop
<1>4. CASE LoginFails(w) \/ LoopRaises(w) \/ WorkerDies(w)
  BY <1>4, LoopGonePreserves DEF LoginFails, LoopRaises, WorkerDies, ResumeRaises
<1> QED
  BY <1>2, <1>3, <1>4, PickPreserves, GatePreserves, EnterPreserves, EntryFailsPreserves,
     ExitPreserves, StartLoopPreserves, LogInPreserves
  DEF WorkStep, WorkFault

\* The clock moves on: what is past the gate stays in its session, as no strategy but
\* a hedge is still at it when the day ends.
LEMMA ClockPreserves ==
    ASSUME TasksInv, SchedulingClock
    PROVE  TasksInv'
<1>1. /\ UNCHANGED <<sent, queue, job, signals, overnightVars>> /\ ClockTypeOK /\ ClockTypeOK'
      /\ fired' \subseteq DOMAIN BeatTime
  BY ClockSteps DEF SchedulingClock, TasksInv, SchedulingTypeOK
<1>2. Now \in Nat /\ Now' = Now + 1
  BY <1>1, NowIsToday, NowGoesOn DEF SchedulingClock
<1>3. ASSUME NEW w \in Workers PROVE GoodJob(w)'
  <2>1. GoodJob(w)
    BY DEF TasksInv, JobsInv
  <2>2. job[w].message \in Messages /\ job[w].message.eta <= Now => job[w].message.eta <= Now'
    <3>1. ASSUME job[w].message \in Messages, job[w].message.eta <= Now
          PROVE  job[w].message.eta <= Now'
      <4>1. job[w].message.eta \in Nat
        BY <3>1, MessageFields
      <4> QED
        BY <1>2, <3>1, <4>1
    <3> QED
      BY <3>1
  <2>3. CASE Tick
    <3>1. day' = day /\ time' = time + 1 /\ (InSession => InSession')
      <4>1. Dawn \in Nat /\ time \in Nat
        BY <1>1, CalendarAssumption, ClockNumbers
      <4> QED
        BY <2>3, <4>1 DEF Tick, InSession
    <3> QED
      BY <1>1, <2>1, <2>2, <3>1 DEF GoodJob, TaskOf
  <2>4. CASE Midnight /\ DayIsOver
    <3>1. job[w].pc # "gated" /\ (job[w].pc = "holding" => TaskOf(w) \notin Intraday)
      BY <2>4 DEF DayIsOver, At, Intraday
    <3> QED
      BY <1>1, <2>1, <2>2, <3>1 DEF GoodJob, TaskOf
  <2> QED
    BY <2>3, <2>4 DEF SchedulingClock
<1> QED
  BY <1>1, <1>3
  DEF TasksInv, SchedulingTypeOK, OvernightTypeOK, QueueInv, JobsInv, SignalsInv, GoodSignal,
      LoopsInv, GoodLoop, ResumedAsEntered, overnightVars

-----------------------------------------------------------------------------
\* The part that is not explored is where it was at the start.
TasksKeptApart == part = "accounts" => SchedulingInit /\ OvernightInit

OperationsInv == TasksInv /\ TasksKeptApart

LEMMA OperationsStep == OperationsInv /\ [Next]_vars => OperationsInv'
<1> SUFFICES ASSUME OperationsInv, [Next]_vars PROVE OperationsInv'
  OBVIOUS
<1>1. TasksInv /\ TasksKeptApart
  BY DEF OperationsInv
<1>2. CASE part = "tasks" /\ SchedulingNext /\ UNCHANGED part
  <2>1. ASSUME SchedulingClock PROVE TasksInv'
    BY <1>1, <2>1, ClockPreserves
  <2>2. ASSUME UNCHANGED clockVars, Sending PROVE TasksInv'
    BY <1>1, <2>2, SendingPreserves
  <2>3. ASSUME UNCHANGED clockVars, NEW w \in Workers,
               (\E m \in queue : Take(w, m)) \/ WorkStep(w) \/ WorkFault(w)
        PROVE  TasksInv'
    BY <1>1, <2>3, TakePreserves, WorkPreserves
  <2>4. TasksInv'
    BY <1>2, <2>1, <2>2, <2>3 DEF SchedulingNext
  <2> QED
    BY <1>2, <2>4 DEF OperationsInv, TasksKeptApart
<1>3. CASE part = "accounts" /\ AccountsNext /\ UNCHANGED <<schedulingVars, overnightVars, part>>
  <2>1. SchedulingInit' /\ OvernightInit'
    BY <1>1, <1>3
    DEF TasksKeptApart, SchedulingInit, OvernightInit, schedulingVars, overnightVars
  <2>2. ClockTypeOK'
    <3>1. CASE UNCHANGED clockVars
      BY <1>1, <3>1 DEF TasksInv, ClockTypeOK, clockVars
    <3>2. CASE Tick \/ Midnight
      BY <1>1, <3>2, ClockSteps DEF TasksInv
    <3> QED
      BY <1>3, <3>1, <3>2 DEF AccountsNext, AccountsTick, AccountsMidnight
  <2>3. ASSUME ClockTypeOK', SchedulingInit', OvernightInit' PROVE TasksInv'
    BY <2>3, TasksInitial, PTL
  <2> QED
    BY <2>1, <2>2, <2>3 DEF OperationsInv, TasksKeptApart
<1>4. CASE UNCHANGED vars
  <2>1. /\ UNCHANGED <<day, time, fired, sent, queue, job, signals>>
        /\ UNCHANGED <<status, entered, resumed, loop, lost, part>>
    BY <1>4 DEF vars, clockVars, schedulingVars, overnightVars
  <2>2. TasksInv'
    <3>1. /\ job' \in [Workers -> Jobs] /\ JobsInv' /\ Around
          /\ signals' \subseteq Signals /\ SignalsInv'
      BY <1>1, <2>1, JobsStay DEF Around
    <3>2. OvernightTypeOK' /\ LoopsInv' /\ ResumedAsEntered'
      BY <1>1, <2>1 DEF TasksInv, OvernightTypeOK, LoopsInv, GoodLoop, ResumedAsEntered
    <3> QED
      BY <1>1, <2>1, <3>1, <3>2, WorkLeft
  <2>3. TasksKeptApart'
    BY <1>1, <2>1 DEF TasksKeptApart, SchedulingInit, OvernightInit
  <2> QED
    BY <2>2, <2>3 DEF OperationsInv
<1> QED
  BY <1>2, <1>3, <1>4 DEF Next

\* The queue, the workers, the signals and the lists keep the invariant.
THEOREM OperationsInvariant == Spec => []OperationsInv
<1>1. Init => OperationsInv
  <2>1. Init => ClockTypeOK
    BY ClockNumbers DEF Init, ClockInit
  <2> QED
    BY <2>1, TasksInitial DEF Init, OperationsInv, TasksKeptApart
<1> QED
  BY <1>1, OperationsStep, PTL DEF Spec

\* Every variable of both parts keeps to its type.
THEOREM OperationsTypeCorrect == Spec => []TypeOK
<1>1. OperationsInv /\ SessionsInv => TypeOK
  BY DEF OperationsInv, SessionsInv, TasksInv, AccountsInv, TypeOK
<1> QED
  BY <1>1, OperationsInvariant, SessionsInvariant, PTL

\* One signal of a kind for an instrument and a day of India, on a trading day and with
\* that day as its date, for any number of workers, messages and triggers.
THEOREM OneTradeEachDay == Spec => []OneTradeADay
<1>1. OperationsInv => OneTradeADay
  BY DEF OperationsInv, TasksInv, SignalsInv, GoodSignal, OneTradeADay, Slot
<1> QED
  BY <1>1, OperationsInvariant, PTL

\* Nothing is traded that nobody has asked for, and nothing before its time.
THEOREM OrdersAreAskedFor == Spec => []OrdersAreAsked
<1>1. OperationsInv => OrdersAreAsked
  BY DEF OperationsInv, TasksInv, SignalsInv, GoodSignal, Proper, ResumedAsEntered,
         OrdersAreAsked
<1> QED
  BY <1>1, OperationsInvariant, PTL

-----------------------------------------------------------------------------
\* What a step may do to the list of a task.
NothingLeftOut ==
    \A w \in Workers : \A t \in loop[w].todo \ loop'[w].todo :
        \/ loop'[w].at = t
        \/ t \in loop'[w].marked
        \/ t \in lost'
        \/ Snapshotting(w) /\ t \notin Quoted

LEMMA ListStep == OperationsInv /\ [Next]_vars => NothingLeftOut
<1> SUFFICES ASSUME OperationsInv, [Next]_vars PROVE NothingLeftOut
  OBVIOUS
<1>1. TasksInv /\ loop \in [Workers -> Loops]
  BY DEF OperationsInv, TasksInv, OvernightTypeOK
<1>2. CASE UNCHANGED loop
  BY <1>2 DEF NothingLeftOut
<1>3. ASSUME NEW u \in Workers, NEW l, loop' = [loop EXCEPT ![u] = l], loop[u].todo \subseteq l.todo
      PROVE  NothingLeftOut
  BY <1>1, <1>3 DEF NothingLeftOut
<1>4. ASSUME NEW u \in Workers, Resume(u) PROVE NothingLeftOut
  <2>1. PICK t \in loop[u].todo :
          loop' = [loop EXCEPT ![u] = [of |-> "resume", todo |-> @.todo \ {t}, at |-> t,
                                       marked |-> {}]]
    BY <1>4 DEF Resume
  <2>2. /\ loop'[u].todo = loop[u].todo \ {t} /\ loop'[u].at = t
        /\ \A w \in Workers : w # u => loop'[w] = loop[w]
    BY <1>1, <2>1
  <2> QED
    BY <2>2 DEF NothingLeftOut
<1>5. ASSUME NEW u \in Workers, Snapshot(u) PROVE NothingLeftOut
  <2>1. PICK t \in loop[u].todo :
          \/ loop' = [loop EXCEPT ![u] = [of |-> "snapshot", todo |-> @.todo \ {t},
                                          at |-> NoTrade, marked |-> @.marked \cup {t}]]
          \/ t \notin Quoted /\ SkipTrade(u, t)
    BY <1>5 DEF Snapshot
  <2>2. /\ loop[u].todo \ loop'[u].todo \subseteq {t}
        /\ t \in loop'[u].marked \/ t \notin Quoted
        /\ \A w \in Workers : w # u => loop'[w] = loop[w]
    <3>1. CASE loop' = [loop EXCEPT ![u] = [of |-> "snapshot", todo |-> @.todo \ {t},
                                            at |-> NoTrade, marked |-> @.marked \cup {t}]]
      <4>1. /\ loop'[u].todo = loop[u].todo \ {t} /\ loop'[u].marked = loop[u].marked \cup {t}
            /\ \A w \in Workers : w # u => loop'[w] = loop[w]
        BY <1>1, <3>1
      <4> QED
        BY <4>1
    <3>2. CASE t \notin Quoted /\ SkipTrade(u, t)
      <4>1. /\ loop'[u].todo = loop[u].todo \ {t}
            /\ \A w \in Workers : w # u => loop'[w] = loop[w]
        BY <1>1, <3>2 DEF SkipTrade, Loops
      <4> QED
        BY <3>2, <4>1
    <3> QED
      BY <2>1, <3>1, <3>2
  <2>3. Snapshotting(u)
    BY <1>5 DEF Snapshot
  <2> QED
    BY <2>2, <2>3 DEF NothingLeftOut
<1>6. ASSUME NEW u \in Workers, ResumeReturns(u) PROVE NothingLeftOut
  <2>1. \A w \in Workers : loop'[w].todo = loop[w].todo
    BY <1>1, <1>6 DEF ResumeReturns, Loops
  <2> QED
    BY <2>1 DEF NothingLeftOut
<1>7. ASSUME NEW u \in Workers, CutShort(u) PROVE NothingLeftOut
  BY <1>1, <1>7 DEF CutShort, NothingLeftOut
<1>8. ASSUME NEW u \in Workers, LoopEnds(u) PROVE NothingLeftOut
  <2>1. loop[u].todo = {} /\ loop' = [loop EXCEPT ![u] = NoLoop]
    BY <1>8 DEF LoopEnds, LoopOver
  <2> QED
    BY <1>3, <2>1
<1>9. ASSUME NEW u \in Workers, StartLoop(u) PROVE NothingLeftOut
  <2>1. loop[u].todo = {}
    BY <1>1, <1>9, LoopFields, EmptyLoop DEF StartLoop, At
  <2>2. CASE UNCHANGED overnightVars
    BY <1>2, <2>2 DEF overnightVars
  <2>3. CASE ListTrades(u, TaskOf(u))
    BY <1>3, <2>1, <2>3 DEF ListTrades
  <2> QED
    BY <1>9, <2>2, <2>3 DEF StartLoop
<1>10. ASSUME NEW u \in Workers,
              (\E m \in queue : Take(u, m)) \/ WorkStep(u) \/ WorkFault(u)
       PROVE  NothingLeftOut
  <2>1. CASE \/ \E m \in queue : Take(u, m)
             \/ NotToday(u) \/ PickInstrument(u) \/ Gate(u) \/ EntryFails(u) \/ Exit(u)
             \/ HedgeEnds(u) \/ LogInFeed(u) \/ MarketFails(u)
    BY <1>2, <2>1
    DEF Take, NotToday, PickInstrument, Gate, EntryFails, Exit, HedgeEnds, LogInFeed, MarketFails,
        overnightVars
  <2>2. CASE Enter(u)
    BY <1>2, <2>2 DEF Enter, OpenTrade, overnightVars
  <2>3. CASE RunLoop(u)
    BY <1>4, <1>5, <1>6, <1>8, <2>3 DEF RunLoop, LoopStep
  <2>4. CASE LoginFails(u) \/ LoopRaises(u) \/ WorkerDies(u)
    BY <1>7, <2>4 DEF LoginFails, LoopRaises, WorkerDies, ResumeRaises
  <2> QED
    BY <1>9, <1>10, <2>1, <2>2, <2>3, <2>4 DEF WorkStep, WorkFault
<1>11. CASE SchedulingNext
  <2>1. CASE SchedulingClock \/ Sending
    BY <1>2, <2>1 DEF SchedulingClock, Sending, overnightVars
  <2> QED
    BY <1>10, <1>11, <2>1 DEF SchedulingNext
<1>12. SchedulingNext \/ UNCHANGED loop
  BY DEF Next, vars, overnightVars
<1> QED
  BY <1>2, <1>11, <1>12

\* A task that goes through the overnight trades leaves none out, for any number of
\* trades and workers.
THEOREM NoTradeLeftOut == Spec => NoTradeIsLeftOut
<1>1. OperationsInv /\ [Next]_vars => [NothingLeftOut]_vars
  BY ListStep
<1> QED
  BY <1>1, OperationsInvariant, PTL DEF Spec, NoTradeIsLeftOut, NothingLeftOut

=============================================================================
