----------------------------- MODULE AsyncTimer ------------------------------
(***************************************************************************)
(* The repeating timer of core/utils/timer.py.  Its owner calls start and  *)
(* stop one after the other; the callback may call stop itself, and start  *)
(* may follow before that callback is over.  Every start that creates a    *)
(* task makes a loop; loops live in a pool of Loops.  Nothing in the       *)
(* repository uses the timer: that there is one owner, and that callbacks  *)
(* call stop but not start, is an assumption on its users.                 *)
(***************************************************************************)
CONSTANTS
    Loops,              \* the pool of loops
    Owner,              \* the coroutine that calls start and stop
    NoLoop,
    CallbackMayStop     \* does the callback call stop?

ASSUME TimerAssumption ==
    /\ NoLoop \notin Loops /\ Owner \notin Loops
    /\ CallbackMayStop \in BOOLEAN

\* Whoever may be inside stop.
Callers == Loops \cup {Owner}

VARIABLES
    loop,       \* loop[g]: where the coroutine _run of task g is
    task,       \* self._task: a loop, which may be over, or none
    stopped,    \* self._stopped
    cancelled,  \* the loops that were cancelled and have not got over it
    awaited     \* awaited[c]: the loop c's stop waits for, or none

timerVars == <<loop, task, stopped, cancelled, awaited>>

TimerTypeOK ==
    /\ loop \in [Loops -> {"off", "sleep", "callback"}]
    /\ task \in Loops \cup {NoLoop}
    /\ stopped \in BOOLEAN
    /\ cancelled \subseteq Loops
    /\ awaited \in [Callers -> Loops \cup {NoLoop}]

TimerInit ==
    /\ loop = [g \in Loops |-> "off"]
    /\ task = NoLoop
    /\ stopped = FALSE
    /\ cancelled = {}
    /\ awaited = [c \in Callers |-> NoLoop]

-----------------------------------------------------------------------------
Alive(g) == g # NoLoop /\ loop[g] # "off"

\* The owner, or the callback of a loop, is running and not inside stop.
MayCall(c) == awaited[c] = NoLoop /\ (c \in Loops => loop[c] = "callback")

\* Only a start whose task is over or forgotten makes a loop.  (Bound: the pool;
\* a loop somebody still waits for is not used again.)
StartTimer ==
    /\ MayCall(Owner) /\ ~Alive(task)
    /\ \E g \in Loops :
         /\ loop[g] = "off" /\ \A c \in Callers : awaited[c] # g
         /\ loop' = [loop EXCEPT ![g] = "sleep"]
         /\ task' = g
         /\ cancelled' = cancelled \ {g}
    /\ stopped' = FALSE
    /\ UNCHANGED awaited

\* Fault: a callback that calls stop waits for its own loop.
WaitsForAny(c) == Alive(task)

\* A callback that awaits its own task gets the CancelledError it has just asked
\* for, and stop catches it.
MustWait(c) == Alive(task) /\ task # c

\* stop: cancel the task and wait for it, or forget it.
StopTimer(c) ==
    /\ MayCall(c) /\ (c # Owner => CallbackMayStop)
    /\ stopped' = TRUE
    /\ IF MustWait(c)
       THEN /\ awaited' = [awaited EXCEPT ![c] = task]
            /\ cancelled' = cancelled \cup {task}
            /\ UNCHANGED task
       ELSE task' = NoLoop /\ UNCHANGED <<awaited, cancelled>>
    /\ UNCHANGED loop

\* The task awaited is over, by the CancelledError or in another way.
StopReturns(c) ==
    /\ awaited[c] # NoLoop /\ ~Alive(awaited[c])
    /\ task' = NoLoop
    /\ awaited' = [awaited EXCEPT ![c] = NoLoop]
    /\ UNCHANGED <<loop, stopped, cancelled>>

\* The sleep is over, or the loop is cancelled in it.
Awake(g) ==
    /\ loop[g] = "sleep"
    /\ loop' = [loop EXCEPT ![g] =
                  IF stopped \/ g \in cancelled THEN "off" ELSE "callback"]
    /\ cancelled' = cancelled \ {g}
    /\ UNCHANGED <<task, stopped, awaited>>

\* The callback returns or raises, which is logged; a CancelledError ends the loop,
\* unless the callback, or the stop it is in, catches it.
CallbackEnds(g) ==
    /\ loop[g] = "callback" /\ MayCall(g)
    /\ \/ loop' = [loop EXCEPT ![g] = IF stopped THEN "off" ELSE "sleep"]
       \/ g \in cancelled /\ loop' = [loop EXCEPT ![g] = "off"]
    /\ cancelled' = cancelled \ {g}
    /\ UNCHANGED <<task, stopped, awaited>>

TimerStep(g) == Awake(g) \/ CallbackEnds(g) \/ StopReturns(g)

TimerNext ==
    \/ StartTimer
    \/ \E c \in Callers : StopTimer(c)
    \/ StopReturns(Owner)
    \/ \E g \in Loops : TimerStep(g)

\* Sleeps end, and so does a callback, at the latest when it is cancelled.
TimerFairness ==
    /\ WF_timerVars(StopReturns(Owner))
    /\ \A g \in Loops : WF_timerVars(TimerStep(g))

=============================================================================
