----------------------------- MODULE Execution ------------------------------
(***************************************************************************)
(* The execution pipeline: task invocations that claim a signal, fan it    *)
(* out to the subscribed users (apps/execution/executor.py) and, for a     *)
(* strategy, come back for the EXIT (apps/strategies/demo_strategy.py), or *)
(* stop after one signal (apps/strategies/test_strategy.py).               *)
(*                                                                         *)
(* A run is one invocation in its own worker process; a task is the        *)
(* coroutine _process_user of one subscription row of one run.  Every      *)
(* await of a database or broker call is a point where runs and tasks      *)
(* interleave, and so every action below is what happens between two of    *)
(* them.  Outside parties are modelled as the source uses them: the        *)
(* database (module SignalStore), the broker (sent, acked, filled) and the *)
(* app in which users subscribe (subscribed).                              *)
(***************************************************************************)
EXTENDS Integers, FiniteSetsExt, SignalStore

CONSTANTS
    Rows,           \* rows of table user_strategies
    RowUser,        \* the user of a row; nothing in the code forbids duplicates
    RowStrategy,    \* the strategy of a row
    StrategyOf,     \* the strategy of a slot
    TestSlots,      \* the slots of the Test strategy: one signal per run
    Plans,          \* the arguments and market data a run may work with
    Contracts,      \* tradable contracts
    Price,          \* the price of one order of a contract
    Funds,          \* a user's opening balance
    RunFaults,      \* what may go wrong with a run: "store", "crash", "churn"
    UserFaults,     \* what may go wrong for a user, see below
    NoRun           \* no matching ENTRY

\* "account"  no verified account, credentials do not decrypt, or no balance
\* "db"       a database call made for the user raises, before or after writing
\* "notify"   the insert of a notification raises
\* "reject"   the broker answers an order with status false
\* "fill"     the broker accepts an order and the exchange never fills it
\* "timeout"  no answer to an order, which may or may not have gone through
\* "blank"    the answer to an order that is accepted carries no data
UserFaultKinds == {"account", "db", "notify", "reject", "fill", "timeout", "blank"}

\* What a run is invoked with: the first signal's kind (ENTRY for a strategy;
\* a test BUY or SELL), the slot, the mode, the contract of each leg the payload
\* has, and whether the payload carries prices (they may be 0.0 or absent).  Its
\* quantity is one lot of a contract that is listed, never 0.
PlanSpace ==
    [kind : Kinds, slot : Slots, mode : STRING, quoted : BOOLEAN,
     contract : UNION {[S -> Contracts] : S \in SUBSET Legs}]

ASSUME ConstantsAssumption ==
    /\ NoRun \notin Runs
    /\ RowUser \in [Rows -> Users]
    /\ RowStrategy \in [Rows -> {StrategyOf[slot] : slot \in Slots}]
    /\ TestSlots \subseteq Slots
    /\ Price \in [Contracts -> Nat]
    /\ Funds \in [Users -> Nat]
    /\ UserFaults \in [Users -> SUBSET UserFaultKinds]
    /\ RunFaults \subseteq {"store", "crash", "churn"}

ASSUME PlansAssumption ==
    /\ Plans \subseteq PlanSpace
    /\ \A p \in Plans : p.slot \notin TestSlots => p.kind = "ENTRY"

VARIABLES
    plan,       \* plan[r]: what run r was invoked with
    rpc,        \* rpc[r]: where run r is
    kind,       \* kind[r]: the kind of the signal r is working on
    entry,      \* entry[r]: the run whose ENTRY r's EXIT was matched with
    batch,      \* batch[r]: the subscription rows r has read
    tpc,        \* tpc[r, row]: where the task of r for row is
    todo,       \* todo[r, row]: the legs the task still has to go through
    subscribed, \* the subscription rows there are now
    sent,       \* sent[key]: placeOrder requests posted for an execution
    acked,      \* executions the broker answered with status true
    filled      \* executions whose order the exchange filled

runVars    == <<plan, rpc, kind, entry, batch>>
taskVars   == <<tpc, todo>>
brokerVars == <<sent, acked, filled>>
vars == <<runVars, taskVars, brokerVars, subscribed, storeVars>>

Tasks == Runs \X Rows

RunPcs == {"idle", "create", "subscribers", "match", "positions", "gather", "done", "failed"}

\* A task in one of these is inside the loop body for its current leg and owns
\* the execution row it has inserted.
LegPcs == {"order", "placed", "trade", "rejected", "dry", "mark", "except"}

TaskPcs == {"off", "account", "gate", "record", "over"} \cup LegPcs

TypeOK ==
    /\ StoreTypeOK
    /\ plan \in [Runs -> Plans]
    /\ rpc \in [Runs -> RunPcs]
    /\ kind \in [Runs -> Kinds]
    /\ entry \in [Runs -> Runs \cup {NoRun}]
    /\ batch \in [Runs -> SUBSET Rows]
    /\ tpc \in [Tasks -> TaskPcs]
    /\ todo \in [Tasks -> SUBSET Legs]
    /\ subscribed \subseteq Rows
    /\ sent \in [Keys -> Nat]
    /\ acked \subseteq Keys
    /\ filled \subseteq Keys

Init ==
    /\ StoreInit
    /\ plan \in [Runs -> Plans]
    /\ rpc = [r \in Runs |-> "idle"]
    /\ kind = [r \in Runs |-> plan[r].kind]
    /\ entry = [r \in Runs |-> NoRun]
    /\ batch = [r \in Runs |-> {}]
    /\ tpc = [t \in Tasks |-> "off"]
    /\ todo = [t \in Tasks |-> {}]
    /\ subscribed = Rows
    /\ sent = [key \in Keys |-> 0]
    /\ acked = {}
    /\ filled = {}

-----------------------------------------------------------------------------
Live(r) == EffectiveMode(plan[r].mode) = "LIVE"

IsStrategy(r) == plan[r].slot \notin TestSlots

SignalLegs(r) == DOMAIN plan[r].contract

\* The execution a task is at.
Key(t) == <<t[1], kind[t[1]], RowUser[t[2]], NextLeg(todo[t], kind[t[1]])>>

ContractOf(key) == plan[key[1]].contract[key[4]]

\* Money moved by the order of a filled execution.
Proceeds(key) ==
    IF key[2] = "ENTRY" THEN -Price[ContractOf(key)] ELSE Price[ContractOf(key)]

\* The net available balance the broker reports.
Balance(u) == Funds[u] + MapThenSumSet(Proceeds, {key \in filled : key[3] = u})

\* Fault: the margin is not compared with the balance.
IgnoreMargin(balance, required) == balance >= 0

\* can_user_execute with its default min_capital of 0.0.
CanUserExecute(balance, required) == balance >= 0 /\ required <= balance

\* What the gate asks for: quantity times price over the legs, EXIT or not, where a
\* leg without a price counts nothing.
RequiredMargin(t) ==
    IF plan[t[1]].quoted
    THEN MapThenSumSet(LAMBDA leg : Price[plan[t[1]].contract[leg]], todo[t])
    ELSE 0

May(t, fault) == fault \in UserFaults[RowUser[t[2]]]

\* The body of the leg loop is entered again, or left when no leg remains.
LoopPc(legs) == IF legs = {} THEN "over" ELSE "record"

At(t, pc) == rpc[t[1]] = "gather" /\ tpc[t] = pc

Goto(t, pc) == tpc' = [tpc EXCEPT ![t] = pc] /\ UNCHANGED todo

\* The task is through with its leg.
Advance(t) ==
    LET rest == todo[t] \ {NextLeg(todo[t], kind[t[1]])} IN
    /\ todo' = [todo EXCEPT ![t] = rest]
    /\ tpc' = [tpc EXCEPT ![t] = LoopPc(rest)]

-----------------------------------------------------------------------------
(* The run: create_signal, fan_out_signal, _fan_out_exit.                  *)

\* The coroutines of run r are gone, and what r had read with them.
DropTasks(r) ==
    /\ batch' = [batch EXCEPT ![r] = {}]
    /\ tpc' = [t \in Tasks |-> IF t[1] = r THEN "off" ELSE tpc[t]]
    /\ todo' = [t \in Tasks |-> IF t[1] = r THEN {} ELSE todo[t]]

\* After fan_out_signal a strategy holds and goes on to create its EXIT
\* signal; anything else is at its end.
AfterFanOut(r) ==
    /\ DropTasks(r)
    /\ IF IsStrategy(r) /\ kind[r] = "ENTRY"
       THEN /\ kind' = [kind EXCEPT ![r] = "EXIT"]
            /\ rpc' = [rpc EXCEPT ![r] = "create"]
       ELSE rpc' = [rpc EXCEPT ![r] = "done"] /\ UNCHANGED kind
    /\ UNCHANGED <<plan, entry, brokerVars, subscribed, storeVars>>

\* The gates before the first signal let the run through.
StartRun(r) ==
    /\ rpc[r] = "idle"
    /\ rpc' = [rpc EXCEPT ![r] = "create"]
    /\ UNCHANGED <<plan, kind, entry, batch, taskVars, brokerVars, subscribed, storeVars>>

\* Fault: a refused ENTRY does not stop the run, it goes on to the EXIT.
FallThrough(r) ==
    /\ rpc[r] = "create"
    /\ IF SignalExists(plan[r].slot, kind[r])
       THEN AfterFanOut(r)
       ELSE /\ InsertSignal(r, kind[r], plan[r].slot)
            /\ rpc' = [rpc EXCEPT ![r] = "subscribers"]
            /\ UNCHANGED <<plan, kind, entry, batch, taskVars, brokerVars, subscribed, status>>

\* create_signal; when it returns None the run returns, whatever the kind.
CreateSignal(r) ==
    /\ rpc[r] = "create"
    /\ IF SignalExists(plan[r].slot, kind[r])
       THEN rpc' = [rpc EXCEPT ![r] = "done"] /\ UNCHANGED signals
       ELSE /\ InsertSignal(r, kind[r], plan[r].slot)
            /\ rpc' = [rpc EXCEPT ![r] = "subscribers"]
    /\ UNCHANGED <<plan, kind, entry, batch, taskVars, brokerVars, subscribed, status>>

\* _process_user is called for every row of the batch with all the legs.
GatherAll(r, rows) ==
    /\ batch' = [batch EXCEPT ![r] = rows]
    /\ tpc' = [t \in Tasks |-> IF t[1] = r /\ t[2] \in rows THEN "account" ELSE tpc[t]]
    /\ todo' = [t \in Tasks |->
                  IF t[1] = r /\ t[2] \in rows THEN SignalLegs(r) ELSE todo[t]]
    /\ rpc' = [rpc EXCEPT ![r] = "gather"]

\* _get_subscribed_users, and the early returns of fan_out_signal.
ReadSubscribers(r) ==
    LET rows == {row \in subscribed : RowStrategy[row] = StrategyOf[plan[r].slot]} IN
    /\ rpc[r] = "subscribers"
    /\ \/ /\ rows = {} \/ SignalLegs(r) = {}
          /\ AfterFanOut(r)
       \/ /\ rows # {} /\ SignalLegs(r) # {} /\ kind[r] = "ENTRY"
          /\ GatherAll(r, rows)
          /\ UNCHANGED <<plan, kind, entry, brokerVars, subscribed, storeVars>>
       \/ /\ rows # {} /\ SignalLegs(r) # {} /\ kind[r] = "EXIT"
          /\ batch' = [batch EXCEPT ![r] = rows]
          /\ rpc' = [rpc EXCEPT ![r] = "match"]
          /\ UNCHANGED <<plan, kind, entry, taskVars, brokerVars, subscribed, storeVars>>

\* _find_matching_entry_signal: without an ENTRY the EXIT goes out unfiltered.
FindEntry(r) ==
    /\ rpc[r] = "match"
    /\ \/ /\ MatchingEntries(plan[r].slot) = {}
          /\ GatherAll(r, batch[r])
          /\ UNCHANGED entry
       \/ \E e \in MatchingEntries(plan[r].slot) :
            /\ entry' = [entry EXCEPT ![r] = e]
            /\ rpc' = [rpc EXCEPT ![r] = "positions"]
            /\ UNCHANGED <<batch, taskVars>>
    /\ UNCHANGED <<plan, kind, brokerVars, subscribed, storeVars>>

\* _get_user_placed_legs for the next user: one who holds nothing is left out,
\* the others get the legs of the signal they hold, possibly none.
CheckPosition(r, row) ==
    LET held == PlacedLegs(entry[r], RowUser[row])
        t == <<r, row>> IN
    /\ rpc[r] = "positions" /\ row \in batch[r] /\ tpc[t] = "off"
    /\ tpc' = [tpc EXCEPT ![t] = IF held = {} THEN "over" ELSE "account"]
    /\ todo' = [todo EXCEPT ![t] = SignalLegs(r) \cap held]
    /\ UNCHANGED <<runVars, brokerVars, subscribed, storeVars>>

\* Every position has been read: the gather of _fan_out_exit begins.
StartExits(r) ==
    /\ rpc[r] = "positions" /\ \A row \in batch[r] : tpc[<<r, row>>] # "off"
    /\ rpc' = [rpc EXCEPT ![r] = "gather"]
    /\ UNCHANGED <<plan, kind, entry, batch, taskVars, brokerVars, subscribed, storeVars>>

\* Fault: the fan-out ends with the first task that is over.
JoinFirst(r) ==
    /\ rpc[r] = "gather" /\ \E row \in batch[r] : tpc[<<r, row>>] = "over"
    /\ AfterFanOut(r)

\* Fault: the fan-out waits for whoever is subscribed by then.
JoinSubscribed(r) ==
    /\ rpc[r] = "gather" /\ \A row \in subscribed : tpc[<<r, row>>] = "over"
    /\ AfterFanOut(r)

\* gather returns when every task is over, whatever the tasks raised.
Join(r) ==
    /\ rpc[r] = "gather" /\ \A row \in batch[r] : tpc[<<r, row>>] = "over"
    /\ AfterFanOut(r)

Fail(r) ==
    /\ rpc' = [rpc EXCEPT ![r] = "failed"]
    /\ DropTasks(r)
    /\ UNCHANGED <<plan, kind, entry, brokerVars, subscribed, status>>

\* A database call made for the run raises and run_xxx_task ends; the insert
\* of the signal may have gone through.
StoreFails(r) ==
    /\ "store" \in RunFaults /\ rpc[r] \in {"create", "subscribers", "match"}
    /\ \/ UNCHANGED signals
       \/ /\ rpc[r] = "create" /\ ~SignalExists(plan[r].slot, kind[r])
          /\ InsertSignal(r, kind[r], plan[r].slot)
    /\ Fail(r)

\* The position read of one user raises: it is outside any try, and the whole
\* EXIT ends with it.
PositionReadFails(r, row) ==
    /\ rpc[r] = "positions" /\ row \in batch[r] /\ tpc[<<r, row>>] = "off"
    /\ May(<<r, row>>, "db")
    /\ Fail(r) /\ UNCHANGED signals

\* The worker process of the run dies.
Crash(r) ==
    /\ "crash" \in RunFaults /\ rpc[r] \notin {"idle", "done", "failed"}
    /\ Fail(r) /\ UNCHANGED signals

\* A user subscribes or unsubscribes in the app.
Churn(row) ==
    /\ "churn" \in RunFaults
    /\ subscribed' = IF row \in subscribed THEN subscribed \ {row} ELSE subscribed \cup {row}
    /\ UNCHANGED <<runVars, taskVars, brokerVars, storeVars>>

-----------------------------------------------------------------------------
(* The task: _process_user, _live_run and _dry_run.                        *)

\* _get_angel_account; a DRY run has nothing to gate.
ReadAccount(t) ==
    /\ At(t, "account")
    /\ \/ Goto(t, IF Live(t[1]) THEN "gate" ELSE LoopPc(todo[t]))
       \/ May(t, "account") /\ Goto(t, "over")
    /\ UNCHANGED <<runVars, brokerVars, subscribed, storeVars>>

\* get_balance_direct and can_user_execute, for EXIT as for ENTRY.  A user who
\* is turned away is notified and the task is over, notified or not.
Gate(t) ==
    /\ At(t, "gate")
    /\ LET allowed == CanUserExecute(Balance(RowUser[t[2]]), RequiredMargin(t)) IN
       \/ allowed /\ Goto(t, LoopPc(todo[t]))
       \/ (~allowed \/ May(t, "account")) /\ Goto(t, "over")
    /\ UNCHANGED <<runVars, brokerVars, subscribed, storeVars>>

\* record_execution: an existing row means the leg is somebody else's.
RecordExecution(t) ==
    /\ At(t, "record")
    /\ \/ ExecutionExists(Key(t)) /\ Advance(t) /\ UNCHANGED status
       \/ /\ ~ExecutionExists(Key(t))
          /\ InsertExecution(Key(t))
          /\ Goto(t, IF Live(t[1]) THEN "order" ELSE "dry")
       \/ /\ May(t, "db")
          /\ \/ UNCHANGED status
             \/ (~ExecutionExists(Key(t)) /\ InsertExecution(Key(t)))
          /\ Goto(t, "over")
    /\ UNCHANGED <<runVars, brokerVars, subscribed, signals>>

\* place_order_angel, a MARKET order.  The broker turns down a BUY the balance
\* does not cover.  An answer without data raises though the order is accepted.
PlaceOrder(t) ==
    LET key == Key(t)
        covered == \/ key[2] = "EXIT"
                   \/ Price[ContractOf(key)] <= Balance(key[3])
        fills == filled' = filled \cup {key}
    IN  /\ At(t, "order")
        /\ sent' = [sent EXCEPT ![key] = @ + 1]
        /\ \/ /\ covered
              /\ acked' = acked \cup {key}
              /\ fills \/ (May(t, "fill") /\ UNCHANGED filled)
              /\ Goto(t, "placed") \/ (May(t, "blank") /\ Goto(t, "except"))
           \/ /\ ~covered \/ May(t, "reject")
              /\ UNCHANGED <<acked, filled>>
              /\ Goto(t, "rejected")
           \/ /\ May(t, "timeout")
              /\ (covered /\ fills) \/ UNCHANGED filled
              /\ UNCHANGED acked
              /\ Goto(t, "except")
        /\ UNCHANGED <<runVars, subscribed, storeVars>>

\* update_execution at pc: on success the task goes on as next says; if the
\* call raises, written or not, it goes to onError.
Update(t, pc, s, next, onError) ==
    /\ At(t, pc)
    /\ \/ UpdateExecution(Key(t), s) /\ next
       \/ /\ May(t, "db")
          /\ UpdateExecution(Key(t), s) \/ UNCHANGED status
          /\ Goto(t, onError)
    /\ UNCHANGED <<runVars, brokerVars, subscribed, signals>>

MarkPlaced(t) == Update(t, "placed", "placed", Goto(t, "trade"), "except")

\* Fault: a rejection is recorded like a success.
MarkRejectedPlaced(t) == Update(t, "rejected", "placed", Advance(t), "except")

MarkRejected(t) == Update(t, "rejected", "failed", Advance(t), "except")

MarkDry(t) == Update(t, "mark", "dry", Advance(t), "except")

\* The update of an except clause: if it raises too, the task is over.
MarkFailed(t) == Update(t, "except", "failed", Advance(t), "over")

\* notify_user at pc, inside the try of _live_run or _dry_run.
Notify(t, pc, next) ==
    /\ At(t, pc)
    /\ next \/ (May(t, "notify") /\ Goto(t, "except"))
    /\ UNCHANGED <<runVars, brokerVars, subscribed, storeVars>>

NotifyTrade(t) == Notify(t, "trade", Advance(t))

NotifyDry(t) == Notify(t, "dry", Goto(t, "mark"))

-----------------------------------------------------------------------------
\* What the code does by itself once a run is started.
RunStep(r) ==
    \/ CreateSignal(r)
    \/ ReadSubscribers(r)
    \/ FindEntry(r)
    \/ \E row \in Rows : CheckPosition(r, row)
    \/ StartExits(r)
    \/ Join(r)

TaskStep(t) ==
    \/ ReadAccount(t)
    \/ Gate(t)
    \/ RecordExecution(t)
    \/ PlaceOrder(t)
    \/ MarkPlaced(t)
    \/ MarkRejected(t)
    \/ MarkDry(t)
    \/ MarkFailed(t)
    \/ NotifyTrade(t)
    \/ NotifyDry(t)

\* What may happen to it.
RunFault(r) ==
    \/ StoreFails(r)
    \/ \E row \in Rows : PositionReadFails(r, row)
    \/ Crash(r)

Next ==
    \/ \E r \in Runs : StartRun(r) \/ RunStep(r) \/ RunFault(r)
    \/ \E t \in Tasks : TaskStep(t)
    \/ \E row \in Rows : Churn(row)

Spec == Init /\ [][Next]_vars

\* asyncio goes on with every coroutine whose await has returned, and every
\* call made in one returns or raises.  Nobody has to start a run.
Fairness ==
    /\ \A r \in Runs : WF_vars(RunStep(r))
    /\ \A t \in Tasks : WF_vars(TaskStep(t))

FairSpec == Spec /\ Fairness

=============================================================================
