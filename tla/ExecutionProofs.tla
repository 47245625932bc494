-------------------------- MODULE ExecutionProofs ---------------------------
(***************************************************************************)
(* Proofs about Execution for any runs, users, subscriptions, plans, funds *)
(* and faults.                                                             *)
(***************************************************************************)
EXTENDS ExecutionInvariant, TLAPS

-----------------------------------------------------------------------------
\* The next leg of a loop that has legs left is one of them, and of the least rank.
LEMMA NextLegIn ==
    ASSUME NEW S \in SUBSET Legs, S # {}, NEW knd \in Kinds
    PROVE  /\ NextLeg(S, knd) \in S
           /\ \A other \in S : LegRank(knd)[NextLeg(S, knd)] <= LegRank(knd)[other]
<1> DEFINE rank == LegRank(knd)
           IsNext(leg) == leg \in S /\ \A other \in S : rank[leg] <= rank[other]
<1>1. /\ rank["CE"] = 1
      /\ rank["PE"] = IF knd = "ENTRY" THEN 2 ELSE 3
      /\ rank["FUT"] = IF knd = "ENTRY" THEN 3 ELSE 2
  BY DEF LegRank
<1> HIDE DEF rank
<1>2. \A leg \in S : leg \in {"CE", "PE", "FUT"}
  BY DEF Legs
<1>3. CASE "CE" \in S
  <2>1. IsNext("CE")
    BY <1>1, <1>2, <1>3
  <2>2. QED
    BY <2>1 DEF NextLeg, rank
<1>4. CASE "CE" \notin S /\ "PE" \in S /\ (knd = "ENTRY" \/ "FUT" \notin S)
  <2>1. IsNext("PE")
    BY <1>1, <1>2, <1>4
  <2>2. QED
    BY <2>1 DEF NextLeg, rank
<1>5. CASE "CE" \notin S /\ "FUT" \in S /\ (knd # "ENTRY" \/ "PE" \notin S)
  <2>1. IsNext("FUT")
    BY <1>1, <1>2, <1>5
  <2>2. QED
    BY <2>1 DEF NextLeg, rank
<1>6. QED
  BY <1>2, <1>3, <1>4, <1>5

\* A task that works on a leg names an execution of the table.
LEMMA KeyIn ==
    ASSUME TypeOK, NEW t \in Tasks, todo[t] # {}
    PROVE  Key(t) \in Keys /\ NextLeg(todo[t], kind[t[1]]) \in todo[t]
<1>1. t[1] \in Runs /\ t[2] \in Rows /\ RowUser[t[2]] \in Users
  BY ConstantsAssumption DEF Tasks
<1>2. kind[t[1]] \in Kinds /\ todo[t] \in SUBSET Legs
  BY <1>1 DEF TypeOK
<1>3. NextLeg(todo[t], kind[t[1]]) \in todo[t]
  BY <1>2, NextLegIn
<1>4. QED
  BY <1>1, <1>2, <1>3 DEF Key, Keys

\* What every plan is known to be.
LEMMA PlanFacts ==
    ASSUME TypeOK, NEW r \in Runs
    PROVE  /\ plan[r].slot \in Slots
           /\ SignalLegs(r) \in SUBSET Legs
           /\ IsStrategy(r) => plan[r].kind = "ENTRY"
<1>1. plan[r] \in Plans /\ plan[r] \in PlanSpace
  BY PlansAssumption DEF TypeOK
<1>2. plan[r].slot \in Slots /\ plan[r].contract \in UNION {[S -> Contracts] : S \in SUBSET Legs}
  BY <1>1 DEF PlanSpace
<1>3. PICK S \in SUBSET Legs : plan[r].contract \in [S -> Contracts]
  BY <1>2
<1>4. QED
  BY <1>1, <1>2, <1>3, PlansAssumption DEF SignalLegs, IsStrategy

\* Dropping the tasks of a run keeps the types.
LEMMA DropTypes ==
    ASSUME TypeOK, NEW r \in Runs, DropTasks(r)
    PROVE  /\ batch' \in [Runs -> SUBSET Rows]
           /\ tpc' \in [Tasks -> TaskPcs]
           /\ todo' \in [Tasks -> SUBSET Legs]
BY DEF DropTasks, TypeOK, TaskPcs

\* Starting the tasks of a run keeps the types.
LEMMA GatherTypes ==
    ASSUME TypeOK, NEW r \in Runs, NEW rows \in SUBSET Rows, GatherAll(r, rows)
    PROVE  /\ batch' \in [Runs -> SUBSET Rows]
           /\ tpc' \in [Tasks -> TaskPcs]
           /\ todo' \in [Tasks -> SUBSET Legs]
           /\ rpc' \in [Runs -> RunPcs]
BY PlanFacts DEF GatherAll, TypeOK, TaskPcs, RunPcs

-----------------------------------------------------------------------------
\* Initially all parts of the invariant hold.
LEMMA InitInductive == Init => Inductive
<1> SUFFICES ASSUME Init PROVE Inductive
  OBVIOUS
<1>1. TypeOK
  BY PlansAssumption DEF Init, TypeOK, StoreInit, StoreTypeOK, Statuses, RunPcs, TaskPcs, PlanSpace
<1>2. SignalsInv
  BY <1>1, PlansAssumption DEF Init, StoreInit, SignalsInv, FannedOut, ExitMatchesEntry, IsStrategy,
     TypeOK
<1>3. TasksInv
  BY DEF Init, StoreInit, TasksInv, Holding, LegPcs, Tasks
<1>4. OrdersInv
  BY DEF Init, StoreInit, OrdersInv
<1>5. FreshInv
  BY <1>1 DEF Init, FreshInv, TypeOK, Keys, Kinds
<1>6. PositionsInv
  BY <1>1 DEF Init, StoreInit, PositionsInv, SellsBackedByBuys, Ordered, TypeOK, Keys, Kinds, Tasks
<1>7. QED
  BY <1>1, <1>2, <1>3, <1>4, <1>5, <1>6 DEF Inductive

-----------------------------------------------------------------------------
\* Every step keeps the types.
LEMMA TypeStep == Inductive /\ [Next]_vars => TypeOK'
<1> SUFFICES ASSUME Inductive, [Next]_vars PROVE TypeOK'
  OBVIOUS
<1> USE DEF Inductive, TypeOK, StoreTypeOK, TasksInv, Holding, LegPcs, TaskPcs, RunPcs,
            Statuses, Kinds, SignalRows
<1>1. ASSUME NEW r \in Runs, StartRun(r) PROVE TypeOK'
  BY <1>1, PlanFacts
  DEF StartRun, runVars, taskVars, brokerVars, storeVars
<1>2. ASSUME NEW r \in Runs, CreateSignal(r) PROVE TypeOK'
  BY <1>2, PlanFacts
  DEF CreateSignal, InsertSignal, runVars, taskVars, brokerVars, storeVars
<1>3. ASSUME NEW r \in Runs, ReadSubscribers(r) PROVE TypeOK'
  <2> DEFINE rows == {row \in subscribed : RowStrategy[row] = StrategyOf[plan[r].slot]}
  <2>1. rows \in SUBSET Rows
    OBVIOUS
  <2>2. CASE AfterFanOut(r)
    BY <2>2, DropTypes DEF AfterFanOut, brokerVars, storeVars
  <2>3. CASE /\ GatherAll(r, rows)
             /\ UNCHANGED <<plan, kind, entry, brokerVars, subscribed, storeVars>>
    BY <2>1, <2>3, GatherTypes DEF brokerVars, storeVars
  <2>4. CASE /\ batch' = [batch EXCEPT ![r] = rows]
             /\ rpc' = [rpc EXCEPT ![r] = "match"]
             /\ UNCHANGED <<plan, kind, entry, taskVars, brokerVars, subscribed, storeVars>>
    BY <2>1, <2>4 DEF taskVars, brokerVars, storeVars
  <2>5. QED
    BY <1>3, <2>2, <2>3, <2>4 DEF ReadSubscribers
<1>4. ASSUME NEW r \in Runs, FindEntry(r) PROVE TypeOK'
  <2>1. CASE GatherAll(r, batch[r]) /\ UNCHANGED entry
    BY <1>4, <2>1, GatherTypes DEF FindEntry, brokerVars, storeVars
  <2>2. ASSUME NEW e \in MatchingEntries(plan[r].slot),
               entry' = [entry EXCEPT ![r] = e], rpc' = [rpc EXCEPT ![r] = "positions"],
               UNCHANGED <<batch, taskVars>>
        PROVE  TypeOK'
    <3>1. e \in Runs
      BY DEF MatchingEntries
    <3>2. UNCHANGED <<plan, kind, brokerVars, subscribed, storeVars>>
      BY <1>4 DEF FindEntry
    <3>3. QED
      BY <2>2, <3>1, <3>2 DEF taskVars, brokerVars, storeVars
  <2>3. QED
    BY <1>4, <2>1, <2>2 DEF FindEntry
<1>5. ASSUME NEW r \in Runs, StartExits(r) PROVE TypeOK'
  BY <1>5, PlanFacts
  DEF StartExits, runVars, taskVars, brokerVars, storeVars
<1>6. ASSUME NEW r \in Runs, Join(r) PROVE TypeOK'
  BY <1>6, PlanFacts
  DEF Join, AfterFanOut, DropTasks, runVars, taskVars, brokerVars, storeVars
<1>7. ASSUME NEW r \in Runs, StoreFails(r) PROVE TypeOK'
  BY <1>7, PlanFacts
  DEF StoreFails, Fail, DropTasks, InsertSignal, runVars, taskVars, brokerVars, storeVars
<1>8. ASSUME NEW r \in Runs, Crash(r) PROVE TypeOK'
  BY <1>8, PlanFacts
  DEF Crash, Fail, DropTasks, runVars, taskVars, brokerVars, storeVars
<1>9. ASSUME NEW r \in Runs, NEW row \in Rows, CheckPosition(r, row) PROVE TypeOK'
  BY <1>9, PlanFacts
  DEF CheckPosition, PlacedLegs, runVars, taskVars, brokerVars, storeVars
<1>10. ASSUME NEW r \in Runs, NEW row \in Rows, PositionReadFails(r, row) PROVE TypeOK'
  BY <1>10, PlanFacts
  DEF PositionReadFails, Fail, DropTasks, runVars, taskVars, brokerVars, storeVars
<1>11. ASSUME NEW t \in Tasks, ReadAccount(t) PROVE TypeOK'
  BY <1>11, PlanFacts
  DEF ReadAccount, Goto, LoopPc, At, runVars, taskVars, brokerVars, storeVars
<1>12. ASSUME NEW t \in Tasks, Gate(t) PROVE TypeOK'
  BY <1>12, PlanFacts
  DEF Gate, Goto, LoopPc, At, runVars, taskVars, brokerVars, storeVars
<1>13. ASSUME NEW t \in Tasks, RecordExecution(t) PROVE TypeOK'
  BY <1>13, KeyIn, PlanFacts
  DEF RecordExecution, Goto, Advance, LoopPc, InsertExecution, At, runVars, taskVars,
      brokerVars, storeVars
<1>14. ASSUME NEW t \in Tasks, PlaceOrder(t) PROVE TypeOK'
  BY <1>14, KeyIn, PlanFacts
  DEF PlaceOrder, Goto, At, runVars, taskVars, brokerVars, storeVars
<1>15. ASSUME NEW t \in Tasks, MarkPlaced(t) PROVE TypeOK'
  BY <1>15, KeyIn, PlanFacts
  DEF MarkPlaced, Update, UpdateExecution, Goto, At, runVars, taskVars, brokerVars, storeVars
<1>16. ASSUME NEW t \in Tasks, MarkRejected(t) PROVE TypeOK'
  BY <1>16, KeyIn, PlanFacts
  DEF MarkRejected, Update, UpdateExecution, Advance, LoopPc, Goto, At, runVars, taskVars,
      brokerVars, storeVars
<1>17. ASSUME NEW t \in Tasks, MarkDry(t) PROVE TypeOK'
  BY <1>17, KeyIn, PlanFacts
  DEF MarkDry, Update, UpdateExecution, Advance, LoopPc, Goto, At, runVars, taskVars,
      brokerVars, storeVars
<1>18. ASSUME NEW t \in Tasks, MarkFailed(t) PROVE TypeOK'
  BY <1>18, KeyIn, PlanFacts
  DEF MarkFailed, Update, UpdateExecution, Advance, LoopPc, Goto, At, runVars, taskVars,
      brokerVars, storeVars
<1>19. ASSUME NEW t \in Tasks, NotifyTrade(t) PROVE TypeOK'
  BY <1>19, KeyIn, PlanFacts
  DEF NotifyTrade, Notify, Advance, LoopPc, Goto, At, runVars, taskVars, brokerVars, storeVars
<1>20. ASSUME NEW t \in Tasks, NotifyDry(t) PROVE TypeOK'
  BY <1>20, KeyIn, PlanFacts
  DEF NotifyDry, Notify, Goto, At, runVars, taskVars, brokerVars, storeVars
<1>21. ASSUME NEW row \in Rows, Churn(row) PROVE TypeOK'
  BY <1>21, PlanFacts
  DEF Churn, runVars, taskVars, brokerVars, storeVars
<1>22. CASE UNCHANGED vars
  BY <1>22, PlanFacts
    DEF vars, runVars, taskVars, brokerVars, storeVars, Key, SignalRow, Ordered, Live
<1>23. QED
  BY <1>1, <1>2, <1>3, <1>4, <1>5, <1>6, <1>7, <1>8, <1>9, <1>10, <1>11, <1>12, <1>13, <1>14,
     <1>15, <1>16, <1>17, <1>18, <1>19, <1>20, <1>21, <1>22
  DEF Next, RunStep, RunFault, TaskStep

-----------------------------------------------------------------------------
\* A task leaves the run, the subscriptions and the signals alone.
LEMMA TaskFrame ==
    ASSUME NEW t \in Tasks, TaskStep(t)
    PROVE  UNCHANGED <<plan, rpc, kind, entry, batch, subscribed, signals>>
BY DEF TaskStep, ReadAccount, Gate, RecordExecution, PlaceOrder, MarkPlaced, MarkRejected, MarkDry,
   MarkFailed, NotifyTrade, NotifyDry, Update, Notify, runVars, storeVars

\* Every step keeps the table of signals in order.
LEMMA SignalsStep == Inductive /\ [Next]_vars => SignalsInv'
<1> SUFFICES ASSUME Inductive, [Next]_vars PROVE SignalsInv'
  OBVIOUS
<1> USE DEF Inductive, TypeOK, SignalsInv, FannedOut, SignalRow, IsStrategy, ExitMatchesEntry,
            Kinds, SignalExists
<1>1. ASSUME NEW r \in Runs, StartRun(r) PROVE SignalsInv'
  BY <1>1, PlanFacts
  DEF StartRun, runVars, taskVars, brokerVars, storeVars
<1>2. ASSUME NEW r \in Runs, CreateSignal(r) PROVE SignalsInv'
  BY <1>2, PlanFacts
  DEF CreateSignal, InsertSignal, runVars, taskVars, brokerVars, storeVars
<1>3. ASSUME NEW r \in Runs, ReadSubscribers(r) PROVE SignalsInv'
  BY <1>3, PlanFacts
  DEF ReadSubscribers, AfterFanOut, DropTasks, GatherAll, runVars, taskVars, brokerVars, storeVars
<1>4. ASSUME NEW r \in Runs, FindEntry(r) PROVE SignalsInv'
  BY <1>4, PlanFacts
  DEF FindEntry, GatherAll, MatchingEntries, runVars, taskVars, brokerVars, storeVars
<1>5. ASSUME NEW r \in Runs, StartExits(r) PROVE SignalsInv'
  BY <1>5, PlanFacts
  DEF StartExits, runVars, taskVars, brokerVars, storeVars
<1>6. ASSUME NEW r \in Runs, Join(r) PROVE SignalsInv'
  BY <1>6, PlanFacts
  DEF Join, AfterFanOut, DropTasks, runVars, taskVars, brokerVars, storeVars
<1>7. ASSUME NEW r \in Runs, StoreFails(r) PROVE SignalsInv'
  BY <1>7, PlanFacts
  DEF StoreFails, Fail, DropTasks, InsertSignal, runVars, taskVars, brokerVars, storeVars
<1>8. ASSUME NEW r \in Runs, Crash(r) PROVE SignalsInv'
  BY <1>8, PlanFacts
  DEF Crash, Fail, DropTasks, runVars, taskVars, brokerVars, storeVars
<1>9. ASSUME NEW r \in Runs, NEW row \in Rows, CheckPosition(r, row) PROVE SignalsInv'
  BY <1>9, PlanFacts
  DEF CheckPosition, PlacedLegs, runVars, taskVars, brokerVars, storeVars
<1>10. ASSUME NEW r \in Runs, NEW row \in Rows, PositionReadFails(r, row) PROVE SignalsInv'
  BY <1>10, PlanFacts
  DEF PositionReadFails, Fail, DropTasks, runVars, taskVars, brokerVars, storeVars
<1>11. ASSUME NEW t \in Tasks, TaskStep(t) PROVE SignalsInv'
  BY <1>11, TaskFrame, PlanFacts
<1>12. ASSUME NEW row \in Rows, Churn(row) PROVE SignalsInv'
  BY <1>12, PlanFacts
  DEF Churn, runVars, taskVars, brokerVars, storeVars
<1>13. CASE UNCHANGED vars
  BY <1>13, PlanFacts DEF vars, runVars, taskVars, brokerVars, storeVars
<1>14. QED
  BY <1>1, <1>2, <1>3, <1>4, <1>5, <1>6, <1>7, <1>8, <1>9, <1>10, <1>11, <1>12, <1>13
  DEF Next, RunStep, RunFault

-----------------------------------------------------------------------------
\* The key of a task depends on its remaining legs and on its run's kind only.
LEMMA KeySame ==
    ASSUME NEW t \in Tasks, todo'[t] = todo[t], kind'[t[1]] = kind[t[1]]
    PROVE  Key(t)' = Key(t)
BY DEF Key

\* A step of one task leaves the others where they are.
LEMMA TaskOthers ==
    ASSUME TypeOK, NEW t \in Tasks, TaskStep(t), NEW s \in Tasks, s # t
    PROVE  tpc'[s] = tpc[s] /\ todo'[s] = todo[s] /\ Key(s)' = Key(s)
<1>1. tpc'[s] = tpc[s] /\ todo'[s] = todo[s]
  BY DEF TaskStep, ReadAccount, Gate, RecordExecution, PlaceOrder, MarkPlaced, MarkRejected,
         MarkDry,
     MarkFailed, NotifyTrade, NotifyDry, Update, Notify, Goto, Advance, TypeOK
<1>2. QED
  BY <1>1, TaskFrame, KeySame

\* What a step does to its own task: in a leg it keeps its key, whose row exists
\* from then on, and which it has just inserted or was working on already.
TaskEffect(t) ==
    /\ rpc[t[1]] = "gather" /\ tpc'[t] # "off"
    /\ Holding(t)' \/ tpc'[t] = "record" => todo'[t] # {}
    /\ Holding(t)' =>
         /\ todo[t] # {} /\ Key(t)' = Key(t) /\ status'[Key(t)] # "none"
         /\ Holding(t) \/ status[Key(t)] = "none"
    /\ \A key \in Keys : status'[key] = "none" => status[key] = "none"

\* Every step of a task has that effect.
LEMMA TaskEffects ==
    ASSUME TypeOK, TasksInv, NEW t \in Tasks, TaskStep(t)
    PROVE  TaskEffect(t)
<1> USE TaskFrame, KeySame, KeyIn
    DEF TypeOK, StoreTypeOK, TasksInv, Holding, LegPcs, TaskEffect, At, Goto, Advance, LoopPc,
        brokerVars, storeVars
<1>1. CASE ReadAccount(t)
  BY <1>1 DEF ReadAccount
<1>2. CASE Gate(t)
  BY <1>2 DEF Gate
<1>3. CASE RecordExecution(t)
  BY <1>3 DEF RecordExecution, InsertExecution, ExecutionExists
<1>4. CASE PlaceOrder(t)
  BY <1>4 DEF PlaceOrder
<1>5. CASE MarkPlaced(t)
  BY <1>5 DEF MarkPlaced, Update, UpdateExecution
<1>6. CASE MarkRejected(t)
  BY <1>6 DEF MarkRejected, Update, UpdateExecution
<1>7. CASE MarkDry(t)
  BY <1>7 DEF MarkDry, Update, UpdateExecution
<1>8. CASE MarkFailed(t)
  BY <1>8 DEF MarkFailed, Update, UpdateExecution
<1>9. CASE NotifyTrade(t)
  BY <1>9 DEF NotifyTrade, Notify
<1>10. CASE NotifyDry(t)
  BY <1>10 DEF NotifyDry, Notify
<1>11. QED
  BY <1>1, <1>2, <1>3, <1>4, <1>5, <1>6, <1>7, <1>8, <1>9, <1>10 DEF TaskStep

-----------------------------------------------------------------------------
\* What everything but a step of a task does: it posts nothing, writes no row of an
\* execution, leaves a task that is at a leg alone, starts tasks inside a fan-out
\* only, and returns to a point before a fan-out only when an ENTRY is through.
RunEffect ==
    /\ UNCHANGED <<plan, status, sent, acked>> /\ signals \subseteq signals'
    /\ \A t \in Tasks :
         /\ tpc'[t] # "off" => rpc'[t[1]] \in {"positions", "gather"}
         /\ rpc'[t[1]] = "positions" => tpc'[t] \in {"off", "account", "over"}
         /\ tpc'[t] \in LegPcs \cup {"record"} =>
              tpc'[t] = tpc[t] /\ todo'[t] = todo[t] /\ kind'[t[1]] = kind[t[1]]
    /\ \A q \in Runs :
         /\ kind'[q] = "ENTRY" => kind[q] = "ENTRY"
         /\ rpc'[q] \in {"idle", "create", "subscribers", "match"} =>
              \/ rpc[q] \in {"idle", "create", "subscribers", "match"} /\ kind'[q] = kind[q]
              \/ kind[q] = "ENTRY" /\ kind'[q] = "EXIT"

\* The steps that are no task's.
OtherStep ==
    \/ \E r \in Runs : StartRun(r) \/ RunStep(r) \/ RunFault(r)
    \/ \E row \in Rows : Churn(row)
    \/ UNCHANGED vars

\* Every step that is no task's has that effect.
LEMMA RunEffects ==
    ASSUME TypeOK, TasksInv, OtherStep
    PROVE  RunEffect
<1> USE DEF TypeOK, TasksInv, Holding, LegPcs, RunEffect, Tasks, runVars, taskVars, brokerVars,
            storeVars
<1>1. ASSUME NEW r \in Runs, StartRun(r) PROVE RunEffect
  BY <1>1 DEF StartRun
<1>2. ASSUME NEW r \in Runs, CreateSignal(r) PROVE RunEffect
  BY <1>2 DEF CreateSignal, InsertSignal
<1>3. ASSUME NEW r \in Runs, ReadSubscribers(r) PROVE RunEffect
  BY <1>3 DEF ReadSubscribers, AfterFanOut, DropTasks, GatherAll
<1>4. ASSUME NEW r \in Runs, FindEntry(r) PROVE RunEffect
  <2>1. CASE GatherAll(r, batch[r])
    BY <1>4, <2>1 DEF FindEntry, GatherAll
  <2>2. CASE rpc' = [rpc EXCEPT ![r] = "positions"] /\ UNCHANGED <<batch, taskVars>>
    BY <1>4, <2>2 DEF FindEntry
  <2>3. QED
    BY <1>4, <2>1, <2>2 DEF FindEntry
<1>5. ASSUME NEW r \in Runs, StartExits(r) PROVE RunEffect
  BY <1>5 DEF StartExits
<1>6. ASSUME NEW r \in Runs, Join(r) PROVE RunEffect
  BY <1>6 DEF Join, AfterFanOut, DropTasks
<1>7. ASSUME NEW r \in Runs, StoreFails(r) PROVE RunEffect
  BY <1>7 DEF StoreFails, Fail, DropTasks, InsertSignal
<1>8. ASSUME NEW r \in Runs, Crash(r) PROVE RunEffect
  BY <1>8 DEF Crash, Fail, DropTasks
<1>9. ASSUME NEW r \in Runs, NEW row \in Rows, CheckPosition(r, row) PROVE RunEffect
  BY <1>9 DEF CheckPosition, PlacedLegs
<1>10. ASSUME NEW r \in Runs, NEW row \in Rows, PositionReadFails(r, row) PROVE RunEffect
  BY <1>10 DEF PositionReadFails, Fail, DropTasks
<1>11. ASSUME NEW row \in Rows, Churn(row) PROVE RunEffect
  BY <1>11 DEF Churn
<1>12. CASE UNCHANGED vars
  BY <1>12 DEF vars
<1>13. QED
  BY <1>1, <1>2, <1>3, <1>4, <1>5, <1>6, <1>7, <1>8, <1>9, <1>10, <1>11, <1>12
    DEF OtherStep, RunStep, RunFault

\* A step is a task's or not.
LEMMA StepKinds ==
    ASSUME [Next]_vars
    PROVE  OtherStep \/ \E t \in Tasks : TaskStep(t)
BY DEF Next, OtherStep

-----------------------------------------------------------------------------
\* Every step keeps the tasks apart.
LEMMA TasksStep == Inductive /\ [Next]_vars => TasksInv'
<1> SUFFICES ASSUME Inductive, [Next]_vars PROVE TasksInv'
  OBVIOUS
<1>1. TypeOK /\ SignalsInv /\ TasksInv /\ OrdersInv /\ FreshInv
  BY DEF Inductive
<1>2. ASSUME OtherStep PROVE TasksInv'
  <2>1. RunEffect
    BY <1>1, <1>2, RunEffects
  <2>2. \A t \in Tasks : Holding(t)' => Holding(t) /\ Key(t)' = Key(t)
    BY <2>1, KeySame DEF Holding, RunEffect
  <2>3. QED
    BY <1>1, <2>1, <2>2 DEF TasksInv, Holding, RunEffect
<1>3. ASSUME NEW t \in Tasks, TaskStep(t) PROVE TasksInv'
  <2>1. TaskEffect(t)
    BY <1>1, <1>3, TaskEffects
  <2>2. \A s \in Tasks : s # t => tpc'[s] = tpc[s] /\ todo'[s] = todo[s] /\ Key(s)' = Key(s)
    BY <1>1, <1>3, TaskOthers
  <2>3. rpc' = rpc /\ \A s \in Tasks : s # t => (Holding(s)' <=> Holding(s))
    BY <1>3, <2>2, TaskFrame DEF Holding, LegPcs
  <2>4. \A s \in Tasks : Holding(s) => Key(s) \in Keys
    BY <1>1, KeyIn DEF TasksInv
  <2>5. Holding(t)' => Key(t) \in Keys
    BY <1>1, <2>1, KeyIn DEF TaskEffect
  <2>6. QED
    BY <1>1, <2>1, <2>2, <2>3, <2>4, <2>5 DEF TasksInv, TaskEffect
<1>4. QED
  BY <1>2, <1>3, StepKinds

-----------------------------------------------------------------------------
\* What a step of a task writes: it inserts or updates the row of its leg, and it
\* posts an order only from "order", which only a LIVE run reaches and only by
\* inserting the row.
TaskWrites(t) ==
    /\ \A key \in Keys : status'[key] # status[key] => todo[t] # {} /\ key = Key(t)
    /\ \A key \in Keys :
         sent'[key] # sent[key] =>
            /\ tpc[t] = "order" /\ key = Key(t)
            /\ sent'[key] = sent[key] + 1
    /\ tpc[t] = "order" => tpc'[t] # "order"
    /\ tpc'[t] = "order" => Live(t[1]) /\ status[Key(t)] = "none" /\ sent' = sent

\* Every step of a task writes no more than that.
LEMMA TaskWritesRow ==
    ASSUME TypeOK, TasksInv, NEW t \in Tasks, TaskStep(t)
    PROVE  TaskWrites(t)
<1> USE KeyIn
    DEF TypeOK, StoreTypeOK, TasksInv, Holding, LegPcs, TaskWrites, At, Goto, Advance, LoopPc,
        brokerVars, storeVars
<1>1. CASE ReadAccount(t)
  BY <1>1 DEF ReadAccount
<1>2. CASE Gate(t)
  BY <1>2 DEF Gate
<1>3. CASE RecordExecution(t)
  BY <1>3 DEF RecordExecution, InsertExecution, ExecutionExists
<1>4. CASE PlaceOrder(t)
  BY <1>4 DEF PlaceOrder
<1>5. CASE MarkPlaced(t)
  BY <1>5 DEF MarkPlaced, Update, UpdateExecution
<1>6. CASE MarkRejected(t)
  BY <1>6 DEF MarkRejected, Update, UpdateExecution
<1>7. CASE MarkDry(t)
  BY <1>7 DEF MarkDry, Update, UpdateExecution
<1>8. CASE MarkFailed(t)
  BY <1>8 DEF MarkFailed, Update, UpdateExecution
<1>9. CASE NotifyTrade(t)
  BY <1>9 DEF NotifyTrade, Notify
<1>10. CASE NotifyDry(t)
  BY <1>10 DEF NotifyDry, Notify
<1>11. QED
  BY <1>1, <1>2, <1>3, <1>4, <1>5, <1>6, <1>7, <1>8, <1>9, <1>10 DEF TaskStep

\* Every step keeps the orders in order.
LEMMA OrdersStep == Inductive /\ [Next]_vars => OrdersInv'
<1> SUFFICES ASSUME Inductive, [Next]_vars PROVE OrdersInv'
  OBVIOUS
<1>1. TypeOK /\ SignalsInv /\ TasksInv /\ OrdersInv /\ FreshInv
  BY DEF Inductive
<1>2. ASSUME OtherStep PROVE OrdersInv'
  <2>1. RunEffect
    BY <1>1, <1>2, RunEffects
  <2>2. \A t \in Tasks : tpc'[t] = "order" => tpc[t] = "order" /\ Key(t)' = Key(t)
    BY <2>1, KeySame DEF RunEffect, LegPcs
  <2>3. QED
    BY <1>1, <2>1, <2>2 DEF OrdersInv, SignalRow, Live, RunEffect
<1>3. ASSUME NEW t \in Tasks, TaskStep(t) PROVE OrdersInv'
  <2>1. TaskEffect(t) /\ TaskWrites(t)
    BY <1>1, <1>3, TaskEffects, TaskWritesRow
  <2>2. \A s \in Tasks : s # t => tpc'[s] = tpc[s] /\ Key(s)' = Key(s)
    BY <1>3, <1>1, <2>1, TaskOthers
  <2>3. UNCHANGED <<plan, kind, signals, rpc>>
    BY <1>3, TaskFrame
  <2>4. \A s \in Tasks : Holding(s) => Key(s) \in Keys
    BY <1>1, <2>1, KeyIn DEF TasksInv
  <2>5. todo[t] # {} => Key(t) \in Keys
    BY <1>1, <2>1, KeyIn
  <2>6. sent \in [Keys -> Nat]
    BY <1>1, <2>1 DEF TypeOK
  <2>7. tpc[t] = "order" =>
          Key(t) \in Keys /\ sent[Key(t)] = 0 /\ Live(t[1]) /\ status[Key(t)] # "none"
    BY <1>1, <2>1, <2>4 DEF Holding, LegPcs, OrdersInv, TasksInv
  <2>8. \A key \in Keys : sent'[key] <= 1
    BY <1>1, <2>1, <2>6, <2>7 DEF OrdersInv, TaskWrites
  <2>9. \A key \in Keys : status'[key] = "none" => sent'[key] = 0
    BY <1>1, <2>1, <2>7 DEF OrdersInv, TaskWrites, TaskEffect
  <2>10. \A key \in Keys : status'[key] # "none" => SignalRow(key[1], key[2])' \in signals'
    <3>1. Key(t)[1] = t[1] /\ Key(t)[2] = kind[t[1]]
      BY DEF Key
    <3>2. SignalRow(t[1], kind[t[1]]) \in signals
      BY <1>1, <2>1 DEF SignalsInv, TaskEffect, FannedOut, Tasks
    <3>3. \A key \in Keys : status'[key] # "none" => SignalRow(key[1], key[2]) \in signals
      BY <1>1, <2>1, <3>1, <3>2 DEF OrdersInv, TaskWrites
    <3>4. QED
      BY <2>3, <3>3 DEF SignalRow
  <2>11. \A key \in Keys : sent'[key] # 0 => Live(key[1])'
    <3>1. \A key \in Keys : sent'[key] # 0 => Live(key[1])
      BY <1>1, <2>1, <2>7 DEF OrdersInv, TaskWrites, Key
    <3>2. QED
      BY <2>3, <3>1 DEF Live
  <2>12. \A s \in Tasks : tpc'[s] = "order" => sent'[Key(s)'] = 0 /\ Live(s[1])'
    <3>1. CASE tpc'[t] = "order"
      <4>1. Holding(t)' /\ Key(t)' = Key(t) /\ Key(t) \in Keys
        BY <1>1, <2>1, <2>5, <3>1 DEF Holding, LegPcs, TaskEffect
      <4>2. sent' = sent /\ sent[Key(t)] = 0 /\ Live(t[1])
        BY <1>1, <2>1, <3>1, <4>1 DEF TaskWrites, OrdersInv
      <4>3. QED
        BY <1>1, <2>1, <2>2, <2>3, <4>1, <4>2 DEF OrdersInv, Live
    <3>2. CASE tpc'[t] # "order"
      <4>1. ASSUME NEW s \in Tasks, tpc'[s] = "order"
            PROVE  sent'[Key(s)'] = 0 /\ Live(s[1])'
        <5>1. s # t /\ tpc[s] = "order" /\ Key(s)' = Key(s) /\ Key(s) \in Keys
          BY <2>2, <2>4, <3>2, <4>1 DEF Holding, LegPcs
        <5>2. tpc[t] = "order" => Key(s) # Key(t)
          BY <1>1, <2>1, <5>1 DEF TasksInv, Holding, LegPcs
        <5>3. sent'[Key(s)] = 0 /\ Live(s[1])
          BY <1>1, <2>1, <5>1, <5>2 DEF TaskWrites, OrdersInv
        <5>4. QED
          BY <2>3, <5>1, <5>3 DEF Live
      <4>2. QED
        BY <4>1
    <3>3. QED
      BY <3>1, <3>2
  <2>13. QED
    BY <2>8, <2>9, <2>10, <2>11, <2>12 DEF OrdersInv
<1>4. QED
  BY <1>2, <1>3, StepKinds

\* A signal that is not fanned out yet has no orders.
LEMMA FreshStep == Inductive /\ [Next]_vars => FreshInv'
<1> SUFFICES ASSUME Inductive, [Next]_vars PROVE FreshInv'
  OBVIOUS
<1>1. TypeOK /\ SignalsInv /\ TasksInv /\ OrdersInv /\ FreshInv
  BY DEF Inductive
<1>2. ASSUME OtherStep PROVE FreshInv'
  <2>1. RunEffect
    BY <1>1, <1>2, RunEffects
  <2>2. SUFFICES ASSUME NEW r \in Runs, NEW u \in Users, NEW leg \in Legs
                 PROVE  /\ rpc'[r] \in {"idle", "create", "subscribers", "match"} =>
                             sent'[<<r, kind'[r], u, leg>>] = 0
                        /\ kind'[r] = "ENTRY" => sent'[<<r, "EXIT", u, leg>>] = 0
    BY DEF FreshInv
  <2>3. /\ rpc[r] \in {"idle", "create", "subscribers", "match"} => sent[<<r, kind[r], u, leg>>] = 0
        /\ kind[r] = "ENTRY" => sent[<<r, "EXIT", u, leg>>] = 0
    BY <1>1 DEF FreshInv
  <2>4. CASE kind'[r] = kind[r]
    BY <2>1, <2>3, <2>4 DEF RunEffect
  <2>5. CASE kind'[r] # kind[r]
    BY <2>1, <2>3, <2>5 DEF RunEffect
  <2>6. QED
    BY <2>4, <2>5
<1>3. ASSUME NEW t \in Tasks, TaskStep(t) PROVE FreshInv'
  <2>1. TaskEffect(t) /\ TaskWrites(t)
    BY <1>1, <1>3, TaskEffects, TaskWritesRow
  <2>2. UNCHANGED <<kind, rpc>>
    BY <1>3, TaskFrame
  <2>3. ASSUME NEW r \in Runs, NEW knd \in Kinds, NEW u \in Users, NEW leg \in Legs,
               sent'[<<r, knd, u, leg>>] # sent[<<r, knd, u, leg>>]
        PROVE  rpc[r] = "gather" /\ knd = kind[r]
    BY <2>1, <2>3 DEF TaskEffect, TaskWrites, Key, Keys
  <2>4. ASSUME NEW r \in Runs, NEW u \in Users, NEW leg \in Legs
        PROVE  /\ rpc[r] \in {"idle", "create", "subscribers", "match"} =>
                    sent'[<<r, kind[r], u, leg>>] = 0
               /\ kind[r] = "ENTRY" => sent'[<<r, "EXIT", u, leg>>] = 0
    <3>1. kind[r] \in Kinds /\ "EXIT" \in Kinds
      BY <1>1 DEF Kinds, TypeOK
    <3>2. rpc[r] # "gather" => sent'[<<r, kind[r], u, leg>>] = sent[<<r, kind[r], u, leg>>]
      BY <2>3, <3>1
    <3>3. kind[r] # "EXIT" => sent'[<<r, "EXIT", u, leg>>] = sent[<<r, "EXIT", u, leg>>]
      BY <2>3, <3>1
    <3>4. QED
      BY <1>1, <3>2, <3>3 DEF FreshInv
  <2>5. QED
    BY <2>2, <2>4 DEF FreshInv
<1>4. QED
  BY <1>2, <1>3, StepKinds

-----------------------------------------------------------------------------
\* What a step of a task learns from the broker and writes about it.
TaskAnswers(t) ==
    /\ acked \subseteq acked' /\ todo'[t] \subseteq todo[t] /\ tpc[t] # "off"
    /\ \A key \in Keys : status'[key] = "placed" => key \in acked' \/ status[key] = "placed"
    /\ \A key \in Keys : status'[key] = "dry" => ~Live(key[1]) \/ status[key] = "dry"
    /\ tpc'[t] \in {"placed", "trade"} => Key(t) \in acked'
    /\ tpc'[t] \in {"dry", "mark"} => ~Live(t[1])
    /\ tpc[t] = "order" => todo[t] # {}

\* Every step of a task learns and writes no more than that.
LEMMA TaskAnswersTrue ==
    ASSUME TypeOK, TasksInv, PositionsInv, NEW t \in Tasks, TaskStep(t)
    PROVE  TaskAnswers(t)
<1>1. Key(t)[1] = t[1]
  BY DEF Key
<1>2. /\ tpc[t] \in LegPcs => todo[t] # {}
      /\ tpc[t] \in {"placed", "trade"} => Key(t) \in acked
      /\ tpc[t] \in {"dry", "mark"} => ~Live(t[1])
  BY DEF TasksInv, PositionsInv, Holding
<1> USE <1>1, <1>2
    DEF TypeOK, StoreTypeOK, LegPcs, TaskAnswers, At, Goto, Advance, LoopPc, brokerVars, storeVars
<1>3. CASE ReadAccount(t)
  BY <1>3 DEF ReadAccount
<1>4. CASE Gate(t)
  BY <1>4 DEF Gate
<1>5. CASE RecordExecution(t)
  BY <1>5 DEF RecordExecution, InsertExecution, ExecutionExists
<1>6. CASE PlaceOrder(t)
  BY <1>6 DEF PlaceOrder
<1>7. CASE MarkPlaced(t)
  BY <1>7 DEF MarkPlaced, Update, UpdateExecution
<1>8. CASE MarkRejected(t)
  BY <1>8 DEF MarkRejected, Update, UpdateExecution
<1>9. CASE MarkDry(t)
  BY <1>9 DEF MarkDry, Update, UpdateExecution
<1>10. CASE MarkFailed(t)
  BY <1>10 DEF MarkFailed, Update, UpdateExecution
<1>11. CASE NotifyTrade(t)
  BY <1>11 DEF NotifyTrade, Notify
<1>12. CASE NotifyDry(t)
  BY <1>12 DEF NotifyDry, Notify
<1>13. QED
  BY <1>3, <1>4, <1>5, <1>6, <1>7, <1>8, <1>9, <1>10, <1>11, <1>12 DEF TaskStep

\* A step that asks the broker nothing, matches no ENTRY and reads no position
\* keeps the positions.
PositionsFrame ==
    /\ UNCHANGED <<plan, status, sent, acked, entry>>
    /\ \A t \in Tasks :
         /\ tpc'[t] \in LegPcs =>
              tpc'[t] = tpc[t] /\ todo'[t] = todo[t] /\ kind'[t[1]] = kind[t[1]]
         /\ tpc'[t] # "off" /\ kind'[t[1]] = "EXIT" =>
              /\ tpc[t] # "off" /\ todo'[t] \subseteq todo[t]
              /\ kind[t[1]] = "EXIT"
    /\ \A q \in Runs :
         /\ kind'[q] = "ENTRY" => kind[q] = "ENTRY"
         /\ rpc'[q] \in {"match", "positions"} => kind'[q] = "EXIT"
         /\ rpc'[q] = "positions" => rpc[q] = "positions"
         /\ rpc'[q] \in {"positions", "gather"} /\ kind'[q] = "EXIT" =>
              rpc[q] \in {"positions", "gather"} /\ kind[q] = "EXIT"
         /\ rpc'[q] \in {"idle", "create", "subscribers", "match"} =>
              rpc[q] \in {"idle", "create", "subscribers", "match"} \/ kind[q] = "ENTRY"

\* Such a step keeps what makes a SELL a verified one.
LEMMA PositionsKept ==
    ASSUME TypeOK, PositionsInv, PositionsFrame
    PROVE  PositionsInv'
<1> USE DEF PositionsFrame
<1>1. \A t \in Tasks : tpc'[t] \in LegPcs => tpc[t] = tpc'[t] /\ Key(t)' = Key(t)
  BY KeySame
<1>2. /\ \A t \in Tasks : tpc'[t] \in {"placed", "trade"} => Key(t)' \in acked'
      /\ \A t \in Tasks : tpc'[t] \in {"dry", "mark"} => ~Live(t[1])'
  BY <1>1 DEF PositionsInv, LegPcs, Live
<1>3. SellsBackedByBuys'
  BY DEF PositionsInv, SellsBackedByBuys, Ordered, IsStrategy, Live
<1>4. \A t \in Tasks : \A leg \in todo'[t] :
        /\ tpc'[t] # "off" /\ kind'[t[1]] = "EXIT" /\ entry'[t[1]] # NoRun /\ Live(entry[t[1]])'
        => <<entry'[t[1]], "ENTRY", RowUser[t[2]], leg>> \in acked'
  BY DEF PositionsInv, Live
<1>5. \A r \in Runs :
        /\ rpc'[r] \in {"positions", "gather"} /\ kind'[r] = "EXIT" /\ IsStrategy(r)' =>
             entry'[r] = r
        /\ rpc'[r] \in {"match", "positions"} => kind'[r] = "EXIT"
        /\ rpc'[r] = "positions" => entry'[r] \in Runs
        /\ rpc'[r] \in {"idle", "create", "subscribers", "match"} \/ kind'[r] = "ENTRY" =>
             entry'[r] = NoRun
  BY DEF PositionsInv, IsStrategy
<1>6. /\ \A key \in Keys : status'[key] = "placed" => key \in acked'
      /\ \A key \in Keys : status'[key] = "dry" => ~Live(key[1])'
  BY DEF PositionsInv, Live
<1>7. QED
  BY <1>2, <1>3, <1>4, <1>5, <1>6 DEF PositionsInv

\* Every step keeps what makes a SELL a verified one.
LEMMA PositionsStep == Inductive /\ [Next]_vars => PositionsInv'
<1> SUFFICES ASSUME Inductive, [Next]_vars PROVE PositionsInv'
  OBVIOUS
<1> USE DEF Inductive, TypeOK, TasksInv, PositionsInv
<1>1. ASSUME NEW r \in Runs, StartRun(r) PROVE PositionsInv'
  <2>1. PositionsFrame
    BY <1>1
      DEF PositionsFrame, StartRun, Tasks, LegPcs, Kinds, runVars, taskVars, brokerVars,
          storeVars
  <2>2. QED
    BY <2>1, PositionsKept
<1>2. ASSUME NEW r \in Runs, CreateSignal(r) PROVE PositionsInv'
  <2>1. PositionsFrame
    BY <1>2
      DEF PositionsFrame, CreateSignal, InsertSignal, Tasks, LegPcs, Kinds, runVars, taskVars,
          brokerVars, storeVars
  <2>2. QED
    BY <2>1, PositionsKept
<1>3. ASSUME NEW r \in Runs, ReadSubscribers(r) PROVE PositionsInv'
  <2>1. PositionsFrame
    BY <1>3
      DEF PositionsFrame, ReadSubscribers, AfterFanOut, DropTasks, GatherAll, Tasks, LegPcs,
          Kinds, runVars, taskVars, brokerVars, storeVars
  <2>2. QED
    BY <2>1, PositionsKept
<1>4. ASSUME NEW r \in Runs, FindEntry(r) PROVE PositionsInv'
  <2> HIDE DEF Inductive, TypeOK, TasksInv, PositionsInv
  <2>1. TypeOK /\ SignalsInv /\ TasksInv /\ FreshInv /\ PositionsInv
    BY DEF Inductive
  <2>2. /\ rpc[r] = "match" /\ kind[r] = "EXIT" /\ entry[r] = NoRun
        /\ UNCHANGED <<plan, kind, status, signals, sent, acked>>
    BY <1>4, <2>1 DEF FindEntry, PositionsInv, brokerVars, storeVars
  <2>3. IsStrategy(r) => MatchingEntries(plan[r].slot) = {r}
    <3>1. \A e \in MatchingEntries(plan[r].slot) :
            [run |-> e, kind |-> "ENTRY", slot |-> plan[r].slot] \in signals
      BY DEF MatchingEntries
    <3>2. IsStrategy(r) => [run |-> r, kind |-> "ENTRY", slot |-> plan[r].slot] \in signals
      BY <2>1, <2>2 DEF SignalsInv, SignalRow
    <3>3. ASSUME IsStrategy(r), NEW e \in MatchingEntries(plan[r].slot) PROVE e = r
      <4>1. [run |-> e, kind |-> "ENTRY", slot |-> plan[r].slot] =
              [run |-> r, kind |-> "ENTRY", slot |-> plan[r].slot]
        BY <2>1, <3>1, <3>2, <3>3 DEF SignalsInv
      <4>2. QED
        BY <4>1
    <3>4. IsStrategy(r) => r \in MatchingEntries(plan[r].slot)
      BY <3>2 DEF MatchingEntries
    <3>5. QED
      BY <3>3, <3>4
  <2>4. CASE MatchingEntries(plan[r].slot) = {} /\ GatherAll(r, batch[r]) /\ UNCHANGED entry
    <3>1. ~IsStrategy(r)
      BY <2>3, <2>4
    <3> USE <2>1, <2>2, <2>4, <3>1 DEF GatherAll
    <3>2. \A t \in Tasks : tpc'[t] \in LegPcs =>
            t[1] # r /\ tpc'[t] = tpc[t] /\ Key(t)' = Key(t)
      BY KeySame DEF LegPcs, TasksInv, Tasks
    <3>3. /\ \A t \in Tasks : tpc'[t] \in {"placed", "trade"} => Key(t)' \in acked'
          /\ \A t \in Tasks : tpc'[t] \in {"dry", "mark"} => ~Live(t[1])'
      BY <3>2 DEF PositionsInv, LegPcs, Live
    <3>4. SellsBackedByBuys'
      BY DEF PositionsInv, SellsBackedByBuys, Ordered, IsStrategy, Live
    <3>5. \A t \in Tasks : \A leg \in todo'[t] :
            /\ tpc'[t] # "off" /\ kind'[t[1]] = "EXIT" /\ entry'[t[1]] # NoRun /\ Live(entry[t[1]])'
            => <<entry'[t[1]], "ENTRY", RowUser[t[2]], leg>> \in acked'
      BY DEF PositionsInv, Live
    <3>6. \A q \in Runs :
            /\ rpc'[q] \in {"positions", "gather"} /\ kind'[q] = "EXIT" /\ IsStrategy(q)' =>
                 entry'[q] = q
            /\ rpc'[q] \in {"match", "positions"} => kind'[q] = "EXIT"
            /\ rpc'[q] = "positions" => entry'[q] \in Runs
            /\ rpc'[q] \in {"idle", "create", "subscribers", "match"} \/ kind'[q] = "ENTRY" =>
                 entry'[q] = NoRun
      BY DEF PositionsInv, IsStrategy, TypeOK
    <3>7. /\ \A key \in Keys : status'[key] = "placed" => key \in acked'
          /\ \A key \in Keys : status'[key] = "dry" => ~Live(key[1])'
      BY DEF PositionsInv, Live
    <3>8. QED
      BY <3>3, <3>4, <3>5, <3>6, <3>7 DEF PositionsInv
  <2>5. ASSUME NEW e \in MatchingEntries(plan[r].slot),
               entry' = [entry EXCEPT ![r] = e], rpc' = [rpc EXCEPT ![r] = "positions"],
               UNCHANGED <<batch, taskVars>>
        PROVE  PositionsInv'
    <3>1. e \in Runs /\ (IsStrategy(r) => e = r)
      BY <2>3 DEF MatchingEntries
    <3> USE <2>1, <2>2, <2>5, <3>1 DEF taskVars
    <3>2. \A t \in Tasks : Key(t)' = Key(t)
      BY KeySame
    <3>3. /\ \A t \in Tasks : tpc'[t] \in {"placed", "trade"} => Key(t)' \in acked'
          /\ \A t \in Tasks : tpc'[t] \in {"dry", "mark"} => ~Live(t[1])'
      BY <3>2 DEF PositionsInv, Live
    <3>4. SellsBackedByBuys'
      <4>1. \A u \in Users, leg \in Legs : ~Ordered(<<r, "EXIT", u, leg>>)
        BY DEF FreshInv, Ordered
      <4>2. QED
        BY <4>1 DEF PositionsInv, SellsBackedByBuys, Ordered, IsStrategy, Live, TypeOK
    <3>5. \A t \in Tasks : \A leg \in todo'[t] :
            /\ tpc'[t] # "off" /\ kind'[t[1]] = "EXIT" /\ entry'[t[1]] # NoRun /\ Live(entry[t[1]])'
            => <<entry'[t[1]], "ENTRY", RowUser[t[2]], leg>> \in acked'
      <4>1. \A t \in Tasks : tpc[t] # "off" => t[1] # r
        BY DEF TasksInv
      <4>2. \A t \in Tasks : t[1] # r => entry'[t[1]] = entry[t[1]]
        BY DEF TypeOK, Tasks
      <4>3. QED
        BY <4>1, <4>2 DEF PositionsInv, Live
    <3>6. \A q \in Runs :
            /\ rpc'[q] \in {"positions", "gather"} /\ kind'[q] = "EXIT" /\ IsStrategy(q)' =>
                 entry'[q] = q
            /\ rpc'[q] \in {"match", "positions"} => kind'[q] = "EXIT"
            /\ rpc'[q] = "positions" => entry'[q] \in Runs
            /\ rpc'[q] \in {"idle", "create", "subscribers", "match"} \/ kind'[q] = "ENTRY" =>
                 entry'[q] = NoRun
      BY DEF PositionsInv, IsStrategy, TypeOK
    <3>7. /\ \A key \in Keys : status'[key] = "placed" => key \in acked'
          /\ \A key \in Keys : status'[key] = "dry" => ~Live(key[1])'
      BY DEF PositionsInv, Live
    <3>8. QED
      BY <3>3, <3>4, <3>5, <3>6, <3>7 DEF PositionsInv
  <2>6. QED
    BY <1>4, <2>4, <2>5 DEF FindEntry
<1>5. ASSUME NEW r \in Runs, StartExits(r) PROVE PositionsInv'
  <2>1. PositionsFrame
    BY <1>5
      DEF PositionsFrame, StartExits, Tasks, LegPcs, Kinds, runVars, taskVars, brokerVars,
          storeVars
  <2>2. QED
    BY <2>1, PositionsKept
<1>6. ASSUME NEW r \in Runs, Join(r) PROVE PositionsInv'
  <2>1. PositionsFrame
    BY <1>6
      DEF PositionsFrame, Join, AfterFanOut, DropTasks, Tasks, LegPcs, Kinds, runVars,
          taskVars, brokerVars, storeVars
  <2>2. QED
    BY <2>1, PositionsKept
<1>7. ASSUME NEW r \in Runs, StoreFails(r) PROVE PositionsInv'
  <2>1. PositionsFrame
    BY <1>7
      DEF PositionsFrame, StoreFails, Fail, DropTasks, InsertSignal, Tasks, LegPcs, Kinds,
          runVars, taskVars, brokerVars, storeVars
  <2>2. QED
    BY <2>1, PositionsKept
<1>8. ASSUME NEW r \in Runs, Crash(r) PROVE PositionsInv'
  <2>1. PositionsFrame
    BY <1>8
      DEF PositionsFrame, Crash, Fail, DropTasks, Tasks, LegPcs, Kinds, runVars, taskVars,
          brokerVars, storeVars
  <2>2. QED
    BY <2>1, PositionsKept
<1>9. ASSUME NEW r \in Runs, NEW row \in Rows, CheckPosition(r, row) PROVE PositionsInv'
  <2> HIDE DEF Inductive, TypeOK, TasksInv, PositionsInv
  <2> DEFINE t0 == <<r, row>>
  <2>1. TypeOK /\ PositionsInv
    BY DEF Inductive
  <2>2. /\ t0 \in Tasks /\ rpc[r] = "positions" /\ kind[r] = "EXIT" /\ entry[r] \in Runs
        /\ UNCHANGED <<plan, rpc, kind, entry, status, sent, acked>>
    BY <1>9, <2>1 DEF CheckPosition, PositionsInv, Tasks, runVars, brokerVars, storeVars
  <2>3. /\ tpc'[t0] \in {"over", "account"}
        /\ todo'[t0] \subseteq PlacedLegs(entry[r], RowUser[row])
        /\ \A t \in Tasks : t # t0 => tpc'[t] = tpc[t] /\ todo'[t] = todo[t]
    BY <1>9, <2>1, <2>2 DEF CheckPosition, TypeOK
  <2>4. \A leg \in PlacedLegs(entry[r], RowUser[row]) :
          Live(entry[r]) => <<entry[r], "ENTRY", RowUser[row], leg>> \in acked
    <3>1. \A leg \in Legs : <<entry[r], "ENTRY", RowUser[row], leg>> \in Keys
      BY <2>2, ConstantsAssumption DEF Keys, Kinds
    <3>2. QED
      BY <2>1, <3>1 DEF PlacedLegs, PositionsInv
  <2>5. \A t \in Tasks : tpc'[t] \in LegPcs => tpc'[t] = tpc[t] /\ Key(t)' = Key(t)
    BY <2>2, <2>3, KeySame DEF LegPcs
  <2> USE <2>1, <2>2
  <2>6. /\ \A t \in Tasks : tpc'[t] \in {"placed", "trade"} => Key(t)' \in acked'
        /\ \A t \in Tasks : tpc'[t] \in {"dry", "mark"} => ~Live(t[1])'
    BY <2>5 DEF PositionsInv, LegPcs, Live
  <2>7. SellsBackedByBuys'
    BY DEF PositionsInv, SellsBackedByBuys, Ordered, IsStrategy, Live
  <2>8. \A t \in Tasks : \A leg \in todo'[t] :
          /\ tpc'[t] # "off" /\ kind'[t[1]] = "EXIT" /\ entry'[t[1]] # NoRun /\ Live(entry[t[1]])'
          => <<entry'[t[1]], "ENTRY", RowUser[t[2]], leg>> \in acked'
    BY <2>3, <2>4 DEF PositionsInv, Live
  <2>9. \A q \in Runs :
          /\ rpc'[q] \in {"positions", "gather"} /\ kind'[q] = "EXIT" /\ IsStrategy(q)' =>
               entry'[q] = q
          /\ rpc'[q] \in {"match", "positions"} => kind'[q] = "EXIT"
          /\ rpc'[q] = "positions" => entry'[q] \in Runs
          /\ rpc'[q] \in {"idle", "create", "subscribers", "match"} \/ kind'[q] = "ENTRY" =>
               entry'[q] = NoRun
    BY DEF PositionsInv, IsStrategy
  <2>10. /\ \A key \in Keys : status'[key] = "placed" => key \in acked'
         /\ \A key \in Keys : status'[key] = "dry" => ~Live(key[1])'
    BY DEF PositionsInv, Live
  <2>11. QED
    BY <2>6, <2>7, <2>8, <2>9, <2>10 DEF PositionsInv
<1>10. ASSUME NEW r \in Runs, NEW row \in Rows, PositionReadFails(r, row) PROVE PositionsInv'
  <2>1. PositionsFrame
    BY <1>10
      DEF PositionsFrame, PositionReadFails, Fail, DropTasks, Tasks, LegPcs, Kinds, runVars,
          taskVars, brokerVars, storeVars
  <2>2. QED
    BY <2>1, PositionsKept
<1>11. ASSUME NEW t \in Tasks, TaskStep(t) PROVE PositionsInv'
  <2> HIDE DEF Inductive, TypeOK, TasksInv, PositionsInv
  <2>1. TypeOK /\ TasksInv /\ PositionsInv
    BY DEF Inductive
  <2>2. TaskEffect(t) /\ TaskWrites(t) /\ TaskAnswers(t)
    BY <1>11, <2>1, TaskEffects, TaskWritesRow, TaskAnswersTrue
  <2>3. \A s \in Tasks : s # t => tpc'[s] = tpc[s] /\ todo'[s] = todo[s] /\ Key(s)' = Key(s)
    BY <1>11, <2>1, TaskOthers
  <2>4. UNCHANGED <<plan, rpc, kind, entry>>
    BY <1>11, TaskFrame
  <2>5. tpc'[t] \in LegPcs => Key(t)' = Key(t)
    BY <2>2 DEF TaskEffect, Holding
  <2> USE <2>1, <2>2, <2>4
  <2>6. /\ \A s \in Tasks : tpc'[s] \in {"placed", "trade"} => Key(s)' \in acked'
        /\ \A s \in Tasks : tpc'[s] \in {"dry", "mark"} => ~Live(s[1])'
    BY <2>3, <2>5 DEF PositionsInv, TaskAnswers, LegPcs, Live
  <2>7. SellsBackedByBuys'
    <3>1. SUFFICES ASSUME NEW r \in Runs, NEW u \in Users, NEW leg \in Legs,
                          Ordered(<<r, "EXIT", u, leg>>)'
                   PROVE  /\ IsStrategy(r) => entry[r] = r
                          /\ entry[r] # NoRun /\ Live(entry[r]) =>
                               <<entry[r], "ENTRY", u, leg>> \in acked'
      BY DEF SellsBackedByBuys, IsStrategy, Live
    <3> DEFINE sell == <<r, "EXIT", u, leg>>
    <3>2. CASE sent'[sell] = sent[sell]
      BY <3>1, <3>2 DEF PositionsInv, SellsBackedByBuys, Ordered, TaskAnswers
    <3>3. CASE sent'[sell] # sent[sell]
      <4>1. sell \in Keys
        BY DEF Keys, Kinds
      <4>2. tpc[t] = "order" /\ sell = Key(t) /\ todo[t] # {}
        BY <3>3, <4>1 DEF TaskWrites, TaskAnswers
      <4>3. /\ t[1] = r /\ kind[r] = "EXIT" /\ RowUser[t[2]] = u /\ rpc[r] = "gather"
            /\ leg = NextLeg(todo[t], kind[t[1]])
        BY <4>2 DEF Key, TaskEffect
      <4>4. leg \in todo[t]
        BY <4>2, <4>3, KeyIn
      <4>5. QED
        BY <4>2, <4>3, <4>4 DEF PositionsInv, TaskAnswers
    <3>4. QED
      BY <3>2, <3>3
  <2>8. \A s \in Tasks : \A leg \in todo'[s] :
          /\ tpc'[s] # "off" /\ kind'[s[1]] = "EXIT" /\ entry'[s[1]] # NoRun /\ Live(entry[s[1]])'
          => <<entry'[s[1]], "ENTRY", RowUser[s[2]], leg>> \in acked'
    <3>1. \A s \in Tasks : todo'[s] \subseteq todo[s] /\ (tpc'[s] # "off" => tpc[s] # "off")
      BY <2>3 DEF TaskAnswers
    <3>2. QED
      BY <3>1 DEF PositionsInv, TaskAnswers, Live
  <2>9. \A q \in Runs :
          /\ rpc'[q] \in {"positions", "gather"} /\ kind'[q] = "EXIT" /\ IsStrategy(q)' =>
               entry'[q] = q
          /\ rpc'[q] \in {"match", "positions"} => kind'[q] = "EXIT"
          /\ rpc'[q] = "positions" => entry'[q] \in Runs
          /\ rpc'[q] \in {"idle", "create", "subscribers", "match"} \/ kind'[q] = "ENTRY" =>
               entry'[q] = NoRun
    BY DEF PositionsInv, IsStrategy
  <2>10. /\ \A key \in Keys : status'[key] = "placed" => key \in acked'
         /\ \A key \in Keys : status'[key] = "dry" => ~Live(key[1])'
    BY DEF PositionsInv, TaskAnswers, Live
  <2>11. QED
    BY <2>6, <2>7, <2>8, <2>9, <2>10 DEF PositionsInv
<1>12. ASSUME NEW row \in Rows, Churn(row) PROVE PositionsInv'
  <2>1. PositionsFrame
    BY <1>12
      DEF PositionsFrame, Churn, Tasks, LegPcs, Kinds, runVars, taskVars, brokerVars, storeVars
  <2>2. QED
    BY <2>1, PositionsKept
<1>13. CASE UNCHANGED vars
  BY <1>13, PositionsKept DEF vars, runVars, taskVars, brokerVars, storeVars, PositionsFrame, LegPcs
<1>14. QED
  BY <1>1, <1>2, <1>3, <1>4, <1>5, <1>6, <1>7, <1>8, <1>9, <1>10, <1>11, <1>12, <1>13
  DEF Next, RunStep, RunFault

-----------------------------------------------------------------------------
\* The invariant is one.
THEOREM Invariance == Spec => []Inductive
<1>1. Inductive /\ [Next]_vars => Inductive'
  BY TypeStep, SignalsStep, TasksStep, OrdersStep, FreshStep, PositionsStep DEF Inductive
<1>2. QED
  BY InitInductive, <1>1, PTL DEF Spec

\* The type invariant of the execution pipeline, for any constants.
THEOREM TypeCorrect == Spec => []TypeOK
<1>1. Inductive => TypeOK
  BY DEF Inductive
<1>2. QED
  BY Invariance, <1>1, PTL

\* However many invocations, subscription rows and faults there are, a user gets
\* at most one order per slot, kind and leg.
THEOREM SingleOrder == Spec => []AtMostOneOrder
<1>1. Inductive => AtMostOneOrder
  <2>1. SUFFICES ASSUME Inductive PROVE AtMostOneOrder
    OBVIOUS
  <2>2. \A key \in Keys : sent[key] <= 1
    BY <2>1 DEF Inductive, OrdersInv
  <2>3. ASSUME NEW k1 \in Keys, NEW k2 \in Keys, Ordered(k1), Ordered(k2),
               k1[2] = k2[2], k1[3] = k2[3], k1[4] = k2[4],
               plan[k1[1]].slot = plan[k2[1]].slot
        PROVE  k1 = k2
    <3>1. SignalRow(k1[1], k1[2]) \in signals /\ SignalRow(k2[1], k2[2]) \in signals
      BY <2>1, <2>3 DEF Inductive, OrdersInv, Ordered
    <3>2. SignalRow(k1[1], k1[2]) = SignalRow(k2[1], k2[2])
      BY <2>1, <2>3, <3>1 DEF Inductive, SignalsInv, SignalRow
    <3>3. k1[1] = k2[1]
      BY <3>2 DEF SignalRow
    <3>4. QED
      BY <2>3, <3>3 DEF Keys
  <2>4. QED
    BY <2>2, <2>3 DEF AtMostOneOrder
<1>2. QED
  BY Invariance, <1>1, PTL

\* No order without its signal and its row, and none out of a mode but LIVE.
THEOREM Accounted == Spec => []OrdersAreAccounted
<1>1. Inductive => OrdersAreAccounted
  BY DEF Inductive, OrdersInv, OrdersAreAccounted, Ordered, Live, EffectiveMode, Upper
<1>2. QED
  BY Invariance, <1>1, PTL

\* The EXIT of a strategy is written by the run that wrote its ENTRY.
THEOREM ExitsOwned == Spec => []ExitMatchesEntry
<1>1. Inductive => ExitMatchesEntry
  BY DEF Inductive, SignalsInv
<1>2. QED
  BY Invariance, <1>1, PTL

\* What is sold under a matched ENTRY is what the broker accepted a BUY of, and a
\* strategy is matched with its own ENTRY only.
THEOREM SellsVerified == Spec => []SellsBackedByBuys
<1>1. Inductive => SellsBackedByBuys
  BY DEF Inductive, PositionsInv
<1>2. QED
  BY Invariance, <1>1, PTL

-----------------------------------------------------------------------------
(* The execution pipeline implements the ledger of orders.                 *)

\* The inserts of a signal: create_signal, or one that failed after writing.
Inserts(r) ==
    /\ rpc[r] = "create" /\ ~SignalExists(plan[r].slot, kind[r])
    /\ InsertSignal(r, kind[r], plan[r].slot)
    /\ UNCHANGED brokerVars

-----------------------------------------------------------------------------
\* A signal that is inserted is a claim the ledger allows.
LEMMA InsertClaims ==
    ASSUME Inductive, NEW r \in Runs, Inserts(r)
    PROVE  Ledger!LedgerNext
<1>1. TypeOK /\ SignalsInv
  BY DEF Inductive
<1>2. plan[r].slot \in Slots /\ kind[r] \in Kinds
  BY <1>1, PlanFacts DEF TypeOK
<1>3. \A c \in signals : c.slot # plan[r].slot \/ c.kind # kind[r]
  BY DEF Inserts, SignalExists
<1>4. \A c \in signals : c.run = r => c.slot = plan[r].slot
  BY <1>1 DEF SignalsInv
<1>5. kind[r] = "EXIT" /\ plan[r].slot \notin TestSlots =>
        [run |-> r, kind |-> "ENTRY", slot |-> plan[r].slot] \in signals
  BY <1>1 DEF SignalsInv, IsStrategy, SignalRow
<1>6. /\ signals' = signals \cup {[run |-> r, kind |-> kind[r], slot |-> plan[r].slot]}
      /\ UNCHANGED <<sent, acked>>
  BY DEF Inserts, InsertSignal, brokerVars
<1>7. Ledger!Claim(r, kind[r], plan[r].slot)
  BY <1>3, <1>4, <1>5, <1>6 DEF Ledger!Claim
<1>8. QED
  BY <1>2, <1>7 DEF Ledger!LedgerNext, Ledger!Kinds, Kinds

\* An order that is placed is a post the ledger allows.
LEMMA OrderPosts ==
    ASSUME Inductive, NEW t \in Tasks, PlaceOrder(t)
    PROVE  Ledger!LedgerNext
<1> DEFINE r == t[1]
           u == RowUser[t[2]]
           leg == NextLeg(todo[t], kind[r])
           c == [run |-> r, kind |-> kind[r], slot |-> plan[r].slot]
<1>1. TypeOK /\ SignalsInv /\ TasksInv /\ OrdersInv /\ PositionsInv
  BY DEF Inductive
<1>2. rpc[r] = "gather" /\ tpc[t] = "order"
  BY DEF PlaceOrder, At
<1>3. todo[t] # {}
  BY <1>1, <1>2 DEF TasksInv, Holding, LegPcs
<1>4. Key(t) \in Keys /\ leg \in todo[t] /\ Key(t) = <<r, kind[r], u, leg>>
  BY <1>1, <1>3, KeyIn DEF Key
<1>5. r \in Runs /\ u \in Users /\ leg \in Legs
  BY <1>4 DEF Keys
<1>6. c \in signals
  BY <1>1, <1>2, <1>5 DEF SignalsInv, FannedOut, SignalRow
<1>7. sent[Key(t)] = 0 /\ Live(r)
  BY <1>1, <1>2 DEF OrdersInv
<1>8. kind[r] = "EXIT" /\ plan[r].slot \notin TestSlots => <<r, "ENTRY", u, leg>> \in acked
  <2>1. SUFFICES ASSUME kind[r] = "EXIT", plan[r].slot \notin TestSlots
                 PROVE  <<r, "ENTRY", u, leg>> \in acked
    OBVIOUS
  <2>2. entry[r] = r
    BY <1>1, <1>2, <1>5, <2>1 DEF PositionsInv, IsStrategy
  <2>3. entry[r] # NoRun
    BY <1>5, <2>2, ConstantsAssumption
  <2>4. QED
    BY <1>1, <1>2, <1>4, <1>7, <2>1, <2>2, <2>3 DEF PositionsInv
<1>9. /\ sent' = [sent EXCEPT ![Key(t)] = 1]
      /\ acked' \in {acked, acked \cup {Key(t)}}
      /\ UNCHANGED signals
  BY <1>1, <1>4, <1>7 DEF PlaceOrder, TypeOK, storeVars
<1>10. Ledger!Post(c, u, leg)
  BY <1>4, <1>7, <1>8, <1>9 DEF Ledger!Post
<1>11. QED
  BY <1>5, <1>6, <1>10 DEF Ledger!LedgerNext, Ledger!Legs, Legs

-----------------------------------------------------------------------------
\* Every step is a step of the ledger, or none.
LEMMA StepImplements ==
    ASSUME Inductive, [Next]_vars
    PROVE  [Ledger!LedgerNext]_Ledger!ledgerVars
<1> DEFINE Stutter == UNCHANGED <<signals, sent, acked>>
<1>1. Stutter => [Ledger!LedgerNext]_Ledger!ledgerVars
  BY DEF Ledger!ledgerVars
<1>2. ASSUME NEW r \in Runs, CreateSignal(r) PROVE Stutter \/ Inserts(r)
  BY <1>2 DEF CreateSignal, Inserts, brokerVars
<1>3. ASSUME NEW r \in Runs, StoreFails(r) PROVE Stutter \/ Inserts(r)
  BY <1>3 DEF StoreFails, Fail, Inserts, brokerVars
<1>4. ASSUME NEW r \in Runs,
             StartRun(r) \/ ReadSubscribers(r) \/ FindEntry(r) \/ StartExits(r)
                \/ Join(r) \/ Crash(r)
      PROVE  Stutter
  BY <1>4 DEF StartRun, ReadSubscribers, FindEntry, StartExits, Join, Crash, Fail, AfterFanOut,
     brokerVars, storeVars
<1>5. ASSUME NEW r \in Runs, NEW row \in Rows, CheckPosition(r, row) \/ PositionReadFails(r, row)
      PROVE  Stutter
  BY <1>5 DEF CheckPosition, PositionReadFails, Fail, brokerVars, storeVars
<1>6. ASSUME NEW t \in Tasks, TaskStep(t) PROVE Stutter \/ PlaceOrder(t)
  BY <1>6 DEF TaskStep, ReadAccount, Gate, RecordExecution, MarkPlaced, MarkRejected, MarkDry,
     MarkFailed, NotifyTrade, NotifyDry, Update, Notify, brokerVars, storeVars
<1>7. ASSUME NEW row \in Rows, Churn(row) PROVE Stutter
  BY <1>7 DEF Churn, brokerVars, storeVars
<1>8. UNCHANGED vars => Stutter
  BY DEF vars, brokerVars, storeVars
<1>9. QED
  BY <1>1, <1>2, <1>3, <1>4, <1>5, <1>6, <1>7, <1>8, InsertClaims, OrderPosts
  DEF Next, RunStep, RunFault

\* The execution pipeline implements the ledger: one claim per slot and kind, one
\* order per claim, user and leg, and no SELL of a strategy without its BUY.
THEOREM Implements == Spec => ImplementsLedger
<1>1. Init => Ledger!LedgerInit
  BY DEF Init, StoreInit, Ledger!LedgerInit, Keys, Ledger!OrderKeys, Kinds, Ledger!Kinds, Legs,
         Ledger!Legs
<1>2. Inductive /\ [Next]_vars => [Ledger!LedgerNext]_Ledger!ledgerVars
  BY StepImplements
<1>3. QED
  BY <1>1, <1>2, Invariance, PTL DEF Spec, ImplementsLedger, Ledger!LedgerSpec

=============================================================================
