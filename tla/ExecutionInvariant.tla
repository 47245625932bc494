------------------------- MODULE ExecutionInvariant -------------------------
(***************************************************************************)
(* The inductive invariant of Execution, in four parts: the table of       *)
(* signals, the tasks, the orders, and what makes a SELL a verified one;   *)
(* and what is added to it for the table of executions, the order of the   *)
(* legs and the money.                                                     *)
(***************************************************************************)
EXTENDS ExecutionProperties

Holding(t) == tpc[t] \in LegPcs

FannedOut == {"subscribers", "match", "positions", "gather"}

\* Rows of signals are unique per slot and kind, belong to the slot of the run
\* that wrote them, and whoever works on a signal has written it.
SignalsInv ==
    /\ \A s1, s2 \in signals : s1.slot = s2.slot /\ s1.kind = s2.kind => s1 = s2
    /\ \A s \in signals : s.slot = plan[s.run].slot
    /\ \A r \in Runs : rpc[r] \in FannedOut => SignalRow(r, kind[r]) \in signals
    /\ \A r \in Runs :
         IsStrategy(r) /\ kind[r] = "EXIT" => SignalRow(r, "ENTRY") \in signals
    /\ ExitMatchesEntry

\* Tasks live inside a fan-out, and the one that is working on a leg is the only
\* one to have inserted the leg's row.
TasksInv ==
    /\ \A t \in Tasks : tpc[t] # "off" => rpc[t[1]] \in {"positions", "gather"}
    /\ \A t \in Tasks :
         rpc[t[1]] = "positions" => tpc[t] \in {"off", "account", "over"}
    /\ \A t \in Tasks : Holding(t) \/ tpc[t] = "record" => todo[t] # {}
    /\ \A t \in Tasks : Holding(t) => status[Key(t)] # "none"
    /\ \A t1, t2 \in Tasks : Holding(t1) /\ Holding(t2) /\ Key(t1) = Key(t2) => t1 = t2

\* At most one request per row, none without a row, none out of a DRY run.
OrdersInv ==
    /\ \A key \in Keys : sent[key] <= 1
    /\ \A key \in Keys : status[key] = "none" => sent[key] = 0
    /\ \A key \in Keys :
         status[key] # "none" => SignalRow(key[1], key[2]) \in signals
    /\ \A key \in Keys : sent[key] # 0 => Live(key[1])
    /\ \A t \in Tasks : tpc[t] = "order" => sent[Key(t)] = 0
    /\ \A t \in Tasks : tpc[t] = "order" => Live(t[1])

\* Before a run fans a signal out it has posted nothing for it.
FreshInv ==
    \A r \in Runs, u \in Users, leg \in Legs :
        /\ rpc[r] \in {"idle", "create", "subscribers", "match"} =>
             sent[<<r, kind[r], u, leg>>] = 0
        /\ kind[r] = "ENTRY" => sent[<<r, "EXIT", u, leg>>] = 0

\* What a row says of the broker's answer, and what the tasks of an EXIT have
\* left to sell.
PositionsInv ==
    /\ \A key \in Keys : status[key] = "placed" => key \in acked
    /\ \A key \in Keys : status[key] = "dry" => ~Live(key[1])
    /\ \A t \in Tasks : tpc[t] \in {"placed", "trade"} => Key(t) \in acked
    /\ \A t \in Tasks : tpc[t] \in {"dry", "mark"} => ~Live(t[1])
    /\ \A r \in Runs :
         rpc[r] \in {"positions", "gather"} /\ kind[r] = "EXIT" /\ IsStrategy(r) =>
             entry[r] = r
    /\ \A r \in Runs : rpc[r] \in {"match", "positions"} => kind[r] = "EXIT"
    /\ \A r \in Runs : rpc[r] = "positions" => entry[r] \in Runs
    /\ \A r \in Runs :
         rpc[r] \in {"idle", "create", "subscribers", "match"} \/ kind[r] = "ENTRY" =>
             entry[r] = NoRun
    /\ \A t \in Tasks : \A leg \in todo[t] :
         /\ tpc[t] # "off" /\ kind[t[1]] = "EXIT" /\ entry[t[1]] # NoRun
         /\ Live(entry[t[1]])
         => <<entry[t[1]], "ENTRY", RowUser[t[2]], leg>> \in acked
    /\ SellsBackedByBuys

Inductive ==
    /\ TypeOK
    /\ SignalsInv
    /\ TasksInv
    /\ OrdersInv
    /\ FreshInv
    /\ PositionsInv

-----------------------------------------------------------------------------
(* What the table, the order of the legs and the gate rest on.             *)

\* Before a run fans a signal out, the signal has no rows either.
UnfannedOut == {"idle", "create", "subscribers", "match", "positions"}

RowsInv ==
    \A r \in Runs, u \in Users, leg \in Legs :
        /\ rpc[r] \in UnfannedOut => status[<<r, kind[r], u, leg>>] = "none"
        /\ kind[r] = "ENTRY" => status[<<r, "EXIT", u, leg>>] = "none"

\* The tasks of a run are those of the rows it has read, which are its strategy's,
\* and they go through its legs.
BatchInv ==
    /\ \A r \in Runs : \A row \in batch[r] : RowStrategy[row] = StrategyOf[plan[r].slot]
    /\ \A t \in Tasks : tpc[t] # "off" => t[2] \in batch[t[1]]
    /\ \A t \in Tasks : todo[t] \subseteq SignalLegs(t[1])

\* The broker answers what was posted, and a LIVE task past its order has posted it.
PostedInv ==
    /\ \A key \in acked \cup filled : Ordered(key)
    /\ \A t \in Tasks : Live(t[1]) /\ Holding(t) /\ tpc[t] # "order" => Ordered(Key(t))

\* What the table should say of an execution once nobody is working on it.
Verdict(key) ==
    IF key \in acked THEN "placed" ELSE IF Ordered(key) THEN "failed" ELSE "dry"

\* A row says what the broker answered, unless a task is still working on it or
\* the run ended in the middle of the fan-out it belongs to.
SettledInv ==
    /\ \A t \in Tasks : Noted(RowUser[t[2]]) =>
         /\ tpc[t] = "trade" => status[Key(t)] = "placed"
         /\ tpc[t] \in {"rejected", "except"} => Ordered(Key(t)) /\ Key(t) \notin acked
    /\ \A key \in Keys :
         Noted(key[3]) /\ status[key] # "none" =>
            \/ status[key] = Verdict(key)
            \/ \E t \in Tasks : Holding(t) /\ Key(t) = key
            \/ rpc[key[1]] = "failed" /\ kind[key[1]] = key[2]

\* Orders are finitely many, of legs their runs have, and leave nobody in debt.
SolventInv ==
    /\ IsFiniteSet(filled)
    /\ \A key \in filled : key[4] \in SignalLegs(key[1])
    /\ \A u \in Users : Balance(u) >= 0

ClosingInductive ==
    /\ Inductive
    /\ RowsInv
    /\ BatchInv
    /\ PostedInv
    /\ SettledInv
    /\ SolventInv

\* What the broker accepts is filled, where the exchange fills.
FilledInv == \A key \in acked : "fill" \notin UserFaults[key[3]] => key \in filled

-----------------------------------------------------------------------------
\* No user has two subscriptions to one strategy.
SubscribedOnce ==
    \A row1, row2 \in Rows :
        RowUser[row1] = RowUser[row2] /\ RowStrategy[row1] = RowStrategy[row2] => row1 = row2

KeyOf(t, leg) == <<t[1], kind[t[1]], RowUser[t[2]], leg>>

\* The legs a task of a strategy is started with.
StartLegs(t) ==
    IF kind[t[1]] = "ENTRY" THEN SignalLegs(t[1])
    ELSE SignalLegs(t[1]) \cap PlacedLegs(t[1], RowUser[t[2]])

\* Where a user has one task, a leg it has not come to has no row, and one it has
\* been through was ordered, unless the run is a DRY one.
LegsInv ==
    \A t \in Tasks : IsStrategy(t[1]) /\ tpc[t] # "off" =>
        /\ tpc[t] # "over" =>
             \A leg \in todo[t] :
                ~(Holding(t) /\ leg = NextLeg(todo[t], kind[t[1]])) =>
                    status[KeyOf(t, leg)] = "none"
        /\ Live(t[1]) => \A leg \in StartLegs(t) \ todo[t] : Ordered(KeyOf(t, leg))

-----------------------------------------------------------------------------
\* The legs a task has still to pay: the one it is at is paid once it is posted.
Unpaid(t) ==
    IF tpc[t] \in {"placed", "trade", "rejected", "except"}
    THEN todo[t] \ {NextLeg(todo[t], kind[t[1]])} ELSE todo[t]

\* What the legs cost under the plan p, as the gate sees it.
Cost(p, legs) == MapThenSumSet(LAMBDA leg : Price[p.contract[leg]], legs)

\* The sum the gate makes, over any legs.
Margin(p, legs) == IF p.quoted THEN Cost(p, legs) ELSE 0

\* A LIVE task of an ENTRY that is past the gate can pay the legs it has left, as long
\* as nobody else buys.
FundsInv ==
    \A t \in Tasks :
        Live(t[1]) /\ kind[t[1]] = "ENTRY" /\ (Holding(t) \/ tpc[t] = "record") =>
            \/ BuysElsewhere(t[1], RowUser[t[2]])
            \/ Margin(plan[t[1]], Unpaid(t)) <= Balance(RowUser[t[2]])

=============================================================================
