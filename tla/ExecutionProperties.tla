------------------------ MODULE ExecutionProperties -------------------------
(***************************************************************************)
(* What should be true of Execution.                                       *)
(***************************************************************************)
EXTENDS Execution

SignalRow(r, knd) == [run |-> r, kind |-> knd, slot |-> plan[r].slot]

Ordered(key) == sent[key] >= 1

\* However many times a task is invoked and however many rows a subscription
\* has, a user gets at most one order per leg for the ENTRY of a slot and one
\* for its EXIT (README "Idempotent by design"; signals.py 22-81).
AtMostOneOrder ==
    /\ \A key \in Keys : sent[key] <= 1
    /\ \A k1, k2 \in Keys :
         /\ Ordered(k1) /\ Ordered(k2)
         /\ k1[2] = k2[2] /\ k1[3] = k2[3] /\ k1[4] = k2[4]
         /\ plan[k1[1]].slot = plan[k2[1]].slot
         => k1 = k2

\* An order is posted only for a signal and an execution row that are in the
\* tables, and only by a run invoked with mode LIVE: neither DRY nor a mode that
\* does not exist may move money (executor.py 213-216, 354-370).
OrdersAreAccounted ==
    \A key \in Keys :
        Ordered(key) =>
            /\ status[key] # "none"
            /\ SignalRow(key[1], key[2]) \in signals
            /\ plan[key[1]].mode \in {"LIVE", "live"}

\* The EXIT of a strategy is written by the run whose ENTRY was accepted, never
\* by one whose own ENTRY was refused as a duplicate (demo_strategy.py 103-109).
ExitMatchesEntry ==
    \A s \in signals :
        s.kind = "EXIT" /\ s.slot \notin TestSlots =>
            [s EXCEPT !.kind = "ENTRY"] \in signals

\* A run that sells under a matched ENTRY sells a leg only to a user whose BUY of
\* that leg the broker accepted; and the ENTRY a strategy's EXIT is matched with
\* is always its own (executor.py 242-302).
SellsBackedByBuys ==
    \A r \in Runs, u \in Users, leg \in Legs :
        Ordered(<<r, "EXIT", u, leg>>) =>
            /\ IsStrategy(r) => entry[r] = r
            /\ entry[r] # NoRun /\ Live(entry[r]) =>
                 <<entry[r], "ENTRY", u, leg>> \in acked

\* A user whose database calls and notifications go through and whose accepted
\* orders are answered with data.
Noted(u) == UserFaults[u] \cap {"db", "notify", "blank"} = {}

\* When a fan-out is over, the table says what the broker answered to each user
\* whose database calls, notifications and answers were in order: placed if the
\* order was accepted, failed if it was not, dry if none was posted
\* (executor.py 373-453).
TableMatchesBroker ==
    \A key \in Keys :
        LET over == rpc[key[1]] = "done" \/ kind[key[1]] # key[2] IN
        over /\ status[key] # "none" /\ Noted(key[3]) =>
            status[key] = IF key \in acked THEN "placed"
                          ELSE IF Ordered(key) THEN "failed" ELSE "dry"

\* A strategy with a put and a future posts the put first on ENTRY, and on EXIT
\* the future first if the user holds both (executor.py 155-163).
LegOrder ==
    \A r \in Runs, u \in Users :
        IsStrategy(r) /\ {"PE", "FUT"} \subseteq SignalLegs(r) =>
            /\ Ordered(<<r, "ENTRY", u, "FUT">>) => Ordered(<<r, "ENTRY", u, "PE">>)
            /\ Ordered(<<r, "EXIT", u, "PE">>) /\ "FUT" \in PlacedLegs(r, u)
                 => Ordered(<<r, "EXIT", u, "FUT">>)

-----------------------------------------------------------------------------
(* What follows for what the broker accepts and what an EXIT reads and sells. *)

\* The exchange has filled a BUY of the user that another run posted.
BuysElsewhere(r, u) ==
    \E key \in filled : key[1] # r /\ key[2] = "ENTRY" /\ key[3] = u

\* A user for whom a gated ENTRY can fail for want of funds alone: prices are there,
\* the broker rejects nothing at will and every answer arrives.
Gated(r, u) == plan[r].quoted /\ UserFaults[u] \cap {"reject", "timeout"} = {}

\* One comparison before the first leg does for all of them: no leg of an ENTRY that
\* carries prices is turned down for want of funds after others went through, unless
\* another run has bought for the user, whose money the gate cannot tell from this
\* run's (executor.py 331-352, 373-411; BUG_LOG 75).
GatedLegsAreAccepted ==
    \A r \in Runs, u \in Users, leg \in Legs :
        Gated(r, u) /\ Ordered(<<r, "ENTRY", u, leg>>) =>
            <<r, "ENTRY", u, leg>> \in acked \/ BuysElsewhere(r, u)

\* A leg the broker accepted a strategy's BUY of is among those its EXIT reads as
\* held, for a user whose database calls, notifications and answers are in order
\* (executor.py 84-99, 275-299).
NotedLegsAreSeen ==
    \A r \in Runs, u \in Users, leg \in Legs :
        /\ IsStrategy(r) /\ Noted(u)
        /\ rpc[r] = "positions" /\ <<entry[r], "ENTRY", u, leg>> \in acked
        => leg \in PlacedLegs(entry[r], u)

\* Where the exchange fills what the broker accepts, a strategy sells nothing its
\* own BUY was not filled for, whatever else fails (executor.py 242-302).
SellsBackedByFills ==
    \A r \in Runs, u \in Users, leg \in Legs :
        /\ IsStrategy(r) /\ "fill" \notin UserFaults[u]
        /\ Ordered(<<r, "EXIT", u, leg>>)
        => <<r, "ENTRY", u, leg>> \in filled

\* The put of a hedged strategy is accepted before its future is posted, for a user
\* whose orders the broker does not reject at will and whose answers are not lost,
\* unless another run has bought for the user (executor.py 155-163, 331-370).
HedgedByThePut ==
    \A r \in Runs, u \in Users :
        /\ IsStrategy(r) /\ {"PE", "FUT"} \subseteq SignalLegs(r)
        /\ Gated(r, u) /\ Ordered(<<r, "ENTRY", u, "FUT">>)
        => <<r, "ENTRY", u, "PE">> \in acked \/ BuysElsewhere(r, u)

-----------------------------------------------------------------------------
Ledger == INSTANCE OrderLedger WITH claims <- signals, orders <- sent, accepted <- acked

\* The pipeline implements the ledger of orders.
ImplementsLedger == Ledger!LedgerSpec

-----------------------------------------------------------------------------
Over(r) == rpc[r] \in {"done", "failed"}

\* Every run that starts comes to an end: no combination of failing calls leaves
\* a fan-out waiting for a task (executor.py 236-239, 301-302).
RunsEnd == \A r \in Runs : rpc[r] = "create" ~> Over(r)

\* For a leg the broker accepted a strategy's BUY of, the same run posts a SELL in
\* the end; what the broker makes of it is not the code's to say
\* (demo_strategy.py 118-139, executor.py 275-302).
PositionsAreClosed ==
    \A r \in Runs, u \in Users, leg \in Legs :
        IsStrategy(r) /\ <<r, "ENTRY", u, leg>> \in acked
            ~> Ordered(<<r, "EXIT", u, leg>>)

\* Once an ENTRY is being fanned out, a user for whom nothing fails gets an order
\* for every leg, whatever fails for the others (README "every subscribed user
\* gets their own order"; executor.py 236-239).
EntryReachesHealthyUsers ==
    \A r \in Runs, row \in Rows :
        /\ Live(r) /\ UserFaults[RowUser[row]] = {}
        /\ rpc[r] = "gather" /\ kind[r] = "ENTRY" /\ row \in batch[r]
        ~> \A leg \in SignalLegs(r) : Ordered(<<r, "ENTRY", RowUser[row], leg>>)

-----------------------------------------------------------------------------
(* What the documentation says and the code does not keep; each is the       *)
(* subject of a run that finds it violated.                                  *)

\* "never place a SELL for a leg a user never actually got a BUY filled on"
\* (executor.py 244-245), where there is an ENTRY to go by.
NoPhantomSell ==
    \A r \in Runs, u \in Users, leg \in Legs :
        LET sell == <<r, "EXIT", u, leg>> IN
        Ordered(sell) /\ entry[r] # NoRun =>
            \E buy \in filled :
                /\ buy[2] = "ENTRY" /\ buy[3] = u
                /\ ContractOf(buy) = ContractOf(sell)

\* "Which legs this user actually got successfully executed" (executor.py 85-86):
\* every leg the broker said it accepted is among them when an EXIT reads them.
AcceptedLegsAreSeen ==
    \A r \in Runs, u \in Users, leg \in Legs :
        rpc[r] = "positions" /\ <<entry[r], "ENTRY", u, leg>> \in acked =>
            leg \in PlacedLegs(entry[r], u)

\* "Prevents a partial-fill scenario [...] from turning into a naked, unhedged
\* position" (README 38): a future is bought only on top of a put that was.
FuturesAreHedged ==
    \A r \in Runs, u \in Users :
        "PE" \in SignalLegs(r) /\ Ordered(<<r, "ENTRY", u, "FUT">>) =>
            <<r, "ENTRY", u, "PE">> \in acked

\* "every subscribed user gets their own order placed" (README 7): once an EXIT reads
\* the positions, a user for whom nothing fails gets out of every leg.
ExitReachesHealthyUsers ==
    \A r \in Runs, row \in Rows :
        /\ Live(r) /\ IsStrategy(r) /\ UserFaults[RowUser[row]] = {}
        /\ rpc[r] = "positions" /\ row \in batch[r]
        ~> \A leg \in SignalLegs(r) : Ordered(<<r, "EXIT", RowUser[row], leg>>)

=============================================================================
