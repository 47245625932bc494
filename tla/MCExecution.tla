---------------------------- MODULE MCExecution -----------------------------
(***************************************************************************)
(* Instances of Execution for TLC: small worlds, one per question.         *)
(***************************************************************************)
EXTENDS ExecutionInvariant

\* Subscription rows: two of one user, or one of each of two users.
TwoRowsOfAnn == [row1 |-> "ann", row2 |-> "ann"]
OneRowEach   == [row1 |-> "ann", row2 |-> "bob"]
DemoRows     == [row1 |-> "demo", row2 |-> "demo"]

\* A slot of the demo strategy, and one of the Test strategy that has the same
\* subscribers here.
SlotStrategies == [s1 |-> "demo", t1 |-> "demo"]
StrategyOfSlot(slots) == [slot \in slots |-> SlotStrategies[slot]]
OneSlot  == StrategyOfSlot({"s1"})
DemoTest == StrategyOfSlot({"s1", "t1"})
TestOnly == StrategyOfSlot({"t1"})

Plan(knd, slot, mode, contract) ==
    [kind |-> knd, slot |-> slot, mode |-> mode, quoted |-> TRUE, contract |-> contract]

Straddle == [CE |-> "ce_24000", PE |-> "pe_24000"]
Hedge    == [PE |-> "pe_24000", FUT |-> "fut"]
Call(c)  == [CE |-> c]

\* Invocations of one strategy, LIVE however it is spelt, or in a mode that does not
\* exist.
StraddleLive    == {Plan("ENTRY", "s1", "LIVE", Straddle)}
StraddleAnyMode ==
    {Plan("ENTRY", "s1", mode, Straddle) : mode \in {"LIVE", "live", "PAPER"}}
HedgeLive       == {Plan("ENTRY", "s1", "LIVE", Hedge)}
\* A hedge whose future is beyond the means of who has four units, with prices and
\* without.
HedgeDear       == {Plan("ENTRY", "s1", "LIVE", [PE |-> "pe_24000", FUT |-> "dear_fut"])}
HedgeAnyPlan    ==
    HedgeLive \cup {[p EXCEPT !.mode = "DRY"] : p \in HedgeLive}
              \cup HedgeDear \cup {[p EXCEPT !.quoted = FALSE] : p \in HedgeDear}

\* Manual orders: a BUY and a SELL of one contract, LIVE unless said otherwise.
TestBuySell == {Plan(knd, "t1", "LIVE", Call("ce_24000")) : knd \in Kinds}
TestDryBuy  == {Plan("ENTRY", "t1", "DRY", Call("ce_24000")),
                Plan("EXIT", "t1", "LIVE", Call("ce_24000"))}

\* A strategy or a manual order.
StraddleOrTest == StraddleAnyMode \cup TestBuySell

AllContracts == {"ce_24000", "pe_24000", "fut", "dear_fut"}
UnitPrice == [c \in AllContracts |-> IF c = "dear_fut" THEN 4 ELSE 1]

\* Funds and faults of the users of an instance.  Four units buy two legs and
\* still pass the gate of the EXIT, but not the dear future on top of a put.
AnnRich    == [ann |-> 9]
BothRich   == [ann |-> 9, bob |-> 9]
TwoAndOne  == [ann |-> 2, bob |-> 1]
BothFour   == [ann |-> 4, bob |-> 4]

BrokerFaults     == {"reject", "timeout"}
AnnAnyFault      == [ann |-> UserFaultKinds]
AnnNoFault       == [ann |-> {}]
AnnReject        == [ann |-> {"reject"}]
AnnNotify        == [ann |-> {"notify"}]
NoFault          == [ann |-> {}, bob |-> {}]
AnnAnyBobNone    == [ann |-> UserFaultKinds, bob |-> {}]
AnnDbBobNone     == [ann |-> {"db"}, bob |-> {}]
AnnBrokerBobNone == [ann |-> BrokerFaults, bob |-> {}]

=============================================================================
