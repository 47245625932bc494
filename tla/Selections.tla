----------------------------- MODULE Selections ------------------------------
(***************************************************************************)
(* What a strategy asks the instrument list for: the strikes of            *)
(* apps/marketdata/strikes.py and the expiries of expiry.py.  A behaviour  *)
(* is one question, asked of one chain or of one calendar.                 *)
(*                                                                         *)
(* Prices are integers: strikes are multiples of Step, spots need not be.  *)
(* A contract is a strike and a type; the chain is what is listed of one   *)
(* underlying for one expiry, on the exchange the underlying is routed to. *)
(***************************************************************************)
EXTENDS Expiries, FiniteSetsExt

CONSTANTS
    Step,       \* the step between strikes
    Grid,       \* the strikes that may be listed
    Spots,      \* the spot prices asked about
    Count,      \* the strikes on either side find_strikes_near_atm is asked for
    Today,      \* the days on which an expiry is asked for
    Dates       \* the expiries that may be listed, three of them at most

ASSUME SelectionsAssumption ==
    /\ Step \in Nat \ {0}
    /\ Grid \subseteq Nat /\ \A s \in Grid : s % Step = 0
    /\ Count \in Nat
    /\ Spots \subseteq Nat
    /\ Today \subseteq Nat \ {0}
    /\ Dates \subseteq Nat \ {0}

VARIABLES
    chain,      \* the contracts listed
    spot,       \* the spot price
    listed,     \* the expiries listed
    today,      \* the day it is
    answer      \* the function asked, the contracts and the expiry it returns

vars == <<chain, spot, listed, today, answer>>

Future == <<0, "FUT">>

Options == Grid \X {"CE", "PE"}

\* otm_step_multiplier
Multiplier == 2

Asked == {"", "exact", "atm", "strangle", "near", "bracket", "hedge", "nearest", "safe"}

Init ==
    /\ \/ /\ chain \in SUBSET (Options \cup {Future})
          /\ spot \in Spots
          /\ listed = {} /\ today = 0
       \/ /\ listed \in UNION {kSubset(k, Dates) : k \in 0 .. 3}
          /\ today \in Today
          /\ chain = {} /\ spot = 0
    /\ answer = [to |-> "", contracts |-> {}, expiry |-> NoExpiry]

-----------------------------------------------------------------------------
\* Fault: round down.
RoundDown(price) == price \div Step

\* Python's round of price / Step: halves go to the even neighbour.
Round(price) ==
    LET below == price \div Step
        twice == 2 * (price % Step)
    IN  IF twice > Step \/ (twice = Step /\ below % 2 = 1) THEN below + 1 ELSE below

Atm(price) == Step * Round(price)

Floor(price) == Step * (price \div Step)

Ceiling(price) == Step * ((price + Step - 1) \div Step)

\* Fault: the call stays where the put is.
CeilingOnly(price) == Ceiling(price)

\* On a strike the call is pushed one step up.
Above(price) == IF Ceiling(price) = Floor(price) THEN Ceiling(price) + Step ELSE Ceiling(price)

Pair(strike) == {<<strike, "CE">>, <<strike, "PE">>}

Around(put, call) == {<<call, "CE">>, <<put, "PE">>}

\* Fault: the at-the-money strikes themselves.
NoDistance(price) == Around(Atm(price), Atm(price))

Otm(price) == Around(Atm(price) - Multiplier * Step, Atm(price) + Multiplier * Step)

\* Fault: a contract is returned whether it is listed or not.
Unchecked(contracts) == contracts

\* All the contracts, or None if one of them is not listed.
Found(contracts) == IF contracts \subseteq chain THEN contracts ELSE {}

-----------------------------------------------------------------------------
Answer(to, contracts, expiry) ==
    /\ answer.to = ""
    /\ answer' = [to |-> to, contracts |-> contracts, expiry |-> expiry]
    /\ UNCHANGED <<chain, spot, listed, today>>

OfChain(to, contracts) == spot # 0 /\ Answer(to, contracts, NoExpiry)

FindExact == \E c \in Options : OfChain("exact", Found({c}))

FindAtm == OfChain("atm", Found(Pair(Atm(spot))))

FindStrangle == OfChain("strangle", Found(Around(Floor(spot), Above(spot))))

FindNear ==
    OfChain("near", UNION {Found(Pair(Atm(spot) + i * Step)) : i \in -Count .. Count})

FindBracket == OfChain("bracket", Found(Around(Floor(spot), Ceiling(spot))))

\* The future, the put at the money, and the two options out of the money; the
\* call at the money has to be listed, too.
HedgeTokens ==
    OfChain("hedge",
        Found({Future} \cup Pair(Atm(spot)) \cup Otm(spot)) \ {<<Atm(spot), "CE">>})

GetNearest == today # 0 /\ Answer("nearest", {}, NearestExpiry(listed, today))

GetSafe == today # 0 /\ Answer("safe", {}, SafeExpiry(listed, today))

Next ==
    \/ FindExact
    \/ FindAtm
    \/ FindStrangle
    \/ FindNear
    \/ FindBracket
    \/ HedgeTokens
    \/ GetNearest
    \/ GetSafe

Spec == Init /\ [][Next]_vars

-----------------------------------------------------------------------------
\* No function returns a contract or an expiry that is not listed
\* (strikes.py 24-31, expiry.py 52-61).
TypeOK ==
    /\ answer.to \in Asked
    /\ answer.contracts \subseteq chain
    /\ answer.expiry \in listed \cup {NoExpiry}

Distance(strike) == IF strike < spot THEN spot - strike ELSE strike - spot

Of(type) == {c \in answer.contracts : c[2] = type}

\* The at-the-money pair is no farther from the spot than any option listed; and it
\* is found if a listed pair is nearer than half a step (strikes.py 45-55, 119-130).
AtmIsNearest ==
    answer.to = "atm" =>
        /\ \A c \in answer.contracts, d \in chain \ {Future} : Distance(c[1]) <= Distance(d[1])
        /\ answer.contracts = {} =>
             \A s \in Grid : Pair(s) \subseteq chain => 2 * Distance(s) >= Step

\* A strangle's put is at or below the spot and its call above it, also when the
\* spot is a strike, and no option listed is between them: "CE just above spot, PE
\* just below spot" (strikes.py 58-99).
StrangleSurroundsSpot ==
    answer.to = "strangle" =>
        \A ce \in Of("CE"), pe \in Of("PE") :
            /\ pe[1] <= spot /\ spot < ce[1]
            /\ \A c \in chain \ {Future} : ~(pe[1] < c[1] /\ c[1] < ce[1])

\* A hedge is a future and three options: the put nearest the spot, and a put and a
\* call on either side of both it and the spot (strikes.py 133-171).
HedgeIsOrdered ==
    answer.to = "hedge" /\ answer.contracts # {} =>
        /\ Future \in answer.contracts
        /\ \E low, mid \in Of("PE"), high \in Of("CE") :
             /\ answer.contracts = {Future, low, mid, high}
             /\ low[1] < mid[1] /\ mid[1] < high[1]
             /\ low[1] < spot /\ spot < high[1]
             /\ \A c \in chain \ {Future} : Distance(mid[1]) <= Distance(c[1])

\* Asked from Monday to Thursday, the safe expiry is after the week's Sunday, asked
\* later it is the nearest; none that qualifies is sooner (expiry.py 75-110).
SafeExpiryAvoidsWeek ==
    answer.to = "safe" =>
        LET first == IF Weekday(today) <= 3 THEN today + 7 - Weekday(today) ELSE today
            safe  == {e \in listed : e >= first}
        IN  /\ answer.expiry = NoExpiry <=> safe = {}
            /\ safe # {} => answer.expiry \in safe /\ \A e \in safe : answer.expiry <= e

=============================================================================
