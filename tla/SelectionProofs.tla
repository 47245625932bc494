-------------------------- MODULE SelectionProofs ----------------------------
(***************************************************************************)
(* The selections return what they should, for every step, grid of         *)
(* strikes, chain, spot price, set of expiries and day.                    *)
(***************************************************************************)
EXTENDS Selections, ExpiryProofs

\* An answer is what the function asked computes of its input.
AnswerInv ==
    /\ TypeOK
    /\ chain \subseteq Options \cup {Future}
    /\ spot \in Nat /\ today \in Nat
    /\ listed \subseteq Nat \ {NoExpiry}
    /\ answer.to = "atm" => answer.contracts = Found(Pair(Atm(spot)))
    /\ answer.to = "strangle" => answer.contracts = Found(Around(Floor(spot), Above(spot)))
    /\ answer.to = "hedge" =>
         answer.contracts = Found({Future} \cup Pair(Atm(spot)) \cup Otm(spot))
                              \ {<<Atm(spot), "CE">>}
    /\ answer.to = "safe" =>
         today \in Nat \ {0} /\ answer.expiry = SafeExpiry(listed, today)

-----------------------------------------------------------------------------
(* Prices.                                                                   *)

\* A price and the strike at or below it.
LEMMA Division ==
    ASSUME NEW price \in Nat
    PROVE  /\ price \div Step \in Nat
           /\ price % Step \in Nat /\ price % Step < Step
           /\ price = Step * (price \div Step) + (price % Step)
BY SelectionsAssumption

\* Different multiples of the step are a step apart.
LEMMA Multiples ==
    ASSUME NEW a \in Int, NEW b \in Int
    PROVE  a < b <=> Step * a + Step <= Step * b
<1>1. a < b => Step * a + Step <= Step * b
  BY SelectionsAssumption
<1>2. ~(a < b) => Step * b <= Step * a
  BY SelectionsAssumption
<1>3. Step \in Nat \ {0} /\ Step * a \in Int /\ Step * b \in Int
  BY SelectionsAssumption
<1> QED
  BY <1>1, <1>2, <1>3

\* A strike is a multiple of the step.
LEMMA GridStrikes ==
    ASSUME NEW s \in Grid
    PROVE  s = Step * (s \div Step) /\ s \div Step \in Nat
<1> DEFINE k == s \div Step
<1>1. s \in Nat /\ s % Step = 0
  BY SelectionsAssumption
<1>2. k \in Nat /\ s = Step * k + (s % Step)
  BY <1>1, Division
<1>3. Step * k \in Nat
  BY <1>2, SelectionsAssumption
<1> QED
  BY <1>1, <1>2, <1>3

\* A strike is at most the strike below a price, or at least the one after that.
LEMMA Strikes ==
    ASSUME NEW price \in Nat, NEW s \in Grid
    PROVE  s \in Nat /\ (s <= Floor(price) \/ s >= Floor(price) + Step)
<1> DEFINE k == s \div Step
           q == price \div Step
<1>1. s \in Nat
  BY SelectionsAssumption
<1>2. s = Step * k /\ k \in Nat
  BY GridStrikes
<1>3. q \in Nat
  BY Division
<1> HIDE DEF k, q
<1>4. Step \in Nat \ {0} /\ Step * k \in Int /\ Step * q \in Int
  BY <1>2, <1>3, SelectionsAssumption
<1>5. q < k <=> Step * q + Step <= Step * k
  BY <1>2, <1>3, Multiples
<1>6. k < q <=> Step * k + Step <= Step * q
  BY <1>2, <1>3, Multiples
<1>7. s <= Step * q \/ s >= Step * q + Step
  BY <1>2, <1>3, <1>4, <1>5, <1>6
<1> QED
  BY <1>1, <1>7 DEF Floor, q

\* A strike less than a step from the strike below a price, or from the one after
\* that, is one of the two.
LEMMA Neighbours ==
    ASSUME NEW price \in Nat, NEW s \in Grid,
           Floor(price) - Step < s, s < Floor(price) + 2 * Step
    PROVE  s = Floor(price) \/ s = Floor(price) + Step
<1> DEFINE k == s \div Step
           q == price \div Step
<1>1. s = Step * k /\ k \in Nat
  BY GridStrikes
<1>2. q \in Nat /\ Step \in Nat \ {0}
  BY Division, SelectionsAssumption
<1>3. Floor(price) = Step * q
  BY DEF Floor
<1> HIDE DEF k, q
<1>4. k < q - 1 \/ k = q - 1 \/ k = q \/ k = q + 1 \/ q + 1 < k
  BY <1>1, <1>2
<1>5. Step * (q - 1) = Step * q - Step /\ Step * (q + 1) = Step * q + Step
  BY <1>2
<1>6. k < q - 1 => Step * k + Step <= Step * (q - 1)
  BY <1>1, <1>2, Multiples
<1>7. q + 1 < k => Step * (q + 1) + Step <= Step * k
  BY <1>1, <1>2, Multiples
<1>8. Step * k \in Nat /\ Step * q \in Nat
  BY <1>1, <1>2
<1> QED
  BY <1>1, <1>2, <1>3, <1>4, <1>5, <1>6, <1>7, <1>8

\* The strike above a price, pushed up when the price is a strike, is the one after
\* the strike below (strikes.py 75-80).
LEMMA AboveIsNext ==
    ASSUME NEW price \in Nat
    PROVE  /\ Floor(price) \in Nat /\ Above(price) = Floor(price) + Step
           /\ Floor(price) <= price /\ price < Above(price)
<1> DEFINE q == price \div Step
           r == price % Step
           k == (price + Step - 1) \div Step
           u == (price + Step - 1) % Step
<1>1. Step \in Nat \ {0}
  BY SelectionsAssumption
<1>2. q \in Nat /\ r \in Nat /\ r < Step /\ price = Step * q + r
  BY Division
<1>3. k \in Nat /\ u \in Nat /\ u < Step /\ price + Step - 1 = Step * k + u
  BY <1>1, Division
<1> HIDE DEF q, r, k, u
<1>4. Step * q \in Nat /\ Step * k \in Nat
  BY <1>1, <1>2, <1>3
<1>5. k < q <=> Step * k + Step <= Step * q
  BY <1>2, <1>3, Multiples
<1>6. q < k <=> Step * q + Step <= Step * k
  BY <1>2, <1>3, Multiples
<1>7. q + 1 < k <=> Step * (q + 1) + Step <= Step * k
  BY <1>2, <1>3, Multiples
<1>8. Step * (q + 1) = Step * q + Step
  BY <1>1, <1>2
<1>9. Step * k = IF r = 0 THEN Step * q ELSE Step * q + Step
  <2>1. CASE r = 0
    <3>1. ~(k < q) /\ ~(q < k)
      BY <1>1, <1>2, <1>3, <1>4, <1>5, <1>6, <2>1
    <3>2. k = q
      BY <3>1, <1>2, <1>3
    <3> QED BY <2>1, <3>2
  <2>2. CASE r # 0
    <3>1. q < k /\ ~(q + 1 < k)
      BY <1>1, <1>2, <1>3, <1>4, <1>6, <1>5, <1>7, <1>8, <2>2
    <3>2. k = q + 1
      BY <3>1, <1>2, <1>3
    <3> QED BY <2>2, <3>2, <1>8
  <2> QED BY <2>1, <2>2
<1>10. Floor(price) = Step * q /\ Ceiling(price) = Step * k
  BY DEF Floor, Ceiling, q, k
<1> QED
  BY <1>1, <1>2, <1>4, <1>9, <1>10 DEF Above

\* The strike at the money is the strike below or the one after it, whichever is
\* nearer (strikes.py 51).
LEMMA AtmIsNearer ==
    ASSUME NEW price \in Nat
    PROVE  \/ Atm(price) = Floor(price) /\ 2 * (price - Floor(price)) <= Step
           \/ Atm(price) = Floor(price) + Step /\ 2 * (price - Floor(price)) >= Step
<1> DEFINE q == price \div Step
           r == price % Step
<1>1. Step \in Nat \ {0}
  BY SelectionsAssumption
<1>2. q \in Nat /\ r \in Nat /\ r < Step /\ price = Step * q + r
  BY Division
<1>3. \/ Round(price) = q /\ 2 * r <= Step
      \/ Round(price) = q + 1 /\ 2 * r >= Step
  BY <1>1, <1>2 DEF Round
<1> HIDE DEF q, r
<1>4. Step * q \in Nat /\ Step * (q + 1) = Step * q + Step
  BY <1>1, <1>2
<1>5. Floor(price) = Step * q
  BY DEF Floor, q
<1>6. price - Floor(price) = r
  BY <1>2, <1>4, <1>5
<1> QED
  BY <1>3, <1>4, <1>5, <1>6 DEF Atm

-----------------------------------------------------------------------------
(* The invariant.                                                            *)

\* Every question is answered as AnswerInv says.
THEOREM SelectionInvariance == Spec => []AnswerInv
<1>1. Init => AnswerInv
  <2> SUFFICES ASSUME Init PROVE AnswerInv
    OBVIOUS
  <2>1. answer = [to |-> "", contracts |-> {}, expiry |-> NoExpiry]
    BY DEF Init
  <2>2. chain \subseteq Options \cup {Future}
    BY Zenon DEF Init
  <2>5. spot \in Nat /\ today \in Nat
    <3>1. spot \in Spots \cup {0} /\ today \in Today \cup {0}
      BY Zenon DEF Init
    <3> QED
      BY <3>1, SelectionsAssumption
  <2>3. listed \subseteq Dates
    BY DEF Init, kSubset
  <2>4. listed \subseteq Nat \ {NoExpiry}
    BY <2>3, SelectionsAssumption DEF NoExpiry
  <2> QED
    BY <2>1, <2>2, <2>4, <2>5 DEF AnswerInv, TypeOK, Asked
<1>2. AnswerInv /\ [Next]_vars => AnswerInv'
  <2> SUFFICES ASSUME AnswerInv, [Next]_vars PROVE AnswerInv'
    OBVIOUS
  <2>1. ASSUME NEW to \in Asked, NEW contracts, contracts \subseteq chain,
               NEW expiry \in listed \cup {NoExpiry}, Answer(to, contracts, expiry),
               to = "atm" => contracts = Found(Pair(Atm(spot))),
               to = "strangle" => contracts = Found(Around(Floor(spot), Above(spot))),
               to = "hedge" =>
                 contracts = Found({Future} \cup Pair(Atm(spot)) \cup Otm(spot))
                               \ {<<Atm(spot), "CE">>},
               to = "safe" => today \in Nat \ {0} /\ expiry = SafeExpiry(listed, today)
        PROVE  AnswerInv'
    <3>1. /\ answer' = [to |-> to, contracts |-> contracts, expiry |-> expiry]
          /\ UNCHANGED <<chain, spot, listed, today>>
      BY <2>1 DEF Answer
    <3>2. \A c : Found(c)' = Found(c)
      BY <3>1 DEF Found
    <3> QED
      BY <2>1, <3>1, <3>2 DEF AnswerInv, TypeOK
  <2>2. \A c : Found(c) \subseteq chain
    BY DEF Found
  <2>3. CASE FindExact \/ FindBracket \/ FindAtm \/ FindStrangle \/ HedgeTokens
    BY <2>1, <2>2, <2>3
    DEF FindExact, FindBracket, FindAtm, FindStrangle, HedgeTokens, OfChain, Asked
  <2>4. CASE FindNear
    BY <2>1, <2>2, <2>4 DEF FindNear, OfChain, Asked
  <2>5. \A S \in SUBSET listed : Earliest(S) \in listed \cup {NoExpiry}
    BY EarliestIsLeast DEF AnswerInv
  <2>6. CASE GetNearest
    <3>1. NearestExpiry(listed, today) \in listed \cup {NoExpiry}
      BY <2>5 DEF NearestExpiry
    <3> QED
      BY <2>1, <2>6, <3>1 DEF GetNearest, Asked
  <2>7. CASE GetSafe
    <3>1. SafeExpiry(listed, today) \in listed \cup {NoExpiry}
      BY <2>5 DEF SafeExpiry
    <3> QED
      BY <2>1, <2>7, <3>1 DEF GetSafe, Asked, AnswerInv
  <2>8. CASE UNCHANGED vars
    BY <2>8 DEF AnswerInv, TypeOK, vars, Found
  <2> QED
    BY <2>3, <2>4, <2>6, <2>7, <2>8 DEF Next
<1> QED
  BY <1>1, <1>2, PTL DEF Spec

-----------------------------------------------------------------------------
(* The properties.                                                           *)

\* Nothing is returned that is not listed.
THEOREM SelectionsListed == Spec => []TypeOK
<1>1. AnswerInv => TypeOK
  BY DEF AnswerInv
<1> QED
  BY <1>1, SelectionInvariance, PTL

\* The safe expiry is the nearest after the week, for any calendar and day.
THEOREM SafeWeek == Spec => []SafeExpiryAvoidsWeek
<1>1. AnswerInv => SafeExpiryAvoidsWeek
  <2> SUFFICES ASSUME AnswerInv, answer.to = "safe" PROVE SafeExpiryAvoidsWeek
    BY DEF SafeExpiryAvoidsWeek
  <2> DEFINE safe == {e \in listed : e >= FirstSafe(today)}
  <2>1. listed \in SUBSET (Nat \ {NoExpiry}) /\ today \in Nat \ {0}
    BY DEF AnswerInv
  <2>2. answer.expiry = Earliest(safe)
    BY <2>1, SafeIsNearestAfter DEF AnswerInv
  <2>3. safe \in SUBSET (Nat \ {NoExpiry})
    BY <2>1
  <2> HIDE DEF safe
  <2>4. /\ answer.expiry = NoExpiry <=> safe = {}
        /\ safe # {} => answer.expiry \in safe /\ \A e \in safe : answer.expiry <= e
    BY <2>2, <2>3, EarliestIsLeast
  <2> QED
    BY <2>4 DEF SafeExpiryAvoidsWeek, FirstSafe, safe
<1> QED
  BY <1>1, SelectionInvariance, PTL

\* What an option listed is.
LEMMA ListedOptions ==
    ASSUME AnswerInv, NEW c \in chain \ {Future}
    PROVE  c[1] \in Grid /\ c[1] \in Nat /\ c[2] \in {"CE", "PE"}
<1>1. c \in Options
  BY DEF AnswerInv
<1> QED
  BY <1>1, SelectionsAssumption DEF Options

\* No contract listed lies between the strikes of a strangle, and the spot does.
THEOREM StrangleAround == Spec => []StrangleSurroundsSpot
<1>1. AnswerInv => StrangleSurroundsSpot
  <2> SUFFICES ASSUME AnswerInv, answer.to = "strangle",
                      NEW ce \in Of("CE"), NEW pe \in Of("PE")
               PROVE  /\ pe[1] <= spot /\ spot < ce[1]
                      /\ \A c \in chain \ {Future} : ~(pe[1] < c[1] /\ c[1] < ce[1])
    BY DEF StrangleSurroundsSpot
  <2>1. answer.contracts \subseteq Around(Floor(spot), Above(spot))
    BY DEF AnswerInv, Found
  <2>2. ce[1] = Above(spot) /\ pe[1] = Floor(spot)
    BY <2>1 DEF Of, Around
  <2>3. spot \in Nat
    BY DEF AnswerInv
  <2>4. pe[1] \in Nat /\ ce[1] = pe[1] + Step /\ pe[1] <= spot /\ spot < ce[1]
    BY <2>2, <2>3, AboveIsNext
  <2>5. ASSUME NEW c \in chain \ {Future}
        PROVE  ~(pe[1] < c[1] /\ c[1] < ce[1])
    <3>1. c[1] \in Grid
      BY <2>5, ListedOptions
    <3>2. c[1] \in Nat /\ (c[1] <= pe[1] \/ c[1] >= ce[1])
      BY <2>2, <2>3, <2>4, <3>1, Strikes
    <3> QED
      BY <2>4, <3>2, SelectionsAssumption
  <2> QED
    BY <2>4, <2>5
<1> QED
  BY <1>1, SelectionInvariance, PTL

\* No strike is nearer a spot than the strike at the money, and one that is nearer
\* than half a step is it.
LEMMA AtmDistance ==
    ASSUME spot \in Nat, NEW s \in Grid
    PROVE  /\ Atm(spot) \in Nat /\ Distance(Atm(spot)) \in Nat /\ Distance(s) \in Nat
           /\ Distance(Atm(spot)) <= Distance(s)
           /\ 2 * Distance(Atm(spot)) <= Step
           /\ 2 * Distance(s) < Step => s = Atm(spot)
<1> DEFINE low == Floor(spot)
           atm == Atm(spot)
<1>1. low \in Nat /\ low <= spot /\ spot < low + Step /\ Step \in Nat \ {0}
  BY AboveIsNext, SelectionsAssumption
<1>2. \/ atm = low /\ 2 * (spot - low) <= Step
      \/ atm = low + Step /\ 2 * (spot - low) >= Step
  BY AtmIsNearer
<1>3. s \in Nat /\ (s <= low \/ s >= low + Step)
  BY Strikes
<1> HIDE DEF low, atm
<1>4. Distance(atm) = IF atm = low THEN spot - low ELSE low + Step - spot
  BY <1>1, <1>2 DEF Distance
<1>5. Distance(s) = IF s <= low THEN spot - s ELSE s - spot
  BY <1>1, <1>3 DEF Distance
<1>6. /\ atm \in Nat /\ Distance(atm) \in Nat /\ Distance(s) \in Nat
      /\ Distance(atm) <= Distance(s)
      /\ 2 * Distance(atm) <= Step
  BY <1>1, <1>2, <1>3, <1>4, <1>5
<1>7. ASSUME 2 * Distance(s) < Step PROVE s = atm
  <2>1. low - Step < s /\ s < low + 2 * Step
    BY <1>1, <1>3, <1>5, <1>7
  <2>2. s = low \/ s = low + Step
    BY <2>1, Neighbours DEF low
  <2> QED
    BY <1>1, <1>2, <1>3, <1>5, <1>7, <2>2
<1> QED
  BY <1>6, <1>7 DEF atm

\* The pair at the money is nearest, and found if it is listed.
THEOREM AtmNearest == Spec => []AtmIsNearest
<1>1. AnswerInv => AtmIsNearest
  <2> SUFFICES ASSUME AnswerInv, answer.to = "atm" PROVE AtmIsNearest
    BY DEF AtmIsNearest
  <2>1. answer.contracts = Found(Pair(Atm(spot))) /\ spot \in Nat
    BY DEF AnswerInv
  <2>2. ASSUME NEW c \in answer.contracts, NEW d \in chain \ {Future}
        PROVE  Distance(c[1]) <= Distance(d[1])
    <3>1. c[1] = Atm(spot)
      BY <2>1 DEF Found, Pair
    <3>2. d[1] \in Grid
      BY ListedOptions
    <3> QED
      BY <2>1, <3>1, <3>2, AtmDistance
  <2>3. ASSUME answer.contracts = {}, NEW s \in Grid, Pair(s) \subseteq chain
        PROVE  2 * Distance(s) >= Step
    <3>1. s # Atm(spot)
      BY <2>1, <2>3 DEF Found, Pair
    <3> QED
      BY <2>1, <3>1, AtmDistance, SelectionsAssumption
  <2> QED
    BY <2>2, <2>3 DEF AtmIsNearest
<1> QED
  BY <1>1, SelectionInvariance, PTL

\* A hedge has its future, its put at the money and an option on either side.
THEOREM HedgeInOrder == Spec => []HedgeIsOrdered
<1>1. AnswerInv => HedgeIsOrdered
  <2> SUFFICES ASSUME AnswerInv, answer.to = "hedge", answer.contracts # {}
               PROVE  /\ Future \in answer.contracts
                      /\ \E low, mid \in Of("PE"), high \in Of("CE") :
                           /\ answer.contracts = {Future, low, mid, high}
                           /\ low[1] < mid[1] /\ mid[1] < high[1]
                           /\ low[1] < spot /\ spot < high[1]
                           /\ \A c \in chain \ {Future} : Distance(mid[1]) <= Distance(c[1])
    BY DEF HedgeIsOrdered
  <2> DEFINE atm == Atm(spot)
             out == Multiplier * Step
             low == <<atm - out, "PE">>
             mid == <<atm, "PE">>
             high == <<atm + out, "CE">>
             call == <<atm, "CE">>
             needed == {Future, call, mid, low, high}
  <2>1. answer.contracts = Found(needed) \ {call}
    <3>1. {Future} \cup Pair(Atm(spot)) \cup Otm(spot) = needed
      BY DEF Pair, Otm, Around
    <3> QED
      BY <3>1 DEF AnswerInv
  <2>2. needed \subseteq chain /\ answer.contracts = needed \ {call}
    BY <2>1 DEF Found
  <2>3. mid # Future /\ low # Future /\ high # Future /\ call # Future
    BY DEF Future
  <2>4. spot \in Nat
    BY DEF AnswerInv
  <2>5. atm \in Grid
    BY <2>2, <2>3, ListedOptions
  <2>6. /\ atm \in Nat /\ 2 * Distance(atm) <= Step
        /\ \A s \in Grid : Distance(atm) <= Distance(s)
    BY <2>4, <2>5, AtmDistance
  <2>7. Step \in Nat \ {0} /\ out = 2 * Step
    BY SelectionsAssumption DEF Multiplier
  <2> HIDE DEF atm, out
  <2>8. low # call /\ mid # call /\ high # call
    BY <2>6, <2>7
  <2>9. answer.contracts = {Future, low, mid, high}
    BY <2>2, <2>3, <2>8
  <2>10. low \in Of("PE") /\ mid \in Of("PE") /\ high \in Of("CE")
    BY <2>9 DEF Of
  <2>11. low[1] < mid[1] /\ mid[1] < high[1] /\ low[1] < spot /\ spot < high[1]
    BY <2>4, <2>6, <2>7 DEF Distance
  <2>12. ASSUME NEW c \in chain \ {Future} PROVE Distance(mid[1]) <= Distance(c[1])
    <3>1. c[1] \in Grid
      BY ListedOptions
    <3> QED
      BY <2>6, <3>1
  <2> QED
    BY <2>9, <2>10, <2>11, <2>12
<1> QED
  BY <1>1, SelectionInvariance, PTL

=============================================================================
