---------------------------- MODULE ExpiryProofs -----------------------------
(***************************************************************************)
(* What the selections of Expiries return.                                 *)
(***************************************************************************)
EXTENDS Expiries, WellFoundedInduction, TLAPS

\* A non-empty set of naturals has a least element.
LEMMA LeastNatural ==
    ASSUME NEW S \in SUBSET Nat, S # {}
    PROVE  \E x \in S : \A y \in S : x <= y
<1>1. PICK x \in S : \A y \in S : <<y, x>> \notin OpToRel(<, Nat)
  BY NatLessThanWellFounded, WFMin, Zenon
<1>2. ASSUME NEW y \in S PROVE x <= y
  <2>1. <<y, x>> \in Nat \X Nat
    OBVIOUS
  <2>2. ~ (y < x)
    BY <1>1, <2>1 DEF OpToRel
  <2> QED BY <2>2
<1> QED BY <1>2

\* What Earliest returns.
LEMMA EarliestIsLeast ==
    ASSUME NEW S \in SUBSET (Nat \ {NoExpiry})
    PROVE  /\ Earliest(S) \in Nat
           /\ S = {} <=> Earliest(S) = NoExpiry
           /\ S # {} => Earliest(S) \in S /\ \A f \in S : Earliest(S) <= f
<1>1. CASE S = {}
  BY <1>1 DEF Earliest, NoExpiry
<1>2. CASE S # {}
  <2>1. PICK x \in S : \A y \in S : x <= y
    BY <1>2, LeastNatural
  <2>2. Earliest(S) \in S /\ \A f \in S : Earliest(S) <= f
    BY <1>2, <2>1 DEF Earliest
  <2> QED BY <1>2, <2>2 DEF NoExpiry
<1> QED BY <1>1, <1>2

\* A date on or after the day is in another week than it exactly if it is after the
\* week's Sunday.
LEMMA WeekEnds ==
    ASSUME NEW day \in Nat \ {0}, NEW e \in Nat, e >= day
    PROVE  MondayOf(day) # MondayOf(e) <=> e >= day + 7 - Weekday(day)
<1> DEFINE a == (day - 1) \div 7
           b == (e - 1) \div 7
           w == (day - 1) % 7
           v == (e - 1) % 7
<1>1. day - 1 = 7 * a + w /\ a \in Nat /\ w \in 0 .. 6
  OBVIOUS
<1>2. e - 1 = 7 * b + v /\ b \in Nat /\ v \in 0 .. 6
  OBVIOUS
<1> HIDE DEF a, b, w, v
<1>3. day - w # e - v <=> e >= day + 7 - w
  BY <1>1, <1>2
<1> QED
  BY <1>3 DEF MondayOf, Weekday, w, v

\* The first day whose expiries are safe on a given day: the next Monday from Monday
\* to Thursday, the day itself after that.
FirstSafe(day) == IF Weekday(day) <= 3 THEN day + 7 - Weekday(day) ELSE day

\* get_safe_expiry returns the nearest expiry from that day on (expiry.py 75-110).
LEMMA SafeIsNearestAfter ==
    ASSUME NEW listed \in SUBSET (Nat \ {NoExpiry}), NEW day \in Nat \ {0}
    PROVE  SafeExpiry(listed, day) = Earliest({e \in listed : e >= FirstSafe(day)})
<1>1. ASSUME NEW e \in listed
      PROVE  e >= day /\ ~InExpiryWeek(e, day) <=> e >= FirstSafe(day)
  <2>1. Weekday(day) \in 0 .. 6
    BY DEF Weekday
  <2>2. e \in Nat
    OBVIOUS
  <2>3. CASE e >= day
    BY <2>1, <2>2, <2>3, WeekEnds DEF InExpiryWeek, FirstSafe
  <2>4. CASE ~(e >= day)
    BY <2>1, <2>2, <2>4 DEF FirstSafe
  <2> QED
    BY <2>3, <2>4
<1>2. {e \in listed : e >= day /\ ~InExpiryWeek(e, day)}
        = {e \in listed : e >= FirstSafe(day)}
  BY <1>1
<1> QED
  BY <1>2, Zenon DEF SafeExpiry

=============================================================================
