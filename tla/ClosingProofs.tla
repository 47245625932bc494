--------------------------- MODULE ClosingProofs ----------------------------
(***************************************************************************)
(* Proofs about Execution, continued: what the table says when a fan-out   *)
(* is over, the order of the legs, and what the gate leaves for them.  The *)
(* last is about sums over sets of orders and of legs, and so what a sum   *)
(* is comes first.                                                         *)
(***************************************************************************)
EXTENDS ExecutionProofs, FiniteSetTheorems, WellFoundedInduction

-----------------------------------------------------------------------------
(* Sums over finite sets.                                                  *)

\* Induction over the naturals: a set that has 0 and with a number the next has all.
LEMMA FromZeroUp ==
    ASSUME NEW S, 0 \in S, \A n \in Nat : n \in S => n + 1 \in S
    PROVE  Nat \subseteq S
<1> SUFFICES ASSUME Nat \ S # {} PROVE FALSE
  OBVIOUS
<1>1. PICK x \in Nat \ S : \A y \in Nat \ S : <<y, x>> \notin OpToRel(<, Nat)
  <2> DEFINE T == Nat \ S
  <2>1. T \subseteq Nat /\ T # {}
    OBVIOUS
  <2> HIDE DEF T
  <2>2. \E x \in T : \A y \in T : <<y, x>> \notin OpToRel(<, Nat)
    BY <2>1, NatLessThanWellFounded, WFMin, Zenon
  <2> QED
    BY <2>2 DEF T
<1>2. x # 0 /\ x - 1 \in Nat
  OBVIOUS
<1>3. x - 1 \in S
  <2>1. <<x - 1, x>> \in OpToRel(<, Nat)
    BY <1>2 DEF OpToRel
  <2> QED
    BY <1>1, <1>2, <2>1
<1>4. (x - 1) + 1 = x
  BY <1>2
<1> QED
  BY <1>2, <1>3, <1>4

\* The element by which MapThenSumSet goes on.
Chosen(s) == CHOOSE x \in s : TRUE

\* g gives the sum of f over each subset of S.
IsSum(g, f, S) ==
    g = [s \in SUBSET S |-> IF s = {} THEN 0 ELSE f[Chosen(s)] + g[s \ {Chosen(s)}]]

\* The sum of f over S.
Total(f, S) == (CHOOSE g : IsSum(g, f, S))[S]

\* The element is one of the set.
LEMMA ChosenIn == ASSUME NEW s, s # {} PROVE Chosen(s) \in s
BY DEF Chosen

\* What g gives for a subset.
LEMMA SumAt ==
    ASSUME NEW f, NEW S, NEW g, IsSum(g, f, S), NEW s \in SUBSET S
    PROVE  g[s] = IF s = {} THEN 0 ELSE f[Chosen(s)] + g[s \ {Chosen(s)}]
BY Zenon DEF IsSum

\* There is at most one such g.
LEMMA SumUnique ==
    ASSUME NEW f, NEW S, IsFiniteSet(S), NEW g, NEW h, IsSum(g, f, S), IsSum(h, f, S)
    PROVE  g = h
<1> DEFINE Same == {n \in Nat : \A s \in SUBSET S : Cardinality(s) = n => g[s] = h[s]}
<1>1. \A s \in SUBSET S : IsFiniteSet(s) /\ Cardinality(s) \in Nat
  BY FS_Subset, FS_CardinalityType
<1>2. /\ \A s \in SUBSET S : g[s] = IF s = {} THEN 0 ELSE f[Chosen(s)] + g[s \ {Chosen(s)}]
      /\ \A s \in SUBSET S : h[s] = IF s = {} THEN 0 ELSE f[Chosen(s)] + h[s \ {Chosen(s)}]
  BY SumAt
<1>3. 0 \in Same
  BY <1>1, <1>2, FS_EmptySet
<1>4. ASSUME NEW n \in Nat, n \in Same PROVE n + 1 \in Same
  <2>1. ASSUME NEW s \in SUBSET S, Cardinality(s) = n + 1 PROVE g[s] = h[s]
    <3>1. s # {}
      BY <2>1, FS_EmptySet
    <3>2. Chosen(s) \in s /\ s \ {Chosen(s)} \in SUBSET S
      BY <3>1, ChosenIn
    <3>3. Cardinality(s \ {Chosen(s)}) = n
      BY <1>1, <2>1, <3>2, FS_RemoveElement
    <3>4. g[s \ {Chosen(s)}] = h[s \ {Chosen(s)}]
      BY <1>4, <3>2, <3>3
    <3> QED
      BY <1>2, <3>1, <3>4
  <2> QED
    BY <2>1
<1>5. \A s \in SUBSET S : g[s] = h[s]
  <2>1. Nat \subseteq Same
    <3> HIDE DEF Same
    <3> QED
      BY <1>3, <1>4, FromZeroUp
  <2> QED
    BY <1>1, <2>1
<1>6. g = [s \in SUBSET S |-> g[s]] /\ h = [s \in SUBSET S |-> h[s]]
  BY DEF IsSum
<1> QED
  BY <1>5, <1>6

\* There is one: built up from the subsets of at most n elements.
LEMMA SumExists ==
    ASSUME NEW f, NEW S, IsFiniteSet(S)
    PROVE  \E g : IsSum(g, f, S)
<1> DEFINE Small(n) == {s \in SUBSET S : Cardinality(s) <= n}
           IsPart(g, n) ==
             g = [s \in Small(n) |-> IF s = {} THEN 0 ELSE f[Chosen(s)] + g[s \ {Chosen(s)}]]
           Has == {n \in Nat : \E g : IsPart(g, n)}
<1>1. \A s \in SUBSET S : IsFiniteSet(s) /\ Cardinality(s) \in Nat
  BY FS_Subset, FS_CardinalityType
<1>2. 0 \in Has
  <2> DEFINE g == [s \in Small(0) |-> 0]
  <2>1. \A s \in Small(0) : s = {}
    BY <1>1, FS_EmptySet
  <2>2. IsPart(g, 0)
    BY <2>1
  <2> QED
    BY <2>2
<1>3. ASSUME NEW n \in Nat, n \in Has PROVE n + 1 \in Has
  <2>1. PICK g : IsPart(g, n)
    BY <1>3
  <2> DEFINE h == [s \in Small(n + 1) |->
                     IF s = {} THEN 0 ELSE f[Chosen(s)] + g[s \ {Chosen(s)}]]
  <2>2. ASSUME NEW s \in Small(n + 1), s # {} PROVE s \ {Chosen(s)} \in Small(n)
    BY <1>1, <2>2, ChosenIn, FS_RemoveElement
  <2>3. ASSUME NEW s \in Small(n) PROVE h[s] = g[s]
    <3>1. s \in Small(n + 1)
      BY <1>1
    <3>2. g[s] = IF s = {} THEN 0 ELSE f[Chosen(s)] + g[s \ {Chosen(s)}]
      BY <2>1, Zenon
    <3> QED
      BY <3>1, <3>2
  <2>4. IsPart(h, n + 1)
    BY <2>2, <2>3
  <2>5. \E e : IsPart(e, n + 1)
    <3> HIDE DEF IsPart, h
    <3> QED
      BY <2>4
  <2> HIDE DEF IsPart
  <2> QED
    BY <2>5
<1>4. Nat \subseteq Has
  <2> HIDE DEF Has
  <2> QED
    BY <1>2, <1>3, FromZeroUp
<1>5. PICK g : IsPart(g, Cardinality(S))
  BY <1>1, <1>4
<1>6. Small(Cardinality(S)) = SUBSET S
  BY <1>1, FS_Subset
<1> QED
  BY <1>5, <1>6 DEF IsSum

\* A sum is the element picked plus the sum of the rest.
LEMMA TotalStep ==
    ASSUME NEW f, NEW S, IsFiniteSet(S)
    PROVE  Total(f, S) = IF S = {} THEN 0 ELSE f[Chosen(S)] + Total(f, S \ {Chosen(S)})
<1>1. PICK g : IsSum(g, f, S)
  BY SumExists
<1>2. \A s \in SUBSET S : g[s] = IF s = {} THEN 0 ELSE f[Chosen(s)] + g[s \ {Chosen(s)}]
  BY <1>1, SumAt
<1>3. ASSUME NEW T \in SUBSET S PROVE Total(f, T) = g[T]
  <2> DEFINE h == [s \in SUBSET T |-> g[s]]
             e == CHOOSE e : IsSum(e, f, T)
  <2>1. IsFiniteSet(T)
    BY FS_Subset
  <2>2. h = [s \in SUBSET T |-> IF s = {} THEN 0 ELSE f[Chosen(s)] + h[s \ {Chosen(s)}]]
    BY <1>2
  <2>3. IsSum(h, f, T)
    BY <2>2 DEF IsSum
  <2>4. IsSum(e, f, T)
    BY <2>3
  <2>5. e = h
    BY <2>1, <2>3, <2>4, SumUnique
  <2> QED
    BY <2>5 DEF Total
<1> QED
  BY <1>2, <1>3

\* A sum of numbers of a set closed under addition is in the set.
LEMMA TotalIn ==
    ASSUME NEW N, 0 \in N, \A a, b \in N : a + b \in N,
           NEW S, IsFiniteSet(S), NEW f, \A x \in S : f[x] \in N
    PROVE  Total(f, S) \in N
<1> DEFINE Good == {n \in Nat : \A s \in SUBSET S : Cardinality(s) = n => Total(f, s) \in N}
<1>1. \A s \in SUBSET S : IsFiniteSet(s) /\ Cardinality(s) \in Nat
  BY FS_Subset, FS_CardinalityType
<1>2. 0 \in Good
  <2>1. \A s \in SUBSET S : Cardinality(s) = 0 => s = {}
    BY <1>1, FS_EmptySet
  <2>2. Total(f, {}) = 0
    BY FS_EmptySet, TotalStep
  <2> QED
    BY <2>1, <2>2
<1>3. ASSUME NEW n \in Nat, n \in Good PROVE n + 1 \in Good
  <2>1. ASSUME NEW s \in SUBSET S, Cardinality(s) = n + 1 PROVE Total(f, s) \in N
    <3>1. s # {}
      BY <2>1, FS_EmptySet
    <3>2. Chosen(s) \in s /\ s \ {Chosen(s)} \in SUBSET S
      BY <3>1, ChosenIn
    <3>3. Cardinality(s \ {Chosen(s)}) = n
      <4>1. Cardinality(s \ {Chosen(s)}) = Cardinality(s) - 1
        BY <1>1, <3>2, FS_RemoveElement
      <4> QED
        BY <2>1, <4>1
    <3>4. Total(f, s \ {Chosen(s)}) \in N /\ f[Chosen(s)] \in N
      BY <1>3, <3>2, <3>3
    <3>5. Total(f, s) = f[Chosen(s)] + Total(f, s \ {Chosen(s)})
      BY <1>1, <3>1, TotalStep
    <3> QED
      BY <3>4, <3>5
  <2> QED
    BY <2>1
<1>4. Nat \subseteq Good
  <2> HIDE DEF Good
  <2> QED
    BY <1>2, <1>3, FromZeroUp
<1> QED
  BY <1>1, <1>4

\* A sum of integers is one.
LEMMA TotalInt ==
    ASSUME NEW S, IsFiniteSet(S), NEW f, \A x \in S : f[x] \in Int
    PROVE  Total(f, S) \in Int
<1>1. 0 \in Int /\ \A a, b \in Int : a + b \in Int
  OBVIOUS
<1> QED
  BY <1>1, TotalIn

\* A sum of naturals is one.
LEMMA TotalNat ==
    ASSUME NEW S, IsFiniteSet(S), NEW f, \A x \in S : f[x] \in Nat
    PROVE  Total(f, S) \in Nat
<1>1. 0 \in Nat /\ \A a, b \in Nat : a + b \in Nat
  OBVIOUS
<1> QED
  BY <1>1, TotalIn

\* A sum is any element plus the sum of the rest: the order is immaterial.
LEMMA TotalRemove ==
    ASSUME NEW S, IsFiniteSet(S), NEW f, \A x \in S : f[x] \in Int, NEW x \in S
    PROVE  Total(f, S) = f[x] + Total(f, S \ {x})
<1> DEFINE Good == {n \in Nat : \A s \in SUBSET S : Cardinality(s) = n =>
                      \A y \in s : Total(f, s) = f[y] + Total(f, s \ {y})}
<1>1. \A s \in SUBSET S : IsFiniteSet(s) /\ Cardinality(s) \in Nat /\ Total(f, s) \in Int
  BY FS_Subset, FS_CardinalityType, TotalInt
<1>2. 0 \in Good
  BY <1>1, FS_EmptySet
<1>3. ASSUME NEW n \in Nat, n \in Good PROVE n + 1 \in Good
  <2>1. ASSUME NEW s \in SUBSET S, Cardinality(s) = n + 1, NEW y \in s
        PROVE  Total(f, s) = f[y] + Total(f, s \ {y})
    <3> DEFINE c == Chosen(s)
    <3>1. c \in s
      BY ChosenIn
    <3>2. Total(f, s) = f[c] + Total(f, s \ {c})
      BY <1>1, TotalStep
    <3>3. CASE y = c
      BY <3>2, <3>3
    <3>4. CASE y # c
      <4> HIDE DEF c
      <4>1. Cardinality(s \ {c}) = n /\ Cardinality(s \ {y}) = n
        BY <1>1, <2>1, <3>1, FS_RemoveElement
      <4>2. Total(f, s \ {c}) = f[y] + Total(f, (s \ {c}) \ {y})
        BY <1>3, <3>1, <3>4, <4>1
      <4>3. Total(f, s \ {y}) = f[c] + Total(f, (s \ {y}) \ {c})
        BY <1>3, <3>1, <3>4, <4>1
      <4>4. (s \ {c}) \ {y} = (s \ {y}) \ {c}
        OBVIOUS
      <4>5. f[y] \in Int /\ f[c] \in Int /\ Total(f, (s \ {c}) \ {y}) \in Int
        BY <1>1, <3>1
      <4>6. Total(f, s \ {c}) = f[y] + Total(f, (s \ {c}) \ {y})
            /\ Total(f, s \ {y}) = f[c] + Total(f, (s \ {c}) \ {y})
        BY <4>2, <4>3, <4>4
      <4> QED
        BY <3>2, <4>5, <4>6
    <3> QED
      BY <3>3, <3>4
  <2> QED
    BY <2>1
<1>4. Nat \subseteq Good
  <2> HIDE DEF Good
  <2> QED
    BY <1>2, <1>3, FromZeroUp
<1> QED
  BY <1>1, <1>4

-----------------------------------------------------------------------------
(* The sums of the gate and of the broker.                                 *)

\* The money an execution moves under the plans p.
Moved(p, key) ==
    IF key[2] = "ENTRY" THEN -Price[p[key[1]].contract[key[4]]]
    ELSE Price[p[key[1]].contract[key[4]]]

\* The money the executions S move.
MovedSum(p, S) == MapThenSumSet(LAMBDA key : Moved(p, key), S)

\* A sum MapThenSumSet makes of it is the total of the function.
LEMMA MovedTotal ==
    ASSUME NEW p, NEW S, IsFiniteSet(S)
    PROVE  MovedSum(p, S) = Total([key \in S |-> Moved(p, key)], S)
<1> DEFINE f == [key \in S |-> Moved(p, key)]
           IsIter(g) == g = [s \in SUBSET S |->
              IF s = {} THEN 0 ELSE Moved(p, Chosen(s)) + g[s \ {Chosen(s)}]]
           iter == CHOOSE g : IsIter(g)
<1>1. \A g : IsIter(g) <=> IsSum(g, f, S)
  <2> SUFFICES ASSUME NEW g PROVE IsIter(g) <=> IsSum(g, f, S)
    OBVIOUS
  <2>1. \A s \in SUBSET S : s # {} => f[Chosen(s)] = Moved(p, Chosen(s))
    BY ChosenIn
  <2>2. [s \in SUBSET S |-> IF s = {} THEN 0 ELSE Moved(p, Chosen(s)) + g[s \ {Chosen(s)}]]
        = [s \in SUBSET S |-> IF s = {} THEN 0 ELSE f[Chosen(s)] + g[s \ {Chosen(s)}]]
    BY <2>1
  <2> QED
    BY <2>2 DEF IsSum
<1>2. IsSum(iter, f, S)
  BY <1>1, SumExists
<1>3. iter = CHOOSE g : IsSum(g, f, S)
  <2>1. IsSum((CHOOSE g : IsSum(g, f, S)), f, S)
    BY <1>2
  <2> QED
    BY <2>1, <1>2, SumUnique
<1>4. MovedSum(p, S) = iter[S]
  BY DEF MovedSum, MapThenSumSet, MapThenFoldSet, Chosen
<1> QED
  BY <1>3, <1>4 DEF Total

\* A balance is such a sum, before a step and after it.
LEMMA BalanceIs ==
    ASSUME NEW u
    PROVE  /\ Balance(u) = Funds[u] + MovedSum(plan, {key \in filled : key[3] = u})
           /\ Balance(u)' = Funds[u] + MovedSum(plan', {key \in filled' : key[3] = u})
BY DEF MovedSum, Balance, Proceeds, ContractOf, Moved, MapThenSumSet, MapThenFoldSet

\* An order of a leg its run has moves a whole amount of money.
LEMMA MovedInt ==
    ASSUME TypeOK, NEW key \in Keys, key[4] \in SignalLegs(key[1])
    PROVE  Price[ContractOf(key)] \in Nat /\ Moved(plan, key) \in Int
<1>1. key[1] \in Runs
  BY DEF Keys
<1>2. plan[key[1]].contract \in UNION {[S -> Contracts] : S \in SUBSET Legs}
  BY <1>1, PlansAssumption DEF TypeOK, PlanSpace
<1>3. PICK S \in SUBSET Legs : plan[key[1]].contract \in [S -> Contracts]
  BY <1>2
<1>4. plan[key[1]].contract[key[4]] \in Contracts
  BY <1>3 DEF SignalLegs
<1>5. Price[plan[key[1]].contract[key[4]]] \in Nat
  BY <1>4, ConstantsAssumption
<1> QED
  BY <1>5 DEF Moved, ContractOf

\* A sum depends on the values over its set only.
LEMMA TotalSame ==
    ASSUME NEW S, IsFiniteSet(S), NEW f, NEW g, \A x \in S : f[x] = g[x]
    PROVE  Total(f, S) = Total(g, S)
<1>1. PICK h : IsSum(h, f, S)
  BY SumExists
<1>2. h = [s \in SUBSET S |-> IF s = {} THEN 0 ELSE g[Chosen(s)] + h[s \ {Chosen(s)}]]
  <2>1. \A s \in SUBSET S : s # {} => f[Chosen(s)] = g[Chosen(s)]
    BY ChosenIn
  <2> QED
    BY <1>1, <2>1 DEF IsSum
<1>3. IsSum(h, g, S)
  BY <1>2 DEF IsSum
<1>4. (CHOOSE e : IsSum(e, f, S)) = h
  <2>1. IsSum((CHOOSE e : IsSum(e, f, S)), f, S)
    BY <1>1
  <2> QED
    BY <1>1, <2>1, SumUnique
<1>5. (CHOOSE e : IsSum(e, g, S)) = h
  <2>1. IsSum((CHOOSE e : IsSum(e, g, S)), g, S)
    BY <1>3
  <2> QED
    BY <1>3, <2>1, SumUnique
<1> QED
  BY <1>4, <1>5 DEF Total

\* A balance is a number, and a step that fills nothing leaves it alone.
LEMMA BalanceFacts ==
    ASSUME TypeOK, IsFiniteSet(filled), \A k \in filled : k[4] \in SignalLegs(k[1]),
           NEW u \in Users
    PROVE  /\ Balance(u) \in Int
           /\ UNCHANGED <<plan, filled>> => Balance(u)' = Balance(u)
<1> DEFINE S == {key \in filled : key[3] = u}
           f == [key \in S |-> Moved(plan, key)]
<1>1. IsFiniteSet(S)
  BY FS_Subset
<1>2. \A key \in S : f[key] \in Int
  BY MovedInt DEF TypeOK
<1>3. Total(f, S) \in Int
  <2> HIDE DEF f, S
  <2> QED
    BY <1>1, <1>2, TotalInt
<1>4. MovedSum(plan, S) = Total(f, S)
  BY <1>1, MovedTotal
<1>5. Funds[u] \in Int
  BY ConstantsAssumption
<1>6. Balance(u) = Funds[u] + MovedSum(plan, S)
  BY BalanceIs
<1>7. Balance(u)' = Funds[u] + MovedSum(plan', {key \in filled' : key[3] = u})
  BY BalanceIs
<1> HIDE DEF f, S
<1>8. Balance(u) \in Int
  BY <1>3, <1>4, <1>5, <1>6
<1>9. UNCHANGED <<plan, filled>> => Balance(u)' = Balance(u)
  BY <1>6, <1>7 DEF S
<1> QED
  BY <1>8, <1>9

\* A fill moves the balance of its user by its price, and nobody else's.
LEMMA BalanceAdds ==
    ASSUME TypeOK, IsFiniteSet(filled), \A k \in filled : k[4] \in SignalLegs(k[1]),
           UNCHANGED plan,
           NEW key \in Keys \ filled, key[4] \in SignalLegs(key[1]), filled' = filled \cup {key},
           NEW u \in Users
    PROVE  Balance(u)' = Balance(u) + IF key[3] = u THEN Proceeds(key) ELSE 0
<1> DEFINE S == {k \in filled : k[3] = u}
           T == {k \in filled' : k[3] = u}
           f == [k \in S |-> Moved(plan, k)]
           g == [k \in T |-> Moved(plan, k)]
<1>1. CASE key[3] # u
  <2>1. S = T /\ Balance(u) \in Int
    BY <1>1, BalanceFacts
  <2>2. Balance(u) = Funds[u] + MovedSum(plan, S)
    BY BalanceIs
  <2>3. Balance(u)' = Funds[u] + MovedSum(plan, T)
    BY BalanceIs
  <2> HIDE DEF f, g, S, T
  <2> QED
    BY <1>1, <2>1, <2>2, <2>3
<1>2. CASE key[3] = u
  <2>1. IsFiniteSet(S) /\ T = S \cup {key} /\ S = T \ {key} /\ key \in T
    <3>1. IsFiniteSet(S)
      BY FS_Subset
    <3>2. T = S \cup {key} /\ key \notin S
      BY <1>2
    <3> QED
      BY <3>1, <3>2
  <2>2. IsFiniteSet(T)
    <3> HIDE DEF f, g, S, T
    <3> QED
      BY <2>1, FS_AddElement
  <2>3. \A k \in T : g[k] \in Int
    BY MovedInt DEF TypeOK
  <2>4. \A k \in S : f[k] = g[k]
    BY <2>1
  <2>5. g[key] = Proceeds(key) /\ g[key] \in Int
    BY <2>1, <2>3 DEF Moved, Proceeds, ContractOf
  <2>6. MovedSum(plan, S) = Total(f, S)
    BY <2>1, MovedTotal
  <2>7. MovedSum(plan, T) = Total(g, T)
    BY <2>2, MovedTotal
  <2>8. Total(g, T) = g[key] + Total(g, S) /\ Total(f, S) = Total(g, S) /\ Total(g, S) \in Int
    <3> HIDE DEF f, g, S, T
    <3>1. Total(g, T) = g[key] + Total(g, S)
      BY <2>1, <2>2, <2>3, TotalRemove
    <3>2. Total(f, S) = Total(g, S)
      BY <2>1, <2>4, TotalSame
    <3>3. Total(g, S) \in Int
      BY <2>1, <2>3, TotalInt
    <3> QED
      BY <3>1, <3>2, <3>3
  <2>9. Balance(u) = Funds[u] + Total(f, S) /\ Balance(u)' = Funds[u] + Total(g, T)
    <3>1. Balance(u) = Funds[u] + MovedSum(plan, S)
      BY BalanceIs
    <3>2. Balance(u)' = Funds[u] + MovedSum(plan, T)
      BY BalanceIs
    <3> QED
      BY <3>1, <3>2, <2>6, <2>7
  <2>10. Funds[u] \in Int
    BY ConstantsAssumption
  <2> HIDE DEF f, g, S, T
  <2> QED
    BY <1>2, <2>5, <2>8, <2>9, <2>10
<1> QED
  BY <1>1, <1>2

\* There are finitely many legs.
LEMMA LegsFinite == \A S \in SUBSET Legs : IsFiniteSet(S)
<1>1. IsFiniteSet({"CE"} \cup {"PE"} \cup {"FUT"})
  BY FS_Singleton, FS_Union
<1>2. Legs = {"CE"} \cup {"PE"} \cup {"FUT"}
  BY DEF Legs
<1> QED
  BY <1>1, <1>2, FS_Subset

\* The cost of legs is the total of their prices.
LEMMA CostTotal ==
    ASSUME NEW p, NEW S, IsFiniteSet(S)
    PROVE  Cost(p, S) = Total([leg \in S |-> Price[p.contract[leg]]], S)
<1> DEFINE f == [leg \in S |-> Price[p.contract[leg]]]
           IsIter(g) == g = [s \in SUBSET S |->
              IF s = {} THEN 0 ELSE Price[p.contract[Chosen(s)]] + g[s \ {Chosen(s)}]]
           iter == CHOOSE g : IsIter(g)
<1>1. \A g : IsIter(g) <=> IsSum(g, f, S)
  <2> SUFFICES ASSUME NEW g PROVE IsIter(g) <=> IsSum(g, f, S)
    OBVIOUS
  <2>1. \A s \in SUBSET S : s # {} => f[Chosen(s)] = Price[p.contract[Chosen(s)]]
    BY ChosenIn
  <2>2. [s \in SUBSET S |->
           IF s = {} THEN 0 ELSE Price[p.contract[Chosen(s)]] + g[s \ {Chosen(s)}]]
        = [s \in SUBSET S |-> IF s = {} THEN 0 ELSE f[Chosen(s)] + g[s \ {Chosen(s)}]]
    BY <2>1
  <2> QED
    BY <2>2 DEF IsSum
<1>2. IsSum(iter, f, S)
  BY <1>1, SumExists
<1>3. iter = CHOOSE g : IsSum(g, f, S)
  <2>1. IsSum((CHOOSE g : IsSum(g, f, S)), f, S)
    BY <1>2
  <2> QED
    BY <2>1, <1>2, SumUnique
<1>4. Cost(p, S) = iter[S]
  BY DEF Cost, MapThenSumSet, MapThenFoldSet, Chosen
<1> QED
  BY <1>3, <1>4 DEF Total

\* What the gate asks for is that margin over the legs of the task.
LEMMA MarginIs ==
    ASSUME NEW t
    PROVE  RequiredMargin(t) = Margin(plan[t[1]], todo[t])
BY DEF RequiredMargin, Margin, Cost, MapThenSumSet, MapThenFoldSet

\* The legs of a run have prices.
LEMMA LegPrices ==
    ASSUME TypeOK, NEW r \in Runs
    PROVE  \A leg \in SignalLegs(r) : Price[plan[r].contract[leg]] \in Nat
<1>1. plan[r].contract \in UNION {[T -> Contracts] : T \in SUBSET Legs}
  BY PlansAssumption DEF TypeOK, PlanSpace
<1>2. PICK T \in SUBSET Legs : plan[r].contract \in [T -> Contracts]
  BY <1>1
<1>3. \A leg \in SignalLegs(r) : plan[r].contract[leg] \in Contracts
  BY <1>2 DEF SignalLegs
<1> QED
  BY <1>3, ConstantsAssumption

\* A margin is a natural number.
LEMMA MarginNat ==
    ASSUME TypeOK, NEW r \in Runs, NEW S \in SUBSET SignalLegs(r)
    PROVE  Margin(plan[r], S) \in Nat
<1> DEFINE f == [leg \in S |-> Price[plan[r].contract[leg]]]
<1>1. IsFiniteSet(S)
  BY PlanFacts, LegsFinite
<1>2. \A leg \in S : f[leg] \in Nat
  BY LegPrices
<1>3. Cost(plan[r], S) = Total(f, S)
  BY <1>1, CostTotal
<1> HIDE DEF f
<1>4. Total(f, S) \in Nat
  BY <1>1, <1>2, TotalNat
<1> QED
  BY <1>3, <1>4 DEF Margin

\* A leg less is its price less, if there are prices.
LEMMA MarginTakes ==
    ASSUME TypeOK, NEW r \in Runs, NEW S \in SUBSET SignalLegs(r), NEW leg \in S
    PROVE  /\ Price[plan[r].contract[leg]] \in Nat
           /\ Margin(plan[r], S) =
                Margin(plan[r], S \ {leg})
                    + IF plan[r].quoted THEN Price[plan[r].contract[leg]] ELSE 0
<1> DEFINE f == [l \in S |-> Price[plan[r].contract[l]]]
           g == [l \in S \ {leg} |-> Price[plan[r].contract[l]]]
<1>1. IsFiniteSet(S) /\ IsFiniteSet(S \ {leg})
  BY PlanFacts, LegsFinite
<1>2. \A l \in SignalLegs(r) : Price[plan[r].contract[l]] \in Nat
  BY LegPrices
<1>3. \A l \in S : f[l] \in Int
  BY <1>2
<1>4. \A l \in S \ {leg} : g[l] = f[l]
  OBVIOUS
<1>5. Cost(plan[r], S) = Total(f, S)
  BY <1>1, CostTotal
<1>6. Cost(plan[r], S \ {leg}) = Total(g, S \ {leg})
  BY <1>1, CostTotal
<1>7. f[leg] = Price[plan[r].contract[leg]] /\ f[leg] \in Nat
  BY <1>2
<1> HIDE DEF f, g
<1>8. Total(f, S) = f[leg] + Total(f, S \ {leg})
  BY <1>1, <1>3, TotalRemove
<1>9. Total(g, S \ {leg}) = Total(f, S \ {leg})
  BY <1>1, <1>4, TotalSame
<1>10. Total(f, S \ {leg}) \in Int
  <2>1. \A l \in S \ {leg} : f[l] \in Int
    BY <1>3
  <2> QED
    BY <1>1, <2>1, TotalInt
<1>11. Cost(plan[r], S) = Cost(plan[r], S \ {leg}) + Price[plan[r].contract[leg]]
  BY <1>5, <1>6, <1>7, <1>8, <1>9, <1>10
<1>12. CASE plan[r].quoted
  BY <1>7, <1>11, <1>12 DEF Margin
<1>13. CASE ~plan[r].quoted
  BY <1>7, <1>13 DEF Margin
<1> QED
  BY <1>12, <1>13

-----------------------------------------------------------------------------
(* What a step does that is no task's.                                     *)

\* It moves no money, turns ENTRYs to EXITs only, does not revive a run that has
\* failed, drops tasks that work on a leg only when the run fails, and starts the
\* tasks of a strategy with the legs the user has, or is to have.
FanOutEffect ==
    /\ UNCHANGED filled
    /\ \A q \in Runs :
         /\ kind'[q] # kind[q] => kind[q] = "ENTRY" /\ kind'[q] = "EXIT"
         /\ rpc'[q] \in UnfannedOut /\ kind'[q] = kind[q] => rpc[q] \in UnfannedOut
         /\ rpc[q] = "failed" => rpc'[q] = "failed" /\ kind'[q] = kind[q]
    /\ \A t \in Tasks :
         \/ tpc'[t] = "off" /\ (Holding(t) => rpc'[t[1]] = "failed" /\ kind'[t[1]] = kind[t[1]])
         \/ tpc'[t] = tpc[t] /\ todo'[t] = todo[t] /\ kind'[t[1]] = kind[t[1]]
         \/ /\ tpc[t] = "off" /\ tpc'[t] \in {"account", "over"}
            /\ rpc[t[1]] \in UnfannedOut /\ kind'[t[1]] = kind[t[1]]
            /\ IsStrategy(t[1]) => todo'[t] = StartLegs(t)

\* A strategy's EXIT finds its own ENTRY.
LEMMA OwnEntry ==
    ASSUME TypeOK, SignalsInv, NEW r \in Runs, IsStrategy(r), kind[r] = "EXIT"
    PROVE  MatchingEntries(plan[r].slot) = {r}
<1>1. SignalRow(r, "ENTRY") \in signals
  BY DEF SignalsInv
<1>2. ASSUME NEW e \in MatchingEntries(plan[r].slot) PROVE e = r
  <2>1. [run |-> e, kind |-> "ENTRY", slot |-> plan[r].slot] \in signals
    BY DEF MatchingEntries
  <2>2. [run |-> e, kind |-> "ENTRY", slot |-> plan[r].slot] = SignalRow(r, "ENTRY")
    BY <1>1, <2>1 DEF SignalsInv, SignalRow
  <2> QED
    BY <2>2 DEF SignalRow
<1>3. r \in MatchingEntries(plan[r].slot)
  BY <1>1 DEF MatchingEntries, SignalRow
<1> QED
  BY <1>2, <1>3

\* Every step that is no task's has that effect.
LEMMA FanOutEffects ==
    ASSUME Inductive, BatchInv, OtherStep
    PROVE  FanOutEffect
<1>1. TypeOK /\ SignalsInv /\ TasksInv /\ PositionsInv
  BY DEF Inductive
<1> USE <1>1
  DEF FanOutEffect, UnfannedOut, Holding, LegPcs, runVars, taskVars, brokerVars, storeVars
<1>2. ASSUME NEW r \in Runs, AfterFanOut(r), \A t \in Tasks : t[1] = r => ~Holding(t),
             rpc[r] # "failed"
      PROVE  FanOutEffect
  <2>1. \A t \in Tasks :
          IF t[1] = r THEN tpc'[t] = "off"
          ELSE tpc'[t] = tpc[t] /\ todo'[t] = todo[t]
    BY <1>2 DEF AfterFanOut, DropTasks
  <2>2. \A q \in Runs : q # r => rpc'[q] = rpc[q] /\ kind'[q] = kind[q]
    BY <1>2 DEF AfterFanOut, TypeOK
  <2>3. \/ kind[r] = "ENTRY" /\ kind'[r] = "EXIT" /\ rpc'[r] = "create"
        \/ kind'[r] = kind[r] /\ rpc'[r] = "done"
    BY <1>2 DEF AfterFanOut, TypeOK
  <2>4. UNCHANGED filled /\ \A t \in Tasks : t[1] \in Runs
    BY <1>2 DEF AfterFanOut, Tasks
  <2> QED
    BY <1>2, <2>1, <2>2, <2>3, <2>4
<1>3. ASSUME NEW r \in Runs, UNCHANGED <<plan, kind, filled>>,
             rpc[r] # "failed", Fail(r)
      PROVE  FanOutEffect
  BY <1>3 DEF Fail, DropTasks, TypeOK
<1>4. ASSUME NEW r \in Runs, NEW rows, UNCHANGED <<plan, kind, filled>>,
             rpc[r] \in {"subscribers", "match"},
             IsStrategy(r) => kind[r] = "ENTRY", GatherAll(r, rows)
      PROVE  FanOutEffect
  <2>1. \A t \in Tasks : t[1] = r => tpc[t] = "off"
    BY <1>4 DEF TasksInv
  <2>2. \A t \in Tasks :
          \/ tpc'[t] = tpc[t] /\ todo'[t] = todo[t]
          \/ t[1] = r /\ tpc'[t] = "account" /\ todo'[t] = SignalLegs(r)
    BY <1>4 DEF GatherAll
  <2>3. \A q \in Runs : rpc'[q] = IF q = r THEN "gather" ELSE rpc[q]
    BY <1>4 DEF GatherAll, TypeOK
  <2> QED
    BY <1>4, <2>1, <2>2, <2>3 DEF StartLegs
<1>5. ASSUME NEW r \in Runs, StartRun(r) PROVE FanOutEffect
  BY <1>5 DEF StartRun, TypeOK
<1>6. ASSUME NEW r \in Runs, CreateSignal(r) PROVE FanOutEffect
  BY <1>6 DEF CreateSignal, TypeOK
<1>7. ASSUME NEW r \in Runs, ReadSubscribers(r) PROVE FanOutEffect
  <2> DEFINE rows == {row \in subscribed : RowStrategy[row] = StrategyOf[plan[r].slot]}
  <2>1. rpc[r] = "subscribers" /\ \A t \in Tasks : t[1] = r => tpc[t] = "off"
    BY <1>7 DEF ReadSubscribers, TasksInv
  <2>2. CASE AfterFanOut(r)
    BY <1>2, <2>1, <2>2
  <2>3. CASE kind[r] = "ENTRY" /\ GatherAll(r, rows) /\ UNCHANGED <<plan, kind, entry, brokerVars>>
    BY <1>4, <2>1, <2>3
  <2>4. CASE /\ rpc' = [rpc EXCEPT ![r] = "match"]
             /\ UNCHANGED <<plan, kind, entry, taskVars, brokerVars>>
    BY <2>1, <2>4 DEF TypeOK
  <2> QED
    BY <1>7, <2>2, <2>3, <2>4 DEF ReadSubscribers
<1>8. ASSUME NEW r \in Runs, FindEntry(r) PROVE FanOutEffect
  <2>1. rpc[r] = "match" /\ kind[r] = "EXIT" /\ UNCHANGED <<plan, kind, brokerVars>>
    BY <1>8 DEF FindEntry, PositionsInv
  <2>2. CASE MatchingEntries(plan[r].slot) = {} /\ GatherAll(r, batch[r])
    <3>1. ~IsStrategy(r)
      BY <2>1, <2>2, OwnEntry
    <3> QED
      BY <1>4, <2>1, <2>2, <3>1
  <2>3. CASE rpc' = [rpc EXCEPT ![r] = "positions"] /\ UNCHANGED <<batch, taskVars>>
    BY <2>1, <2>3 DEF TypeOK
  <2> QED
    BY <1>8, <2>2, <2>3 DEF FindEntry
<1>9. ASSUME NEW r \in Runs, NEW row \in Rows, CheckPosition(r, row) PROVE FanOutEffect
  <2> DEFINE t0 == <<r, row>>
  <2>1. t0 \in Tasks /\ t0[1] = r /\ t0[2] = row
    BY DEF Tasks
  <2>2. /\ rpc[r] = "positions" /\ kind[r] = "EXIT" /\ tpc[t0] = "off"
        /\ UNCHANGED <<plan, rpc, kind, filled>>
        /\ IsStrategy(r) => entry[r] = r
    BY <1>9 DEF CheckPosition, PositionsInv
  <2>3. /\ tpc'[t0] \in {"account", "over"}
        /\ todo'[t0] = SignalLegs(r) \cap PlacedLegs(entry[r], RowUser[row])
        /\ \A t \in Tasks : t # t0 => tpc'[t] = tpc[t] /\ todo'[t] = todo[t]
    BY <1>9, <2>1 DEF CheckPosition, TypeOK
  <2>4. IsStrategy(r) => todo'[t0] = StartLegs(t0)
    BY <2>1, <2>2, <2>3 DEF StartLegs
  <2> HIDE DEF t0
  <2> QED
    BY <2>1, <2>2, <2>3, <2>4
<1>10. ASSUME NEW r \in Runs, StartExits(r) PROVE FanOutEffect
  BY <1>10 DEF StartExits, TypeOK
<1>11. ASSUME NEW r \in Runs, Join(r) PROVE FanOutEffect
  <2>1. \A t \in Tasks : t[1] = r => ~Holding(t)
    <3>1. SUFFICES ASSUME NEW t \in Tasks, t[1] = r, Holding(t) PROVE FALSE
      OBVIOUS
    <3>2. t[2] \in batch[r] /\ t = <<r, t[2]>>
      BY <3>1 DEF BatchInv, Tasks
    <3> QED
      BY <1>11, <3>1, <3>2 DEF Join
  <2> QED
    BY <1>2, <1>11, <2>1 DEF Join
<1>12. ASSUME NEW r \in Runs, StoreFails(r) PROVE FanOutEffect
  BY <1>3, <1>12 DEF StoreFails, Fail
<1>13. ASSUME NEW r \in Runs, Crash(r) PROVE FanOutEffect
  BY <1>3, <1>13 DEF Crash, Fail
<1>14. ASSUME NEW r \in Runs, NEW row \in Rows, PositionReadFails(r, row) PROVE FanOutEffect
  BY <1>3, <1>14 DEF PositionReadFails, Fail
<1>15. ASSUME NEW row \in Rows, Churn(row) PROVE FanOutEffect
  BY <1>15 DEF Churn
<1>16. CASE UNCHANGED vars
  BY <1>16 DEF vars
<1> QED
  BY <1>5, <1>6, <1>7, <1>8, <1>9, <1>10, <1>11, <1>12, <1>13, <1>14, <1>15, <1>16
  DEF OtherStep, RunStep, RunFault

\* Initially the new parts hold: nothing has been read, written or posted.
LEMMA InitClosing == Init => RowsInv /\ BatchInv /\ PostedInv /\ SettledInv
<1> SUFFICES ASSUME Init PROVE RowsInv /\ BatchInv /\ PostedInv /\ SettledInv
  OBVIOUS
<1>1. TypeOK
  BY InitInductive DEF Inductive
<1>2. \A t \in Tasks : t[1] \in Runs /\ tpc[t] = "off" /\ todo[t] = {}
  BY DEF Init, Tasks
<1>3. status = [key \in Keys |-> "none"] /\ acked = {} /\ filled = {}
  BY DEF Init, StoreInit
<1>4. RowsInv
  <2>1. \A r \in Runs, u \in Users, leg \in Legs, knd \in Kinds : <<r, knd, u, leg>> \in Keys
    BY DEF Keys
  <2>2. \A r \in Runs : kind[r] \in Kinds /\ "EXIT" \in Kinds
    BY <1>1 DEF TypeOK, Kinds
  <2> QED
    BY <1>3, <2>1, <2>2 DEF RowsInv
<1>5. BatchInv
  BY <1>2 DEF Init, BatchInv
<1>6. PostedInv
  BY <1>2, <1>3 DEF PostedInv, Holding, LegPcs
<1>7. SettledInv
  BY <1>2, <1>3 DEF SettledInv
<1> QED
  BY <1>4, <1>5, <1>6, <1>7

\* A run's tasks stay those of the rows it has read.
LEMMA BatchStep ==
    ASSUME Inductive, BatchInv, [Next]_vars
    PROVE  BatchInv'
<1>1. TypeOK /\ TasksInv /\ PositionsInv
  BY DEF Inductive
<1> USE <1>1 DEF runVars, taskVars, brokerVars, storeVars
<1>2. ASSUME NEW r \in Runs, DropTasks(r), UNCHANGED plan PROVE BatchInv'
  <2>1. \A q \in Runs : batch'[q] = IF q = r THEN {} ELSE batch[q]
    BY <1>2 DEF DropTasks, TypeOK
  <2>2. \A t \in Tasks :
          /\ t[1] \in Runs /\ SignalLegs(t[1])' = SignalLegs(t[1])
          /\ IF t[1] = r THEN tpc'[t] = "off" /\ todo'[t] = {}
             ELSE tpc'[t] = tpc[t] /\ todo'[t] = todo[t]
    BY <1>2 DEF DropTasks, Tasks, SignalLegs
  <2> QED
    BY <1>2, <2>1, <2>2 DEF BatchInv
<1>3. ASSUME NEW r \in Runs, NEW rows \in SUBSET Rows, GatherAll(r, rows), UNCHANGED plan,
             rpc[r] \in {"subscribers", "match"},
             \A row \in rows : RowStrategy[row] = StrategyOf[plan[r].slot]
      PROVE  BatchInv'
  <2>1. \A q \in Runs : batch'[q] = IF q = r THEN rows ELSE batch[q]
    BY <1>3 DEF GatherAll, TypeOK
  <2>2. \A t \in Tasks : t[1] = r => tpc[t] = "off"
    BY <1>3 DEF TasksInv
  <2>3. \A t \in Tasks :
          /\ t[1] \in Runs /\ SignalLegs(t[1])' = SignalLegs(t[1])
          /\ \/ tpc'[t] = tpc[t] /\ todo'[t] = todo[t]
             \/ t[1] = r /\ t[2] \in rows /\ todo'[t] = SignalLegs(r)
    BY <1>3 DEF GatherAll, Tasks, SignalLegs
  <2> QED
    BY <1>3, <2>1, <2>2, <2>3 DEF BatchInv
<1>4. ASSUME UNCHANGED <<plan, batch, tpc, todo>> PROVE BatchInv'
  BY <1>4 DEF BatchInv, SignalLegs
<1>5. ASSUME NEW r \in Runs, StartRun(r) \/ CreateSignal(r) \/ StartExits(r) PROVE BatchInv'
  BY <1>4, <1>5 DEF StartRun, CreateSignal, StartExits
<1>6. ASSUME NEW r \in Runs, Join(r) \/ StoreFails(r) \/ Crash(r) PROVE BatchInv'
  BY <1>2, <1>6 DEF Join, AfterFanOut, StoreFails, Crash, Fail
<1>7. ASSUME NEW r \in Runs, NEW row \in Rows, PositionReadFails(r, row) PROVE BatchInv'
  BY <1>2, <1>7 DEF PositionReadFails, Fail
<1>8. ASSUME NEW r \in Runs, ReadSubscribers(r) PROVE BatchInv'
  <2> DEFINE rows == {row \in subscribed : RowStrategy[row] = StrategyOf[plan[r].slot]}
  <2>1. rows \in SUBSET Rows /\ rpc[r] = "subscribers"
    BY <1>8 DEF ReadSubscribers, TypeOK
  <2>2. CASE AfterFanOut(r)
    BY <1>2, <2>2 DEF AfterFanOut
  <2>3. CASE GatherAll(r, rows) /\ UNCHANGED <<plan, kind, entry, brokerVars>>
    BY <1>3, <2>1, <2>3
  <2>4. CASE batch' = [batch EXCEPT ![r] = rows] /\ UNCHANGED <<plan, taskVars>>
    <3>1. \A q \in Runs : batch'[q] = IF q = r THEN rows ELSE batch[q]
      BY <2>4 DEF TypeOK
    <3>2. \A t \in Tasks : t[1] = r => tpc[t] = "off"
      BY <2>1 DEF TasksInv
    <3>3. \A t \in Tasks : t[1] \in Runs /\ SignalLegs(t[1])' = SignalLegs(t[1])
      BY <2>4 DEF Tasks, SignalLegs
    <3> QED
      BY <2>4, <3>1, <3>2, <3>3 DEF BatchInv
  <2> QED
    BY <1>8, <2>2, <2>3, <2>4 DEF ReadSubscribers
<1>9. ASSUME NEW r \in Runs, FindEntry(r) PROVE BatchInv'
  <2>1. /\ batch[r] \in SUBSET Rows /\ rpc[r] = "match" /\ UNCHANGED plan
        /\ \A row \in batch[r] : RowStrategy[row] = StrategyOf[plan[r].slot]
    BY <1>9 DEF FindEntry, TypeOK, BatchInv
  <2>2. CASE GatherAll(r, batch[r])
    BY <1>3, <2>1, <2>2
  <2>3. CASE UNCHANGED <<batch, taskVars>>
    BY <1>4, <2>1, <2>3
  <2> QED
    BY <1>9, <2>2, <2>3 DEF FindEntry
<1>10. ASSUME NEW r \in Runs, NEW row \in Rows, CheckPosition(r, row) PROVE BatchInv'
  <2> DEFINE t0 == <<r, row>>
  <2>1. t0 \in Tasks /\ t0[1] = r /\ t0[2] = row /\ row \in batch[r]
    BY <1>10 DEF Tasks, CheckPosition
  <2>2. /\ todo'[t0] \subseteq SignalLegs(r)
        /\ \A t \in Tasks : t # t0 => tpc'[t] = tpc[t] /\ todo'[t] = todo[t]
    BY <1>10, <2>1 DEF CheckPosition, TypeOK
  <2>3. UNCHANGED <<plan, batch>> /\ \A t \in Tasks : SignalLegs(t[1])' = SignalLegs(t[1])
    BY <1>10 DEF CheckPosition, SignalLegs
  <2> HIDE DEF t0
  <2> QED
    BY <2>1, <2>2, <2>3 DEF BatchInv
<1>11. ASSUME NEW row \in Rows, Churn(row) PROVE BatchInv'
  BY <1>4, <1>11 DEF Churn
<1>12. ASSUME NEW t \in Tasks, TaskStep(t) PROVE BatchInv'
  <2>1. UNCHANGED <<plan, batch>> /\ tpc[t] # "off" /\ todo'[t] \subseteq todo[t]
    BY <1>12, TaskFrame, TaskAnswersTrue DEF TaskAnswers
  <2>2. \A s \in Tasks : s # t => tpc'[s] = tpc[s] /\ todo'[s] = todo[s]
    BY <1>12, TaskOthers
  <2> QED
    BY <2>1, <2>2 DEF BatchInv, SignalLegs
<1>13. CASE UNCHANGED vars
  BY <1>4, <1>13 DEF vars
<1> QED
  BY <1>5, <1>6, <1>7, <1>8, <1>9, <1>10, <1>11, <1>12, <1>13 DEF Next, RunStep, RunFault

\* A signal that is not fanned out yet has no rows.
LEMMA RowsStep ==
    ASSUME Inductive, BatchInv, RowsInv, [Next]_vars
    PROVE  RowsInv'
<1>1. TypeOK /\ TasksInv /\ PositionsInv
  BY DEF Inductive
<1>2. SUFFICES ASSUME NEW r \in Runs, NEW u \in Users, NEW leg \in Legs
               PROVE  /\ rpc'[r] \in UnfannedOut => status'[<<r, kind'[r], u, leg>>] = "none"
                      /\ kind'[r] = "ENTRY" => status'[<<r, "EXIT", u, leg>>] = "none"
  BY DEF RowsInv
<1>3. /\ rpc[r] \in UnfannedOut => status[<<r, kind[r], u, leg>>] = "none"
      /\ kind[r] = "ENTRY" => status[<<r, "EXIT", u, leg>>] = "none"
  BY DEF RowsInv
<1>4. CASE OtherStep
  <2>1. /\ UNCHANGED status
        /\ kind'[r] # kind[r] => kind[r] = "ENTRY" /\ kind'[r] = "EXIT"
        /\ rpc'[r] \in UnfannedOut /\ kind'[r] = kind[r] => rpc[r] \in UnfannedOut
    BY <1>1, <1>4, RunEffects, FanOutEffects DEF RunEffect, FanOutEffect
  <2> QED
    BY <1>3, <2>1
<1>5. ASSUME NEW t \in Tasks, TaskStep(t)
      PROVE  /\ rpc'[r] \in UnfannedOut => status'[<<r, kind'[r], u, leg>>] = "none"
             /\ kind'[r] = "ENTRY" => status'[<<r, "EXIT", u, leg>>] = "none"
  <2>1. UNCHANGED <<kind, rpc>> /\ rpc[t[1]] = "gather"
    BY <1>1, <1>5, TaskFrame, TaskEffects DEF TaskEffect
  <2>2. \A knd \in Kinds : status'[<<r, knd, u, leg>>] # status[<<r, knd, u, leg>>] =>
          r = t[1] /\ knd = kind[r]
    <3>1. \A knd \in Kinds : <<r, knd, u, leg>> \in Keys
      BY DEF Keys
    <3> QED
      BY <1>1, <1>5, <3>1, TaskWritesRow DEF TaskWrites, Key
  <2>3. kind[r] \in Kinds /\ "EXIT" \in Kinds
    BY <1>1 DEF TypeOK, Kinds
  <2> QED
    BY <1>3, <2>1, <2>2, <2>3 DEF UnfannedOut
<1> QED
  BY <1>4, <1>5, StepKinds

-----------------------------------------------------------------------------
(* What the table says when a fan-out is over.                             *)

\* A step of a task answers for its own execution only: it orders from "order",
\* reaches the other states of a leg from a leg, or as a DRY run's, and does not
\* touch a row that was there before it came.
TaskOrders(t) ==
    /\ \A key \in Keys : sent'[key] >= sent[key]
    /\ \/ UNCHANGED brokerVars
       \/ /\ tpc[t] = "order" /\ Holding(t)' /\ sent'[Key(t)] >= 1
          /\ \A key \in Keys : key # Key(t) => sent'[key] = sent[key]
          /\ acked' \in {acked, acked \cup {Key(t)}}
          /\ filled' \in {filled, filled \cup {Key(t)}}
          /\ UNCHANGED <<todo, status>>
    /\ tpc[t] = "order" => sent'[Key(t)] >= 1
    /\ Live(t[1]) /\ Holding(t)' /\ tpc'[t] # "order" => Holding(t)
    /\ ~Holding(t) /\ status[Key(t)] # "none" => UNCHANGED status

\* Every step of a task does.
LEMMA TaskOrdersTrue ==
    ASSUME TypeOK, TasksInv, NEW t \in Tasks, TaskStep(t)
    PROVE  TaskOrders(t)
<1>1. Holding(t) => Key(t) \in Keys
  BY KeyIn DEF TasksInv
<1>2. TaskEffect(t) /\ UNCHANGED plan
  BY TaskEffects, TaskFrame
<1> USE <1>1
    DEF TypeOK, Holding, LegPcs, TaskOrders, At, Goto, Advance, LoopPc, brokerVars, storeVars
<1>3. CASE ReadAccount(t)
  BY <1>3 DEF ReadAccount
<1>4. CASE Gate(t)
  BY <1>4 DEF Gate
<1>5. CASE RecordExecution(t)
  BY <1>5 DEF RecordExecution, ExecutionExists
<1>6. CASE PlaceOrder(t)
  BY <1>6 DEF PlaceOrder
<1>7. CASE MarkPlaced(t)
  BY <1>7 DEF MarkPlaced, Update
<1>8. CASE MarkRejected(t)
  BY <1>8 DEF MarkRejected, Update
<1>9. CASE MarkDry(t)
  BY <1>9 DEF MarkDry, Update
<1>10. CASE MarkFailed(t)
  BY <1>10 DEF MarkFailed, Update
<1>11. CASE NotifyTrade(t)
  BY <1>11 DEF NotifyTrade, Notify
<1>12. CASE NotifyDry(t)
  BY <1>12 DEF NotifyDry, Notify
<1> QED
  BY <1>3, <1>4, <1>5, <1>6, <1>7, <1>8, <1>9, <1>10, <1>11, <1>12 DEF TaskStep

\* What was answered was posted.
LEMMA PostedStep ==
    ASSUME Inductive, BatchInv, PostedInv, [Next]_vars
    PROVE  PostedInv'
<1>1. TypeOK /\ TasksInv
  BY DEF Inductive
<1>2. CASE OtherStep
  <2>1. UNCHANGED <<plan, sent, acked, filled>>
    BY <1>1, <1>2, RunEffects, FanOutEffects DEF RunEffect, FanOutEffect
  <2>2. \A t \in Tasks : Holding(t)' => Holding(t) /\ tpc'[t] = tpc[t] /\ Key(t)' = Key(t)
    BY <1>1, <1>2, RunEffects, KeySame DEF RunEffect, Holding
  <2> QED
    BY <2>1, <2>2 DEF PostedInv, Ordered, Live
<1>3. ASSUME NEW t \in Tasks, TaskStep(t) PROVE PostedInv'
  <2>1. TaskOrders(t) /\ TaskEffect(t) /\ UNCHANGED plan
    BY <1>1, <1>3, TaskOrdersTrue, TaskEffects, TaskFrame
  <2>2. \A s \in Tasks : s # t => tpc'[s] = tpc[s] /\ Key(s)' = Key(s)
    BY <1>1, <1>3, TaskOthers
  <2>3. \A s \in Tasks : Holding(s) => Key(s) \in Keys
    BY <1>1, KeyIn DEF TasksInv
  <2>4. /\ sent \in [Keys -> Nat] /\ sent' \in [Keys -> Nat]
        /\ acked' \subseteq Keys /\ filled' \subseteq Keys
    BY <1>1, TypeStep DEF TypeOK
  <2>5. \A key \in Keys : Ordered(key) => Ordered(key)'
    BY <2>1, <2>4 DEF TaskOrders, Ordered
  <2>6. \A key \in acked' \cup filled' : Ordered(key)'
    <3>1. \A key \in acked \cup filled : key \in Keys /\ Ordered(key)
      BY <1>1 DEF TypeOK, PostedInv
    <3> QED
      BY <2>1, <2>5, <3>1 DEF TaskOrders, Ordered, brokerVars
  <2>7. Live(t[1]) /\ Holding(t)' /\ tpc'[t] # "order" => sent'[Key(t)] >= 1 /\ Key(t)' = Key(t)
    <3>1. tpc[t] # "order" /\ Live(t[1]) /\ Holding(t) => sent'[Key(t)] >= 1
      BY <2>3, <2>5 DEF PostedInv, Ordered
    <3> QED
      BY <2>1, <3>1 DEF TaskOrders, TaskEffect, Ordered
  <2>8. \A s \in Tasks : Live(s[1])' /\ Holding(s)' /\ tpc'[s] # "order" => Ordered(Key(s))'
    <3>1. SUFFICES ASSUME NEW s \in Tasks, Live(s[1])', Holding(s)', tpc'[s] # "order"
                   PROVE  Ordered(Key(s))'
      OBVIOUS
    <3>2. Live(s[1])
      BY <2>1, <3>1 DEF Live
    <3>3. CASE s = t
      BY <2>7, <3>1, <3>2, <3>3 DEF Ordered
    <3>4. CASE s # t
      <4>1. Holding(s) /\ tpc[s] # "order" /\ Key(s) \in Keys /\ Key(s)' = Key(s)
        BY <2>2, <2>3, <3>1, <3>4 DEF Holding
      <4> QED
        BY <2>5, <3>2, <4>1 DEF PostedInv, Ordered
    <3> QED
      BY <3>3, <3>4
  <2> QED
    BY <2>6, <2>8 DEF PostedInv
<1> QED
  BY <1>2, <1>3, StepKinds

\* What a step of a task of a user whose calls go through leaves in the table: what
\* the broker has answered, when it is done with a leg.
TaskReport(t) ==
    /\ tpc'[t] = "trade" => status'[Key(t)] = "placed"
    /\ tpc'[t] \in {"rejected", "except"} => sent'[Key(t)] >= 1 /\ Key(t) \notin acked'
    /\ Holding(t) /\ ~Holding(t)' =>
         status'[Key(t)] = IF Key(t) \in acked' THEN "placed"
                           ELSE IF sent'[Key(t)] >= 1 THEN "failed" ELSE "dry"
    /\ ~Holding(t) /\ ~Holding(t)' => UNCHANGED status

\* Every such step does.
LEMMA TaskReports ==
    ASSUME Inductive, PostedInv, SettledInv, NEW t \in Tasks, TaskStep(t), Noted(RowUser[t[2]])
    PROVE  TaskReport(t)
<1>1. TypeOK /\ TasksInv /\ OrdersInv /\ PositionsInv
  BY DEF Inductive
<1>2. ~May(t, "db") /\ ~May(t, "notify") /\ ~May(t, "blank")
  BY DEF Noted, May
<1>3. Holding(t) => Key(t) \in Keys /\ Key(t)[1] = t[1]
  BY <1>1, KeyIn DEF TasksInv, Key
<1>4. tpc[t] = "trade" => status[Key(t)] = "placed" /\ Key(t) \in acked
  BY <1>1 DEF SettledInv, PositionsInv
<1>5. tpc[t] \in {"rejected", "except"} => sent[Key(t)] >= 1 /\ Key(t) \notin acked
  BY DEF SettledInv, Ordered
<1>6. tpc[t] \in {"order", "mark"} => sent[Key(t)] = 0
  BY <1>1, <1>3 DEF OrdersInv, PositionsInv, Holding, LegPcs
<1>7. tpc[t] \in {"order", "mark"} => Key(t) \notin acked
  BY <1>6 DEF PostedInv, Ordered
<1> USE <1>1, <1>2, <1>3, <1>4, <1>5, <1>6, <1>7
    DEF TypeOK, StoreTypeOK, Holding, LegPcs, TaskReport, At, Goto, Advance, LoopPc, brokerVars,
        storeVars
<1>8. CASE ReadAccount(t)
  BY <1>8 DEF ReadAccount
<1>9. CASE Gate(t)
  BY <1>9 DEF Gate
<1>10. CASE RecordExecution(t)
  BY <1>10 DEF RecordExecution
<1>11. CASE PlaceOrder(t)
  BY <1>11 DEF PlaceOrder
<1>12. CASE MarkPlaced(t)
  BY <1>12 DEF MarkPlaced, Update, UpdateExecution
<1>13. CASE MarkRejected(t)
  BY <1>13 DEF MarkRejected, Update, UpdateExecution
<1>14. CASE MarkDry(t)
  BY <1>14 DEF MarkDry, Update, UpdateExecution
<1>15. CASE MarkFailed(t)
  BY <1>15 DEF MarkFailed, Update, UpdateExecution
<1>16. CASE NotifyTrade(t)
  BY <1>16 DEF NotifyTrade, Notify
<1>17. CASE NotifyDry(t)
  BY <1>17 DEF NotifyDry, Notify
<1> QED
  BY <1>8, <1>9, <1>10, <1>11, <1>12, <1>13, <1>14, <1>15, <1>16, <1>17 DEF TaskStep

\* A row that nobody is working on says what the broker answered.
LEMMA SettledStep ==
    ASSUME Inductive, BatchInv, PostedInv, SettledInv, [Next]_vars
    PROVE  SettledInv'
<1>1. TypeOK /\ TasksInv
  BY DEF Inductive
<1>2. \A t \in Tasks : Holding(t) => Key(t) \in Keys /\ Key(t)[3] = RowUser[t[2]]
  BY <1>1, KeyIn DEF TasksInv, Key
<1>3. CASE OtherStep
  <2>1. UNCHANGED <<status, sent, acked>>
    BY <1>1, <1>3, RunEffects DEF RunEffect
  <2>2. FanOutEffect
    BY <1>3, FanOutEffects
  <2>3. \A t \in Tasks : Holding(t)' => Holding(t) /\ tpc'[t] = tpc[t] /\ Key(t)' = Key(t)
    BY <1>1, <1>3, RunEffects, KeySame DEF RunEffect, Holding
  <2>4. \A t \in Tasks : Noted(RowUser[t[2]]) =>
          /\ tpc'[t] = "trade" => status'[Key(t)'] = "placed"
          /\ tpc'[t] \in {"rejected", "except"} => sent'[Key(t)'] >= 1 /\ Key(t)' \notin acked'
    BY <2>1, <2>3 DEF SettledInv, Holding, LegPcs, Ordered
  <2>5. ASSUME NEW key \in Keys, Noted(key[3]), status'[key] # "none"
        PROVE  \/ status'[key] = Verdict(key)'
               \/ \E t \in Tasks : Holding(t)' /\ Key(t)' = key
               \/ rpc'[key[1]] = "failed" /\ kind'[key[1]] = key[2]
    <3>1. CASE status[key] = Verdict(key)
      BY <2>1, <3>1 DEF Verdict, Ordered
    <3>2. ASSUME NEW t \in Tasks, Holding(t), Key(t) = key
          PROVE  \/ Holding(t)' /\ Key(t)' = key
                 \/ rpc'[key[1]] = "failed" /\ kind'[key[1]] = key[2]
      <4>1. key[1] = t[1] /\ key[2] = kind[t[1]]
        BY <3>2 DEF Key
      <4>2. tpc[t] # "off"
        BY <3>2 DEF Holding, LegPcs
      <4>3. CASE tpc'[t] = tpc[t] /\ todo'[t] = todo[t] /\ kind'[t[1]] = kind[t[1]]
        BY <3>2, <4>3, KeySame DEF Holding
      <4> QED
        BY <2>2, <3>2, <4>1, <4>2, <4>3 DEF FanOutEffect
    <3>3. CASE rpc[key[1]] = "failed" /\ kind[key[1]] = key[2]
      BY <2>2, <3>3 DEF FanOutEffect, Keys
    <3> QED
      BY <2>1, <2>5, <3>1, <3>2, <3>3 DEF SettledInv
  <2> QED
    BY <2>4, <2>5 DEF SettledInv, Ordered
<1>4. ASSUME NEW t \in Tasks, TaskStep(t) PROVE SettledInv'
  <2>1. TaskEffect(t) /\ TaskOrders(t) /\ TaskWrites(t) /\ UNCHANGED <<rpc, kind>>
    BY <1>1, <1>4, TaskOrdersTrue, TaskEffects, TaskWritesRow, TaskFrame
  <2>2. Noted(RowUser[t[2]]) => TaskReport(t)
    BY <1>4, TaskReports
  <2>3. \A s \in Tasks : s # t => tpc'[s] = tpc[s] /\ Key(s)' = Key(s)
    BY <1>1, <1>4, TaskOthers
  <2>4. ASSUME NEW key \in Keys, key # Key(t)
        PROVE  /\ status'[key] = status[key] /\ sent'[key] = sent[key]
               /\ key \in acked' <=> key \in acked
    BY <2>1, <2>4 DEF TaskWrites, TaskOrders, brokerVars
  <2>5. ~Holding(t) => UNCHANGED <<sent, acked>>
    BY <2>1 DEF TaskOrders, Holding, LegPcs, brokerVars
  <2>6. ASSUME NEW s \in Tasks, s # t, Holding(s), Key(s) = Key(t)
        PROVE  UNCHANGED <<sent, acked>> /\ status'[Key(s)] = status[Key(s)]
    <3>1. ~Holding(t)
      BY <1>1, <2>6 DEF TasksInv
    <3>2. status[Key(s)] # "none" /\ Key(s) \in Keys
      BY <1>1, <1>2, <2>6 DEF TasksInv
    <3> QED
      BY <2>1, <2>5, <2>6, <3>1, <3>2 DEF TaskOrders
  <2>7. ASSUME NEW s \in Tasks, Noted(RowUser[s[2]])
        PROVE  /\ tpc'[s] = "trade" => status'[Key(s)'] = "placed"
               /\ tpc'[s] \in {"rejected", "except"} => sent'[Key(s)'] >= 1 /\ Key(s)' \notin acked'
    <3>1. CASE s = t
      <4>1. tpc'[t] \in {"trade", "rejected", "except"} => Key(t)' = Key(t)
        BY <2>1 DEF TaskEffect, Holding, LegPcs
      <4> QED
        BY <2>2, <2>7, <3>1, <4>1 DEF TaskReport
    <3>2. CASE s # t
      <4>1. tpc'[s] = tpc[s] /\ Key(s)' = Key(s)
        BY <2>3, <3>2
      <4>2. SUFFICES ASSUME tpc[s] \in {"trade", "rejected", "except"}
                     PROVE  /\ status'[Key(s)] = status[Key(s)] /\ sent'[Key(s)] = sent[Key(s)]
                            /\ Key(s) \in acked' <=> Key(s) \in acked
        BY <2>7, <4>1 DEF SettledInv, Ordered
      <4>3. Holding(s) /\ Key(s) \in Keys
        BY <1>2, <4>2 DEF Holding, LegPcs
      <4> QED
        BY <2>4, <2>6, <3>2, <4>3
    <3> QED
      BY <3>1, <3>2
  <2>8. ASSUME NEW key \in Keys, Noted(key[3]), status'[key] # "none"
        PROVE  \/ status'[key] = Verdict(key)'
               \/ \E s \in Tasks : Holding(s)' /\ Key(s)' = key
               \/ rpc'[key[1]] = "failed" /\ kind'[key[1]] = key[2]
    <3>1. ASSUME NEW s \in Tasks, s # t, Holding(s), Key(s) = key
          PROVE  Holding(s)' /\ Key(s)' = key
      BY <2>3, <3>1 DEF Holding
    <3>2. CASE Holding(t)' /\ key = Key(t)
      BY <2>1, <3>2 DEF TaskEffect
    <3>3. CASE Holding(t) /\ ~Holding(t)' /\ key = Key(t)
      BY <1>2, <2>2, <2>8, <3>3 DEF TaskReport, Verdict, Ordered
    <3>4. CASE /\ UNCHANGED <<sent, acked>> /\ status'[key] = status[key]
               /\ Holding(t) => key # Key(t)
      BY <2>1, <2>8, <3>1, <3>4 DEF SettledInv, Verdict, Ordered
    <3>5. CASE key # Key(t)
      BY <2>1, <2>4, <2>8, <3>1, <3>5 DEF SettledInv, Verdict, Ordered
    <3>6. CASE key = Key(t) /\ ~Holding(t) /\ ~Holding(t)'
      <4>1. status'[key] = status[key]
        <5>1. RowUser[t[2]] = key[3]
          BY <3>6 DEF Key
        <5> QED
          BY <2>2, <2>8, <3>6, <5>1 DEF TaskReport
      <4> QED
        BY <2>5, <3>4, <3>6, <4>1
    <3> QED
      BY <3>2, <3>3, <3>5, <3>6
  <2> QED
    BY <2>7, <2>8 DEF SettledInv, Ordered
<1> QED
  BY <1>3, <1>4, StepKinds

-----------------------------------------------------------------------------
(* What the gate leaves for the legs.                                      *)

\* How a step of a task pays: a BUY that is filled was covered, and a LIVE task
\* comes to a leg with what it had still to pay, less at most a leg, or out of
\* the gate, or having paid the leg it was at.
TaskPays(t) ==
    /\ filled' # filled =>
         /\ tpc[t] = "order" /\ todo[t] # {} /\ filled' = filled \cup {Key(t)}
         /\ kind[t[1]] = "ENTRY" => Price[ContractOf(Key(t))] <= Balance(RowUser[t[2]])
    /\ Live(t[1]) /\ (Holding(t)' \/ tpc'[t] = "record") =>
         \/ /\ Holding(t) \/ tpc[t] = "record"
            /\ UNCHANGED filled
            /\ \/ Unpaid(t)' = Unpaid(t)
               \/ \E leg \in Unpaid(t) : Unpaid(t)' = Unpaid(t) \ {leg}
         \/ /\ UNCHANGED filled /\ Unpaid(t)' = todo[t]
            /\ RequiredMargin(t) <= Balance(RowUser[t[2]])
         \/ /\ tpc[t] = "order" /\ todo[t] # {}
            /\ filled' = filled \cup {Key(t)}
            /\ Unpaid(t)' = todo[t] \ {NextLeg(todo[t], kind[t[1]])}

\* Every step of a task does.
LEMMA TaskPaysTrue ==
    ASSUME Inductive, NEW t \in Tasks, TaskStep(t)
    PROVE  TaskPays(t)
<1> DEFINE next == NextLeg(todo[t], kind[t[1]])
<1>1. TypeOK /\ TasksInv /\ PositionsInv
  BY DEF Inductive
<1>2. Holding(t) \/ tpc[t] = "record" => todo[t] # {} /\ next \in todo[t]
  BY <1>1, KeyIn DEF TasksInv
<1>3. UNCHANGED <<plan, kind>> /\ Key(t)[2] = kind[t[1]] /\ Key(t)[3] = RowUser[t[2]]
  BY TaskFrame DEF Key
<1>4. tpc[t] \in {"dry", "mark"} => ~Live(t[1])
  BY <1>1 DEF PositionsInv
<1> HIDE DEF next
<1> USE <1>1, <1>2, <1>3, <1>4
    DEF TypeOK, Holding, LegPcs, TaskPays, Unpaid, At, Goto, Advance, LoopPc, brokerVars, next
<1>5. CASE ReadAccount(t)
  BY <1>5 DEF ReadAccount
<1>6. CASE Gate(t)
  BY <1>6 DEF Gate, CanUserExecute
<1>7. CASE RecordExecution(t)
  BY <1>7 DEF RecordExecution
<1>8. CASE PlaceOrder(t)
  BY <1>8 DEF PlaceOrder
<1>9. CASE MarkPlaced(t)
  BY <1>9 DEF MarkPlaced, Update
<1>10. CASE MarkRejected(t)
  BY <1>10 DEF MarkRejected, Update
<1>11. CASE MarkDry(t)
  BY <1>11 DEF MarkDry, Update
<1>12. CASE MarkFailed(t)
  BY <1>12 DEF MarkFailed, Update
<1>13. CASE NotifyTrade(t)
  BY <1>13 DEF NotifyTrade, Notify
<1>14. CASE NotifyDry(t)
  BY <1>14 DEF NotifyDry, Notify
<1> QED
  BY <1>5, <1>6, <1>7, <1>8, <1>9, <1>10, <1>11, <1>12, <1>13, <1>14 DEF TaskStep

\* What the fill of a step does to the balances.
LEMMA FillMoves ==
    ASSUME Inductive, BatchInv, PostedInv, SolventInv, NEW t \in Tasks, TaskStep(t),
           filled' # filled
    PROVE  /\ Key(t) \in Keys /\ Key(t)[4] \in SignalLegs(t[1]) /\ filled' = filled \cup {Key(t)}
           /\ Price[ContractOf(Key(t))] \in Nat
           /\ \A u \in Users :
                Balance(u)' = Balance(u) + IF RowUser[t[2]] # u THEN 0
                                           ELSE IF kind[t[1]] = "ENTRY"
                                           THEN -Price[ContractOf(Key(t))]
                                           ELSE Price[ContractOf(Key(t))]
<1> DEFINE key == Key(t)
<1>1. TypeOK /\ TasksInv /\ OrdersInv
  BY DEF Inductive
<1>2. tpc[t] = "order" /\ todo[t] # {} /\ filled' = filled \cup {key} /\ UNCHANGED plan
  BY TaskPaysTrue, TaskFrame DEF TaskPays
<1>3. /\ key \in Keys /\ key[1] = t[1] /\ key[2] = kind[t[1]] /\ key[3] = RowUser[t[2]]
      /\ key[4] \in SignalLegs(t[1])
  BY <1>1, <1>2, KeyIn DEF Key, BatchInv
<1>4. key \notin filled
  BY <1>2
<1>5. Price[ContractOf(key)] \in Nat
  BY <1>1, <1>3, MovedInt
<1>6. ASSUME NEW u \in Users
      PROVE  Balance(u)' = Balance(u) + IF key[3] = u THEN Proceeds(key) ELSE 0
  BY <1>1, <1>2, <1>3, <1>4, BalanceAdds DEF SolventInv
<1> HIDE DEF key
<1>7. Proceeds(key) =
        IF kind[t[1]] = "ENTRY" THEN -Price[ContractOf(key)] ELSE Price[ContractOf(key)]
  BY <1>3 DEF Proceeds
<1> QED
  BY <1>2, <1>3, <1>5, <1>6, <1>7 DEF key

\* Nobody is in debt.
LEMMA SolventStep ==
    ASSUME Inductive, BatchInv, PostedInv, SolventInv, [Next]_vars
    PROVE  SolventInv'
<1>1. TypeOK
  BY DEF Inductive
<1>2. ASSUME NEW u \in Users PROVE Balance(u) \in Int /\ Balance(u) >= 0
  BY <1>1, BalanceFacts DEF SolventInv
<1>3. CASE UNCHANGED <<plan, filled>>
  <2>1. ASSUME NEW u \in Users PROVE Balance(u)' = Balance(u)
    BY <1>1, <1>3, BalanceFacts DEF SolventInv
  <2> QED
    BY <1>2, <1>3, <2>1 DEF SolventInv, SignalLegs
<1>4. ASSUME NEW t \in Tasks, TaskStep(t), filled' # filled PROVE SolventInv'
  <2>1. UNCHANGED plan
    BY <1>4, TaskFrame
  <2>2. /\ Key(t)[4] \in SignalLegs(t[1]) /\ filled' = filled \cup {Key(t)}
        /\ Price[ContractOf(Key(t))] \in Nat
        /\ \A u \in Users :
             Balance(u)' = Balance(u) + IF RowUser[t[2]] # u THEN 0
                                        ELSE IF kind[t[1]] = "ENTRY" THEN -Price[ContractOf(Key(t))]
                                        ELSE Price[ContractOf(Key(t))]
    BY <1>4, FillMoves
  <2>3. kind[t[1]] = "ENTRY" => Price[ContractOf(Key(t))] <= Balance(RowUser[t[2]])
    BY <1>4, TaskPaysTrue DEF TaskPays
  <2>4. IsFiniteSet(filled')
    BY <2>2, FS_AddElement DEF SolventInv
  <2>5. \A key \in filled' : key[4] \in SignalLegs(key[1])'
    <3>1. Key(t)[1] = t[1]
      BY DEF Key
    <3> QED
      BY <2>1, <2>2, <3>1 DEF SolventInv, SignalLegs
  <2>6. ASSUME NEW u \in Users PROVE Balance(u)' >= 0
    BY <1>2, <2>2, <2>3
  <2> QED
    BY <2>4, <2>5, <2>6 DEF SolventInv
<1>5. CASE OtherStep
  BY <1>1, <1>3, <1>5, RunEffects, FanOutEffects DEF Inductive, RunEffect, FanOutEffect
<1> QED
  BY <1>3, <1>4, <1>5, StepKinds, TaskFrame

\* Initially everybody has their funds.
LEMMA InitSolvent == Init => SolventInv
<1> SUFFICES ASSUME Init PROVE SolventInv
  OBVIOUS
<1>1. filled = {} /\ IsFiniteSet(filled)
  BY FS_EmptySet DEF Init
<1>2. ASSUME NEW u \in Users PROVE Balance(u) >= 0
  <2>1. Balance(u) = Funds[u] + MovedSum(plan, {key \in filled : key[3] = u})
    BY BalanceIs
  <2>2. {key \in filled : key[3] = u} = {}
    BY <1>1
  <2>3. MovedSum(plan, {}) = Total([key \in {} |-> Moved(plan, key)], {})
    BY FS_EmptySet, MovedTotal
  <2>4. Total([key \in {} |-> Moved(plan, key)], {}) = 0
    BY FS_EmptySet, TotalStep
  <2>5. MovedSum(plan, {}) = 0
    BY <2>3, <2>4
  <2>6. Funds[u] \in Nat
    BY ConstantsAssumption
  <2>7. Balance(u) = Funds[u] + MovedSum(plan, {})
    BY <2>1, <2>2
  <2> QED
    BY <2>5, <2>6, <2>7
<1> QED
  BY <1>1, <1>2 DEF SolventInv

-----------------------------------------------------------------------------
\* The larger invariant is one too.
THEOREM ClosingInvariance == Spec => []ClosingInductive
<1>1. Init => ClosingInductive
  BY InitInductive, InitClosing, InitSolvent DEF ClosingInductive
<1>2. Inductive /\ [Next]_vars => Inductive'
  BY TypeStep, SignalsStep, TasksStep, OrdersStep, FreshStep, PositionsStep DEF Inductive
<1>3. ClosingInductive /\ [Next]_vars => ClosingInductive'
  BY <1>2, RowsStep, BatchStep, PostedStep, SettledStep, SolventStep DEF ClosingInductive
<1> QED
  BY <1>1, <1>3, PTL DEF Spec

\* When a fan-out is over, the table says what the broker answered to every user
\* whose database calls, notifications and answers are in order.
THEOREM TableTrue == Spec => []TableMatchesBroker
<1>1. ClosingInductive => TableMatchesBroker
  <2> SUFFICES ASSUME ClosingInductive, NEW key \in Keys,
                      rpc[key[1]] = "done" \/ kind[key[1]] # key[2],
                      status[key] # "none", Noted(key[3])
               PROVE  status[key] = Verdict(key)
    BY DEF TableMatchesBroker, Noted, Verdict
  <2>1. SettledInv /\ TasksInv
    BY DEF ClosingInductive, Inductive
  <2>2. ASSUME NEW t \in Tasks, Holding(t), Key(t) = key PROVE FALSE
    <3>1. rpc[t[1]] \in {"positions", "gather"}
      BY <2>1, <2>2 DEF TasksInv, Holding, LegPcs
    <3>2. key[1] = t[1] /\ key[2] = kind[t[1]]
      BY <2>2 DEF Key
    <3> QED
      BY <3>1, <3>2
  <2> QED
    BY <2>1, <2>2 DEF SettledInv
<1> QED
  BY ClosingInvariance, <1>1, PTL

-----------------------------------------------------------------------------
(* What the EXIT of a strategy reads and sells.                            *)

\* A leg the broker accepted a strategy's BUY of is among those its EXIT reads as
\* held, for a user whose database calls, notifications and answers are in order: the
\* fan-out of the ENTRY is over, and its rows say what the broker answered.
THEOREM SeenTrue == Spec => []NotedLegsAreSeen
<1>1. ClosingInductive => NotedLegsAreSeen
  <2> SUFFICES ASSUME ClosingInductive, NEW r \in Runs, NEW u \in Users, NEW leg \in Legs,
                      IsStrategy(r), Noted(u), rpc[r] = "positions",
                      <<entry[r], "ENTRY", u, leg>> \in acked
               PROVE  leg \in PlacedLegs(entry[r], u)
    BY DEF NotedLegsAreSeen, Noted
  <2> DEFINE key == <<r, "ENTRY", u, leg>>
  <2>1. TasksInv /\ OrdersInv /\ PositionsInv /\ PostedInv /\ SettledInv
    BY DEF ClosingInductive, Inductive
  <2>2. kind[r] = "EXIT" /\ entry[r] = r
    BY <2>1 DEF PositionsInv
  <2>3. key \in Keys /\ key \in acked
    BY <2>2 DEF Keys, Kinds
  <2>4. sent[key] >= 1
    BY <2>1, <2>3 DEF PostedInv, Ordered
  <2>5. status[key] # "none"
    BY <2>1, <2>3, <2>4 DEF OrdersInv
  <2>6. ASSUME NEW t \in Tasks, Key(t) = key PROVE FALSE
    BY <2>2, <2>6 DEF Key
  <2>7. status[key] = Verdict(key)
    BY <2>1, <2>2, <2>3, <2>5, <2>6 DEF SettledInv
  <2> QED
    BY <2>2, <2>3, <2>7 DEF Verdict, PlacedLegs
<1> QED
  BY ClosingInvariance, <1>1, PTL

\* The exchange fills what the broker accepts, for a user whose orders it fills.
LEMMA FilledStep ==
    ASSUME Inductive, BatchInv, FilledInv, [Next]_vars
    PROVE  FilledInv'
<1>1. CASE OtherStep
  BY <1>1, FanOutEffects, RunEffects DEF Inductive, FilledInv, FanOutEffect, RunEffect
<1>2. ASSUME NEW t \in Tasks, TaskStep(t) PROVE FilledInv'
  <2>1. CASE PlaceOrder(t)
    BY <2>1 DEF PlaceOrder, FilledInv, Key, May
  <2>2. CASE ~PlaceOrder(t)
    <3>1. UNCHANGED brokerVars
      BY <1>2, <2>2 DEF TaskStep, ReadAccount, Gate, RecordExecution, Update, Notify,
                         MarkPlaced, MarkRejected, MarkDry, MarkFailed, NotifyTrade, NotifyDry
    <3> QED
      BY <3>1 DEF brokerVars, FilledInv
  <2> QED
    BY <2>1, <2>2
<1> QED
  BY <1>1, <1>2, StepKinds

\* A strategy sells what its own BUY was filled for: its SELLs rest on BUYs the
\* broker accepted, and those the exchange fills.
THEOREM FillsTrue == Spec => []SellsBackedByFills
<1>1. Init => FilledInv
  BY DEF Init, FilledInv
<1>2. ClosingInductive /\ FilledInv /\ [Next]_vars => FilledInv'
  BY FilledStep DEF ClosingInductive
<1>3. Spec => []FilledInv
  BY ClosingInvariance, <1>1, <1>2, PTL DEF Spec
<1>4. Inductive /\ FilledInv => SellsBackedByFills
  <2> SUFFICES ASSUME Inductive, FilledInv, NEW r \in Runs, NEW u \in Users, NEW leg \in Legs,
                      IsStrategy(r), "fill" \notin UserFaults[u],
                      Ordered(<<r, "EXIT", u, leg>>)
               PROVE  <<r, "ENTRY", u, leg>> \in filled
    BY DEF SellsBackedByFills
  <2> DEFINE buy == <<r, "ENTRY", u, leg>>
             sell == <<r, "EXIT", u, leg>>
  <2>1. buy \in Keys /\ sell \in Keys
    BY DEF Keys, Kinds
  <2>2. OrdersInv /\ PositionsInv
    BY DEF Inductive
  <2>3. entry[r] = r /\ r # NoRun
    BY <2>2, ConstantsAssumption DEF PositionsInv, SellsBackedByBuys
  <2>4. Live(r)
    <3>1. sent[sell] # 0
      BY DEF Ordered
    <3> QED
      BY <2>1, <2>2, <3>1 DEF OrdersInv
  <2>5. buy \in acked
    BY <2>2, <2>3, <2>4 DEF PositionsInv, SellsBackedByBuys
  <2> QED
    BY <2>5 DEF FilledInv
<1> QED
  BY Invariance, <1>3, <1>4, PTL

-----------------------------------------------------------------------------
\* Where users are subscribed once, two tasks of a run are of different users.
LEMMA OneTaskEach ==
    ASSUME SubscribedOnce, BatchInv, NEW s \in Tasks, NEW t \in Tasks,
           tpc[s] # "off", tpc[t] # "off", s[1] = t[1], RowUser[s[2]] = RowUser[t[2]]
    PROVE  s = t
<1>1. /\ RowStrategy[s[2]] = StrategyOf[plan[s[1]].slot]
      /\ RowStrategy[t[2]] = StrategyOf[plan[t[1]].slot]
  BY DEF BatchInv, Tasks
<1>2. s[2] = t[2]
  BY <1>1 DEF SubscribedOnce, Tasks
<1> QED
  BY <1>2 DEF Tasks

\* Where a user is subscribed once, a task keeps what it has to pay, unless another
\* run buys.
LEMMA FundsStep ==
    ASSUME SubscribedOnce, ClosingInductive, ClosingInductive', FundsInv, [Next]_vars
    PROVE  FundsInv'
<1> DEFINE Buys(t) == Live(t[1]) /\ kind[t[1]] = "ENTRY" /\ (Holding(t) \/ tpc[t] = "record")
<1>1. Inductive /\ BatchInv /\ PostedInv /\ SolventInv /\ TypeOK /\ TasksInv /\ PositionsInv
  BY DEF ClosingInductive, Inductive
<1>2. \A t \in Tasks : t[1] \in Runs /\ RowUser[t[2]] \in Users
  BY ConstantsAssumption DEF Tasks
<1>3. \A u \in Users : Balance(u) \in Int /\ Balance(u) >= 0 /\ Balance(u)' >= 0
  BY <1>1, BalanceFacts DEF ClosingInductive, SolventInv
<1>4. UNCHANGED plan /\ \A r \in Runs : Live(r)' <=> Live(r)
  <2>1. UNCHANGED plan
    BY <1>1, RunEffects, StepKinds, TaskFrame DEF RunEffect
  <2> QED
    BY <2>1 DEF Live
<1>5. CASE OtherStep
  <2>1. UNCHANGED <<plan, filled>>
    BY <1>1, <1>4, <1>5, FanOutEffects DEF FanOutEffect
  <2>2. \A u \in Users : Balance(u)' = Balance(u)
    BY <1>1, <2>1, BalanceFacts DEF SolventInv
  <2>3. ASSUME NEW t \in Tasks, Buys(t)' PROVE Buys(t) /\ Unpaid(t)' = Unpaid(t)
    <3>1. tpc'[t] = tpc[t] /\ todo'[t] = todo[t] /\ kind'[t[1]] = kind[t[1]]
      BY <1>1, <1>5, <2>3, RunEffects DEF RunEffect, Holding
    <3> QED
      BY <1>2, <1>4, <2>3, <3>1 DEF Unpaid, Holding
  <2> HIDE DEF Buys
  <2>4. ASSUME NEW t \in Tasks, Buys(t)', ~BuysElsewhere(t[1], RowUser[t[2]])'
        PROVE  Margin(plan[t[1]], Unpaid(t))' <= Balance(RowUser[t[2]])'
    <3>1. Margin(plan[t[1]], Unpaid(t))' = Margin(plan[t[1]], Unpaid(t))
      BY <2>1, <2>3, <2>4
    <3>2. Margin(plan[t[1]], Unpaid(t)) <= Balance(RowUser[t[2]])
      BY <2>1, <2>3, <2>4 DEF FundsInv, Buys, BuysElsewhere
    <3> QED
      BY <1>2, <2>2, <3>1, <3>2
  <2> QED
    BY <2>4 DEF FundsInv, Buys
<1>6. ASSUME NEW t \in Tasks, TaskStep(t) PROVE FundsInv'
  <2> DEFINE u == RowUser[t[2]]
             next == NextLeg(todo[t], kind[t[1]])
             price == Price[ContractOf(Key(t))]
             M(legs) == Margin(plan[t[1]], legs)
  <2>1. UNCHANGED <<plan, kind, rpc>> /\ TaskPays(t)
    BY <1>1, <1>6, TaskFrame, TaskPaysTrue
  <2>2. UNCHANGED filled => \A w \in Users : Balance(w)' = Balance(w)
    BY <1>1, <2>1, BalanceFacts DEF SolventInv
  <2>3. filled' # filled =>
          /\ price \in Nat
          /\ \A w \in Users :
               Balance(w)' = Balance(w) + IF u # w THEN 0
                                          ELSE IF kind[t[1]] = "ENTRY" THEN -price ELSE price
    BY <1>1, <1>6, FillMoves
  <2> HIDE DEF price
  <2>3a. \A w \in Users : Balance(w)' \in Int
    BY <1>3, <2>2, <2>3
  <2> USE DEF price
  <2>3b. ASSUME NEW s \in Tasks, ~BuysElsewhere(s[1], RowUser[s[2]])'
         PROVE  /\ ~BuysElsewhere(s[1], RowUser[s[2]])
                /\ filled' # filled /\ RowUser[s[2]] = u /\ kind[t[1]] = "ENTRY" => t[1] = s[1]
    <3>1. UNCHANGED filled \/ filled' = filled \cup {Key(t)}
      BY <1>1, <1>6, FillMoves
    <3>2. Key(t)[1] = t[1] /\ Key(t)[2] = kind[t[1]] /\ Key(t)[3] = u
      BY DEF Key
    <3> QED
      BY <2>3b, <3>1, <3>2 DEF BuysElsewhere
  <2>4. ASSUME NEW s \in Tasks, s # t, Buys(s)', ~BuysElsewhere(s[1], RowUser[s[2]])'
        PROVE  Margin(plan[s[1]], Unpaid(s))' <= Balance(RowUser[s[2]])'
    <3>1. tpc'[s] = tpc[s] /\ todo'[s] = todo[s]
      BY <1>1, <1>6, <2>4, TaskOthers
    <3>2. Buys(s) /\ tpc[s] # "off"
      BY <1>2, <1>4, <2>1, <2>4, <3>1 DEF Holding, LegPcs
    <3>3. Margin(plan[s[1]], Unpaid(s))' = Margin(plan[s[1]], Unpaid(s))
      BY <2>1, <3>1 DEF Unpaid
    <3>4. Margin(plan[s[1]], Unpaid(s)) <= Balance(RowUser[s[2]])
      BY <2>3b, <2>4, <3>2 DEF FundsInv
    <3>5. Margin(plan[s[1]], Unpaid(s)) \in Int
      <4>1. Unpaid(s) \in SUBSET SignalLegs(s[1])
        BY <1>1 DEF BatchInv, Unpaid
      <4> QED
        BY <1>1, <1>2, <4>1, MarginNat
    <3>6. filled' # filled /\ RowUser[s[2]] = u => kind[t[1]] # "ENTRY"
      <4>1. filled' # filled => tpc[t] # "off"
        BY <2>1 DEF TaskPays
      <4> QED
        BY <1>1, <2>3b, <2>4, <3>2, <4>1, OneTaskEach
    <3>7. Balance(RowUser[s[2]]) \in Int /\ Balance(RowUser[s[2]])' \in Int
      BY <1>2, <1>3, <2>3a
    <3>8. Balance(RowUser[s[2]])' >= Balance(RowUser[s[2]])
      <4> HIDE DEF price, u
      <4> QED
        BY <1>2, <1>3, <2>2, <2>3, <3>6, <3>7
    <3> HIDE DEF u, price, M, next, Buys
    <3> QED
      BY <3>3, <3>4, <3>5, <3>7, <3>8
  <2>5. ASSUME Buys(t)', ~BuysElsewhere(t[1], u)' PROVE M(Unpaid(t)') <= Balance(u)'
    <3>1. Live(t[1]) /\ kind[t[1]] = "ENTRY" /\ (Holding(t)' \/ tpc'[t] = "record")
      BY <1>2, <1>4, <2>1, <2>5
    <3>2. Balance(u) \in Int /\ Balance(u)' \in Int /\ Balance(u)' >= 0
      BY <1>2, <1>3, <2>3a
    <3>3. todo[t] \in SUBSET SignalLegs(t[1]) /\ Unpaid(t) \in SUBSET SignalLegs(t[1])
      BY <1>1 DEF BatchInv, Unpaid
    <3>4. Holding(t) \/ tpc[t] = "record" => M(Unpaid(t)) <= Balance(u)
      BY <2>3b, <2>5, <3>1 DEF FundsInv
    <3>5. M(Unpaid(t)) \in Int /\ M(todo[t]) \in Int
      BY <1>1, <1>2, <3>3, MarginNat
    <3>6. CASE /\ Holding(t) \/ tpc[t] = "record"
               /\ UNCHANGED filled
               /\ Unpaid(t)' = Unpaid(t)
      BY <1>2, <2>2, <3>4, <3>6
    <3>7. ASSUME NEW leg \in Unpaid(t), Holding(t) \/ tpc[t] = "record", UNCHANGED filled,
                 Unpaid(t)' = Unpaid(t) \ {leg}
          PROVE  M(Unpaid(t)') <= Balance(u)'
      <4>1. /\ Unpaid(t) \in SUBSET SignalLegs(t[1])
            /\ Unpaid(t) \ {leg} \in SUBSET SignalLegs(t[1])
        BY <3>3
      <4>2. M(Unpaid(t) \ {leg}) \in Nat
        BY <1>1, <1>2, <4>1, MarginNat
      <4>3. M(Unpaid(t) \ {leg}) <= M(Unpaid(t))
        <5>1. leg \in Unpaid(t) /\ t[1] \in Runs
          BY <1>2, <3>7
        <5>2. /\ Price[plan[t[1]].contract[leg]] \in Nat
              /\ Margin(plan[t[1]], Unpaid(t)) =
                   Margin(plan[t[1]], Unpaid(t) \ {leg})
                       + IF plan[t[1]].quoted THEN Price[plan[t[1]].contract[leg]] ELSE 0
          BY <1>1, <4>1, <5>1, MarginTakes
        <5> QED
          BY <4>2, <5>2
      <4> QED
        BY <1>2, <2>2, <3>2, <3>4, <3>5, <3>7, <4>2, <4>3
    <3>8. CASE UNCHANGED filled /\ Unpaid(t)' = todo[t] /\ RequiredMargin(t) <= Balance(u)
      BY <1>2, <2>2, <3>8, MarginIs
    <3>9. CASE /\ tpc[t] = "order" /\ todo[t] # {} /\ filled' = filled \cup {Key(t)}
               /\ Unpaid(t)' = todo[t] \ {next}
      <4>1. next \in todo[t] /\ Key(t) \in Keys
        BY <1>1, <3>9, KeyIn
      <4>2. sent[Key(t)] = 0
        BY <1>1, <3>9 DEF Inductive, OrdersInv
      <4>3. Key(t) \notin filled
        BY <1>1, <4>2 DEF PostedInv, Ordered
      <4>4. price \in Nat /\ Balance(u)' = Balance(u) - price
        <5>1. filled' # filled
          BY <3>9, <4>3
        <5>2. price \in Nat /\ Balance(u)' = Balance(u) + -price
          BY <1>2, <2>3, <3>1, <5>1
        <5> HIDE DEF price, u
        <5> QED
          BY <3>2, <5>2
      <4>5. Unpaid(t) = todo[t] /\ Holding(t)
        BY <3>9 DEF Unpaid, Holding, LegPcs
      <4>6. /\ M(todo[t] \ {next}) \in Int
            /\ M(todo[t]) = M(todo[t] \ {next}) + IF plan[t[1]].quoted THEN price ELSE 0
        <5>1. price = Price[plan[t[1]].contract[next]]
          BY DEF ContractOf, Key
        <5>2. todo[t] \ {next} \in SUBSET SignalLegs(t[1])
          BY <3>3
        <5> HIDE DEF next, price
        <5>3. M(todo[t] \ {next}) \in Nat
          BY <1>1, <1>2, <5>2, MarginNat
        <5>4. M(todo[t]) = M(todo[t] \ {next})
                             + IF plan[t[1]].quoted THEN Price[plan[t[1]].contract[next]] ELSE 0
          BY <1>1, <1>2, <3>3, <4>1, MarginTakes
        <5> QED
          BY <5>1, <5>3, <5>4
      <4>7. CASE plan[t[1]].quoted
        <5> HIDE DEF price, u, M, next
        <5>1. M(todo[t]) <= Balance(u) /\ M(todo[t]) = M(todo[t] \ {next}) + price
          BY <3>4, <4>5, <4>6, <4>7
        <5> QED
          BY <3>2, <3>9, <4>4, <4>6, <5>1
      <4>8. CASE ~plan[t[1]].quoted
        <5>1. M(todo[t] \ {next}) = 0
          BY <4>8 DEF Margin
        <5> HIDE DEF price, u, M, next
        <5> QED
          BY <3>2, <3>9, <5>1
      <4> QED
        BY <4>7, <4>8
    <3> HIDE DEF u, M, price, Buys
    <3> QED
      BY <2>1, <3>1, <3>6, <3>7, <3>8, <3>9 DEF TaskPays, u, next
  <2>6. ASSUME NEW s \in Tasks, Buys(s)', ~BuysElsewhere(s[1], RowUser[s[2]])'
        PROVE  Margin(plan[s[1]], Unpaid(s))' <= Balance(RowUser[s[2]])'
    BY <2>1, <2>4, <2>5, <2>6
  <2> QED
    BY <2>6 DEF FundsInv
<1> QED
  BY <1>5, <1>6, StepKinds

-----------------------------------------------------------------------------
(* The order of the legs.                                                  *)

\* How a task goes on to the next leg: past its own when it is through with it, or
\* past one it finds a row of.
TaskPasses(t) ==
    LET next == NextLeg(todo[t], kind[t[1]]) IN
    /\ todo'[t] \in {todo[t], todo[t] \ {next}}
    /\ todo'[t] # todo[t] =>
         \/ Holding(t) /\ tpc[t] # "order"
         \/ tpc[t] = "record" /\ status[Key(t)] # "none"
    /\ Holding(t)' => todo'[t] = todo[t]
    /\ Holding(t) /\ ~Holding(t)' => todo'[t] = todo[t] \ {next} \/ tpc'[t] = "over"
    /\ ~Holding(t) /\ ~Holding(t)' /\ tpc'[t] # "over" => UNCHANGED status
    /\ tpc'[t] # "over" => tpc[t] # "over"

\* Every step of a task does.
LEMMA TaskPassesTrue ==
    ASSUME TypeOK, TasksInv, NEW t \in Tasks, TaskStep(t)
    PROVE  TaskPasses(t)
<1> DEFINE next == NextLeg(todo[t], kind[t[1]])
<1> HIDE DEF next
<1> USE DEF TypeOK, Holding, LegPcs, TaskPasses, At, Goto, Advance, LoopPc, storeVars, next
<1>1. CASE ReadAccount(t)
  BY <1>1 DEF ReadAccount
<1>2. CASE Gate(t)
  BY <1>2 DEF Gate
<1>3. CASE RecordExecution(t)
  BY <1>3 DEF RecordExecution, ExecutionExists
<1>4. CASE PlaceOrder(t)
  BY <1>4 DEF PlaceOrder
<1>5. CASE MarkPlaced(t)
  BY <1>5 DEF MarkPlaced, Update
<1>6. CASE MarkRejected(t)
  BY <1>6 DEF MarkRejected, Update
<1>7. CASE MarkDry(t)
  BY <1>7 DEF MarkDry, Update
<1>8. CASE MarkFailed(t)
  BY <1>8 DEF MarkFailed, Update
<1>9. CASE NotifyTrade(t)
  BY <1>9 DEF NotifyTrade, Notify
<1>10. CASE NotifyDry(t)
  BY <1>10 DEF NotifyDry, Notify
<1> QED
  BY <1>1, <1>2, <1>3, <1>4, <1>5, <1>6, <1>7, <1>8, <1>9, <1>10 DEF TaskStep

\* The keys of a task's legs.
LEMMA KeyOfFacts ==
    ASSUME TypeOK, NEW t \in Tasks
    PROVE  /\ t[1] \in Runs /\ RowUser[t[2]] \in Users /\ kind[t[1]] \in Kinds
           /\ todo[t] \in SUBSET Legs /\ StartLegs(t) \in SUBSET Legs
           /\ \A leg \in Legs : KeyOf(t, leg) \in Keys
           /\ Key(t) = KeyOf(t, NextLeg(todo[t], kind[t[1]]))
<1>1. t[1] \in Runs /\ RowUser[t[2]] \in Users
  BY ConstantsAssumption DEF Tasks
<1>2. kind[t[1]] \in Kinds /\ todo[t] \in SUBSET Legs
  BY <1>1 DEF TypeOK
<1>3. StartLegs(t) \in SUBSET Legs
  BY <1>1, PlanFacts DEF StartLegs
<1> QED
  BY <1>1, <1>2, <1>3 DEF KeyOf, Keys, Key

\* A step of a task leaves alone what its own run, or another, started with.
LEMMA StartLegsKept ==
    ASSUME Inductive, NEW t \in Tasks, TaskStep(t), NEW s \in Tasks
    PROVE  StartLegs(s)' = StartLegs(s)
<1>1. TypeOK /\ TasksInv
  BY DEF Inductive
<1>2. UNCHANGED <<plan, kind>> /\ TaskWrites(t)
  BY <1>1, TaskFrame, TaskWritesRow
<1>3. s[1] \in Runs /\ RowUser[s[2]] \in Users /\ kind[s[1]] \in Kinds
  BY <1>1, KeyOfFacts
<1>4. ASSUME kind[s[1]] # "ENTRY", NEW leg \in Legs
      PROVE  status'[<<s[1], "ENTRY", RowUser[s[2]], leg>>]
                = status[<<s[1], "ENTRY", RowUser[s[2]], leg>>]
  <2>1. <<s[1], "ENTRY", RowUser[s[2]], leg>> \in Keys
    BY <1>3 DEF Keys, Kinds
  <2>2. <<s[1], "ENTRY", RowUser[s[2]], leg>> # Key(t)
    BY <1>4 DEF Key
  <2> QED
    BY <1>2, <2>1, <2>2 DEF TaskWrites
<1> QED
  BY <1>2, <1>4 DEF StartLegs, PlacedLegs, SignalLegs

\* Where users are subscribed once, nobody else works on the legs of a task.
LEMMA LegsStep ==
    ASSUME SubscribedOnce, ClosingInductive, LegsInv, [Next]_vars
    PROVE  LegsInv'
<1>1. Inductive /\ TypeOK /\ TasksInv /\ RowsInv /\ BatchInv /\ PostedInv
  BY DEF ClosingInductive, Inductive
<1>2. UNCHANGED plan
  BY <1>1, RunEffects, StepKinds, TaskFrame DEF RunEffect
<1>3. SUFFICES ASSUME NEW t \in Tasks, IsStrategy(t[1]), tpc'[t] # "off"
               PROVE  /\ tpc'[t] # "over" =>
                           \A leg \in todo'[t] :
                              ~(Holding(t)' /\ leg = NextLeg(todo'[t], kind'[t[1]])) =>
                                  status'[KeyOf(t, leg)'] = "none"
                      /\ Live(t[1]) =>
                           \A leg \in StartLegs(t)' \ todo'[t] : sent'[KeyOf(t, leg)'] >= 1
  BY <1>2 DEF LegsInv, IsStrategy, Live, Ordered
<1>4. /\ t[1] \in Runs /\ RowUser[t[2]] \in Users /\ kind[t[1]] \in Kinds
      /\ todo[t] \in SUBSET Legs /\ StartLegs(t) \in SUBSET Legs
      /\ \A leg \in Legs : KeyOf(t, leg) \in Keys
      /\ Key(t) = KeyOf(t, NextLeg(todo[t], kind[t[1]]))
  BY <1>1, KeyOfFacts
<1>5. ASSUME tpc[t] # "off"
      PROVE  /\ tpc[t] # "over" =>
                  \A leg \in todo[t] :
                     ~(Holding(t) /\ leg = NextLeg(todo[t], kind[t[1]])) =>
                         status[KeyOf(t, leg)] = "none"
             /\ Live(t[1]) => \A leg \in StartLegs(t) \ todo[t] : sent[KeyOf(t, leg)] >= 1
  BY <1>3, <1>5 DEF LegsInv, Ordered
<1>6. CASE OtherStep
  <2>1. UNCHANGED <<plan, status, sent>> /\ FanOutEffect
    BY <1>1, <1>6, RunEffects, FanOutEffects DEF RunEffect
  <2>2. kind'[t[1]] = kind[t[1]]
    BY <1>3, <2>1 DEF FanOutEffect
  <2>3. StartLegs(t)' = StartLegs(t) /\ \A leg \in Legs : KeyOf(t, leg)' = KeyOf(t, leg)
    BY <2>1, <2>2 DEF StartLegs, PlacedLegs, SignalLegs, KeyOf
  <2>4. CASE tpc'[t] = tpc[t] /\ todo'[t] = todo[t]
    BY <1>3, <1>4, <1>5, <2>1, <2>2, <2>3, <2>4 DEF Holding
  <2>5. CASE /\ tpc'[t] \in {"account", "over"} /\ rpc[t[1]] \in UnfannedOut
             /\ todo'[t] = StartLegs(t)
    <3>1. \A leg \in Legs : status[KeyOf(t, leg)] = "none"
      BY <1>1, <1>4, <2>5 DEF RowsInv, KeyOf
    <3> QED
      BY <1>4, <2>1, <2>3, <2>5, <3>1
  <2> QED
    BY <1>3, <2>1, <2>4, <2>5 DEF FanOutEffect
<1>7. ASSUME NEW s \in Tasks, TaskStep(s)
      PROVE  /\ tpc'[t] # "over" =>
                  \A leg \in todo'[t] :
                     ~(Holding(t)' /\ leg = NextLeg(todo'[t], kind'[t[1]])) =>
                         status'[KeyOf(t, leg)'] = "none"
             /\ Live(t[1]) => \A leg \in StartLegs(t)' \ todo'[t] : sent'[KeyOf(t, leg)'] >= 1
  <2>1. UNCHANGED kind /\ TaskWrites(s) /\ TaskOrders(s) /\ TaskPasses(s) /\ tpc[s] # "off"
    BY <1>1, <1>7, TaskFrame, TaskWritesRow, TaskOrdersTrue, TaskPassesTrue, TaskAnswersTrue
    DEF Inductive, TaskAnswers
  <2>2. StartLegs(t)' = StartLegs(t) /\ \A leg \in Legs : KeyOf(t, leg)' = KeyOf(t, leg)
    BY <1>1, <1>7, <2>1, StartLegsKept DEF KeyOf
  <2>3. sent \in [Keys -> Nat] /\ sent' \in [Keys -> Nat]
    BY <1>1, TypeStep DEF TypeOK
  <2>4. \A leg \in Legs : sent[KeyOf(t, leg)] >= 1 => sent'[KeyOf(t, leg)] >= 1
    BY <1>4, <2>1, <2>3 DEF TaskOrders
  <2>5. CASE s # t
    <3>1. tpc'[t] = tpc[t] /\ todo'[t] = todo[t]
      BY <1>1, <1>7, <2>5, TaskOthers
    <3>2. \A leg \in Legs : KeyOf(t, leg) # Key(s)
      <4>1. t[1] # s[1] \/ RowUser[t[2]] # RowUser[s[2]]
        BY <1>1, <1>3, <2>1, <2>5, <3>1, OneTaskEach
      <4> QED
        BY <4>1 DEF KeyOf, Key
    <3>3. \A leg \in Legs : status'[KeyOf(t, leg)] = status[KeyOf(t, leg)]
      BY <1>4, <2>1, <3>2 DEF TaskWrites
    <3> QED
      BY <1>3, <1>4, <1>5, <2>1, <2>2, <2>4, <3>1, <3>3 DEF Holding
  <2>6. CASE s = t
    <3> DEFINE next == NextLeg(todo[t], kind[t[1]])
    <3>1. /\ todo'[t] \in {todo[t], todo[t] \ {next}}
          /\ todo'[t] # todo[t] =>
               \/ Holding(t) /\ tpc[t] # "order"
               \/ tpc[t] = "record" /\ status[Key(t)] # "none"
          /\ Holding(t)' => todo'[t] = todo[t]
          /\ Holding(t) /\ ~Holding(t)' => todo'[t] = todo[t] \ {next} \/ tpc'[t] = "over"
          /\ ~Holding(t) /\ ~Holding(t)' /\ tpc'[t] # "over" => UNCHANGED status
          /\ tpc'[t] # "over" => tpc[t] # "over"
          /\ tpc[t] # "off"
      BY <2>1, <2>6 DEF TaskPasses
    <3>2. Key(t) = KeyOf(t, next) /\ \A leg \in Legs : leg # next => KeyOf(t, leg) # Key(t)
      BY <1>4 DEF KeyOf
    <3> HIDE DEF next
    <3>3. \A leg \in Legs : leg # next => status'[KeyOf(t, leg)] = status[KeyOf(t, leg)]
      BY <1>4, <2>1, <2>6, <3>2 DEF TaskWrites
    <3>4. ASSUME tpc'[t] # "over", NEW leg \in todo'[t],
                 ~(Holding(t)' /\ leg = NextLeg(todo'[t], kind'[t[1]]))
          PROVE  status'[KeyOf(t, leg)] = "none"
      <4>1. leg \in todo[t] /\ leg \in Legs
        BY <1>4, <3>1, <3>4
      <4>2. CASE Holding(t)'
        <5>1. leg # next
          BY <2>1, <3>1, <3>4, <4>2 DEF next
        <5> QED
          BY <1>5, <3>1, <3>3, <3>4, <4>1, <5>1 DEF next
      <4>3. CASE ~Holding(t)' /\ todo'[t] = todo[t] \ {next}
        <5>1. leg # next
          BY <3>4, <4>3
        <5> QED
          BY <1>5, <3>1, <3>3, <3>4, <4>1, <5>1 DEF next
      <4>4. CASE ~Holding(t)' /\ ~Holding(t)
        BY <1>5, <3>1, <3>4, <4>1, <4>4
      <4> QED
        BY <3>1, <3>4, <4>2, <4>3, <4>4
    <3>5. ASSUME Live(t[1]), NEW leg \in StartLegs(t) \ todo'[t]
          PROVE  sent'[KeyOf(t, leg)] >= 1
      <4>1. leg \in Legs
        BY <1>4, <3>5
      <4>2. CASE leg \notin todo[t]
        BY <1>5, <2>4, <3>1, <3>5, <4>1, <4>2
      <4>3. CASE leg \in todo[t]
        <5>1. leg = next /\ todo'[t] # todo[t]
          BY <3>1, <3>5, <4>3
        <5>2. CASE Holding(t) /\ tpc[t] # "order"
          <6>1. sent[KeyOf(t, next)] >= 1
            BY <1>1, <3>2, <3>5, <5>2 DEF PostedInv, Ordered
          <6> QED
            BY <2>4, <4>1, <5>1, <6>1
        <5>3. CASE tpc[t] = "record" /\ status[Key(t)] # "none"
          BY <1>5, <3>2, <4>3, <5>1, <5>3 DEF Holding, LegPcs
        <5> QED
          BY <3>1, <5>1, <5>2, <5>3
      <4> QED
        BY <4>2, <4>3
    <3>6. \A leg \in todo'[t] \cup StartLegs(t) : KeyOf(t, leg)' = KeyOf(t, leg)
      BY <1>4, <2>2, <3>1
    <3> QED
      BY <2>2, <3>4, <3>5, <3>6
  <2> QED
    BY <2>5, <2>6
<1> QED
  BY <1>6, <1>7, StepKinds

\* The legs of a strategy go out in the order of the list.
LEMMA LegOrderStep ==
    ASSUME SubscribedOnce, ClosingInductive, LegsInv, LegOrder, [Next]_vars
    PROVE  LegOrder'
<1>1. Inductive /\ TypeOK /\ TasksInv /\ FreshInv /\ OrdersInv
  BY DEF ClosingInductive, Inductive
<1>2. BatchInv
  BY DEF ClosingInductive
<1>3. CASE OtherStep
  BY <1>1, <1>3, RunEffects DEF RunEffect, LegOrder, Ordered, IsStrategy, SignalLegs, PlacedLegs
<1>4. ASSUME NEW t \in Tasks, TaskStep(t) PROVE LegOrder'
  <2> DEFINE next == NextLeg(todo[t], kind[t[1]])
  <2>1. UNCHANGED <<plan, kind>> /\ TaskWrites(t) /\ TaskOrders(t)
    BY <1>1, <1>4, TaskFrame, TaskWritesRow, TaskOrdersTrue
  <2>2. sent \in [Keys -> Nat] /\ sent' \in [Keys -> Nat]
    BY <1>1, TypeStep DEF TypeOK
  <2>3. SUFFICES ASSUME NEW r \in Runs, NEW u \in Users,
                        IsStrategy(r), {"PE", "FUT"} \subseteq SignalLegs(r)
                 PROVE  /\ Ordered(<<r, "ENTRY", u, "FUT">>)' => Ordered(<<r, "ENTRY", u, "PE">>)'
                        /\ Ordered(<<r, "EXIT", u, "PE">>)' /\ "FUT" \in PlacedLegs(r, u)'
                             => Ordered(<<r, "EXIT", u, "FUT">>)'
    BY <2>1 DEF LegOrder, IsStrategy, SignalLegs
  <2>4. /\ Ordered(<<r, "ENTRY", u, "FUT">>) => Ordered(<<r, "ENTRY", u, "PE">>)
        /\ Ordered(<<r, "EXIT", u, "PE">>) /\ "FUT" \in PlacedLegs(r, u)
             => Ordered(<<r, "EXIT", u, "FUT">>)
    BY <2>3 DEF LegOrder
  <2>5. \A knd \in Kinds, leg \in Legs : <<r, knd, u, leg>> \in Keys
    BY DEF Keys
  <2>6. \A knd \in Kinds, leg \in Legs : Ordered(<<r, knd, u, leg>>) => Ordered(<<r, knd, u, leg>>)'
    BY <2>1, <2>2, <2>5 DEF TaskOrders, Ordered
  <2>7. ASSUME NEW knd \in Kinds, NEW leg \in Legs,
               ~Ordered(<<r, knd, u, leg>>), Ordered(<<r, knd, u, leg>>)'
        PROVE  /\ t[1] = r /\ kind[r] = knd /\ RowUser[t[2]] = u /\ next = leg
               /\ leg \in todo[t]
               /\ \A other \in todo[t] : LegRank(knd)[leg] <= LegRank(knd)[other]
               /\ \A other \in StartLegs(t) \ todo[t] : Ordered(<<r, knd, u, other>>)
    <3>1. tpc[t] = "order" /\ <<r, knd, u, leg>> = Key(t)
      BY <2>1, <2>5, <2>7 DEF TaskWrites, Ordered
    <3>2. t[1] = r /\ kind[r] = knd /\ RowUser[t[2]] = u /\ next = leg
      BY <3>1 DEF Key
    <3>3. todo[t] # {} /\ todo[t] \in SUBSET Legs /\ Live(t[1])
      BY <1>1, <3>1, KeyOfFacts DEF TasksInv, OrdersInv, Holding, LegPcs
    <3>4. leg \in todo[t] /\ \A other \in todo[t] : LegRank(knd)[leg] <= LegRank(knd)[other]
      BY <3>2, <3>3, NextLegIn
    <3>5. \A other \in StartLegs(t) \ todo[t] : Ordered(KeyOf(t, other))
      BY <2>3, <3>1, <3>2, <3>3 DEF LegsInv
    <3> QED
      BY <3>2, <3>4, <3>5 DEF KeyOf
  <2>8. Ordered(<<r, "ENTRY", u, "FUT">>)' => Ordered(<<r, "ENTRY", u, "PE">>)'
    <3>1. CASE Ordered(<<r, "ENTRY", u, "FUT">>)
      BY <2>4, <2>6, <3>1 DEF Kinds, Legs
    <3>2. ASSUME ~Ordered(<<r, "ENTRY", u, "FUT">>), Ordered(<<r, "ENTRY", u, "FUT">>)'
          PROVE  Ordered(<<r, "ENTRY", u, "PE">>)'
      <4>1. /\ t[1] = r /\ kind[r] = "ENTRY"
            /\ \A other \in todo[t] : LegRank("ENTRY")["FUT"] <= LegRank("ENTRY")[other]
            /\ \A other \in StartLegs(t) \ todo[t] : Ordered(<<r, "ENTRY", u, other>>)
        BY <2>7, <3>2 DEF Kinds, Legs
      <4>2. "PE" \notin todo[t]
        BY <4>1 DEF LegRank
      <4>3. "PE" \in StartLegs(t)
        BY <2>3, <4>1 DEF StartLegs
      <4>4. Ordered(<<r, "ENTRY", u, "PE">>)
        BY <4>1, <4>2, <4>3
      <4> QED
        BY <2>6, <4>4 DEF Kinds, Legs
    <3> QED
      BY <3>1, <3>2
  <2>9. ASSUME Ordered(<<r, "EXIT", u, "PE">>)', "FUT" \in PlacedLegs(r, u)'
        PROVE  Ordered(<<r, "EXIT", u, "FUT">>)'
    <3>1. kind[r] # "ENTRY"
      <4>1. CASE kind[r] = "ENTRY"
        <5>1. sent[<<r, "EXIT", u, "PE">>] = 0
          BY <1>1, <4>1 DEF FreshInv, Legs
        <5>2. ~Ordered(<<r, "EXIT", u, "PE">>)
          BY <5>1 DEF Ordered
        <5> QED
          BY <2>7, <2>9, <4>1, <5>2 DEF Kinds, Legs
      <4> QED
        BY <4>1
    <3>2. "FUT" \in PlacedLegs(r, u)
      <4>1. <<r, "ENTRY", u, "FUT">> # Key(t)
        BY <3>1 DEF Key
      <4>2. status'[<<r, "ENTRY", u, "FUT">>] = status[<<r, "ENTRY", u, "FUT">>]
        BY <2>1, <2>5, <4>1 DEF TaskWrites, Kinds, Legs
      <4> QED
        BY <2>9, <4>2 DEF PlacedLegs
    <3>3. CASE Ordered(<<r, "EXIT", u, "PE">>)
      BY <2>4, <2>6, <3>2, <3>3 DEF Kinds, Legs
    <3>4. CASE ~Ordered(<<r, "EXIT", u, "PE">>)
      <4>1. /\ t[1] = r /\ kind[r] = "EXIT" /\ RowUser[t[2]] = u
            /\ \A other \in todo[t] : LegRank("EXIT")["PE"] <= LegRank("EXIT")[other]
            /\ \A other \in StartLegs(t) \ todo[t] : Ordered(<<r, "EXIT", u, other>>)
        BY <2>7, <2>9, <3>4 DEF Kinds, Legs
      <4>2. "FUT" \notin todo[t]
        BY <4>1 DEF LegRank
      <4>3. "FUT" \in StartLegs(t)
        BY <2>3, <3>2, <4>1 DEF StartLegs
      <4>4. Ordered(<<r, "EXIT", u, "FUT">>)
        BY <4>1, <4>2, <4>3
      <4> QED
        BY <2>6, <4>4 DEF Kinds, Legs
    <3> QED
      BY <3>3, <3>4
  <2> QED
    BY <2>8, <2>9
<1> QED
  BY <1>3, <1>4, StepKinds

\* Where users are subscribed once to a strategy, its put goes out before its
\* future on ENTRY, and on EXIT the future before the put.
THEOREM LegsInOrder ==
    ASSUME SubscribedOnce
    PROVE  Spec => []LegOrder
<1>1. Init => LegsInv /\ LegOrder
  <2> SUFFICES ASSUME Init PROVE LegsInv /\ LegOrder
    OBVIOUS
  <2>1. \A t \in Tasks : tpc[t] = "off"
    BY DEF Init
  <2>2. \A r \in Runs, u \in Users, knd \in Kinds, leg \in Legs : ~Ordered(<<r, knd, u, leg>>)
    BY DEF Init, Ordered, Keys
  <2>3. LegOrder
    BY <2>2 DEF LegOrder, Kinds, Legs
  <2> QED
    BY <2>1, <2>3 DEF LegsInv
<1>2. ClosingInductive /\ LegsInv /\ LegOrder /\ [Next]_vars => LegsInv' /\ LegOrder'
  BY LegsStep, LegOrderStep
<1> QED
  BY <1>1, <1>2, ClosingInvariance, PTL DEF Spec

-----------------------------------------------------------------------------
(* What the gate promises of the broker's answers.                         *)

\* A BUY the balance covers is accepted, unless the broker rejects it at will or
\* its answer is lost.
LEMMA CoveredIsAccepted ==
    ASSUME NEW t \in Tasks, PlaceOrder(t), ~May(t, "reject"), ~May(t, "timeout"),
           Price[ContractOf(Key(t))] <= Balance(Key(t)[3])
    PROVE  Key(t) \in acked'
BY DEF PlaceOrder

\* A task of an ENTRY with prices can pay the leg it is about to post, as long as no
\* other run has bought.
LEMMA GatedIsCovered ==
    ASSUME ClosingInductive, FundsInv, NEW t \in Tasks, At(t, "order"),
           kind[t[1]] = "ENTRY", plan[t[1]].quoted, ~BuysElsewhere(t[1], RowUser[t[2]])
    PROVE  Price[ContractOf(Key(t))] <= Balance(Key(t)[3])
<1> DEFINE r == t[1]
           u == RowUser[t[2]]
           next == NextLeg(todo[t], kind[r])
           price == Price[plan[r].contract[next]]
           rest == todo[t] \ {next}
<1>1. TypeOK /\ TasksInv /\ OrdersInv /\ BatchInv /\ SolventInv
  BY DEF ClosingInductive, Inductive
<1>2. r \in Runs /\ u \in Users /\ tpc[t] = "order"
  BY ConstantsAssumption DEF Tasks, At
<1>3. todo[t] # {} /\ next \in todo[t]
  BY <1>1, <1>2, KeyIn DEF TasksInv, Holding, LegPcs
<1>4. todo[t] \in SUBSET SignalLegs(r) /\ rest \in SUBSET SignalLegs(r)
  BY <1>1 DEF BatchInv
<1>5. ContractOf(Key(t)) = plan[r].contract[next] /\ Key(t)[3] = u
  BY DEF ContractOf, Key
<1>6. Live(r) /\ Holding(t) /\ Unpaid(t) = todo[t]
  BY <1>1, <1>2 DEF OrdersInv, Holding, LegPcs, Unpaid
<1>7. Margin(plan[r], todo[t]) <= Balance(u)
  BY <1>6 DEF FundsInv
<1>8. Balance(u) \in Int
  BY <1>1, <1>2, BalanceFacts DEF SolventInv
<1> HIDE DEF next
<1>9. price \in Nat /\ Margin(plan[r], todo[t]) = Margin(plan[r], rest) + price
  BY <1>1, <1>2, <1>3, <1>4, MarginTakes
<1>10. Margin(plan[r], rest) \in Nat
  BY <1>1, <1>2, <1>4, MarginNat
<1> HIDE DEF r, u, price, rest
<1>11. price <= Balance(u)
  BY <1>7, <1>8, <1>9, <1>10
<1> QED
  BY <1>5, <1>11 DEF price

\* Every step keeps the accepted legs accepted, and posts none that is not, unless
\* another run has bought.
LEMMA AcceptedStep ==
    ASSUME ClosingInductive, FundsInv, GatedLegsAreAccepted, [Next]_vars
    PROVE  GatedLegsAreAccepted'
<1>1. TypeOK /\ TasksInv /\ OrdersInv
  BY DEF ClosingInductive, Inductive
<1>2. CASE OtherStep
  <2>1. UNCHANGED <<plan, sent, acked, filled>>
    BY <1>1, <1>2, RunEffects, FanOutEffects DEF RunEffect, FanOutEffect, ClosingInductive,
                                                 Inductive
  <2> QED
    BY <2>1 DEF GatedLegsAreAccepted, Gated, BuysElsewhere, Ordered
<1>3. ASSUME NEW t \in Tasks, TaskStep(t) PROVE GatedLegsAreAccepted'
  <2>1. TaskOrders(t) /\ UNCHANGED plan
    BY <1>1, <1>3, TaskOrdersTrue, TaskFrame
  <2>2. CASE UNCHANGED brokerVars
    BY <2>1, <2>2 DEF brokerVars, GatedLegsAreAccepted, Gated, BuysElsewhere, Ordered
  <2>3. CASE ~UNCHANGED brokerVars
    <3>1. PlaceOrder(t)
      BY <1>3, <2>3 DEF TaskStep, ReadAccount, Gate, RecordExecution, Update, Notify,
                        MarkPlaced, MarkRejected, MarkDry, MarkFailed, NotifyTrade, NotifyDry
    <3> SUFFICES ASSUME NEW r \in Runs, NEW u \in Users, NEW leg \in Legs,
                        plan[r].quoted, UserFaults[u] \cap {"reject", "timeout"} = {},
                        sent'[<<r, "ENTRY", u, leg>>] >= 1, ~BuysElsewhere(r, u)'
                 PROVE  <<r, "ENTRY", u, leg>> \in acked'
      BY <2>1 DEF GatedLegsAreAccepted, Gated, Ordered
    <3> DEFINE key == <<r, "ENTRY", u, leg>>
    <3>2. key \in Keys
      BY DEF Keys, Kinds
    <3>2a. ~BuysElsewhere(r, u)
      BY <3>1 DEF PlaceOrder, BuysElsewhere
    <3>3. CASE key # Key(t)
      BY <2>1, <2>3, <3>2, <3>2a, <3>3 DEF TaskOrders, GatedLegsAreAccepted, Gated, Ordered
    <3>4. CASE key = Key(t)
      <4>1. r = t[1] /\ kind[t[1]] = "ENTRY" /\ u = RowUser[t[2]]
        BY <3>4 DEF Key
      <4>2. Price[ContractOf(Key(t))] <= Balance(Key(t)[3])
        BY <3>1, <3>2a, <4>1, GatedIsCovered DEF PlaceOrder
      <4>3. ~May(t, "reject") /\ ~May(t, "timeout")
        BY <4>1 DEF May
      <4> QED
        BY <3>1, <3>4, <4>2, <4>3, CoveredIsAccepted
    <3> QED
      BY <3>3, <3>4
  <2> QED
    BY <2>2, <2>3
<1> QED
  BY <1>2, <1>3, StepKinds

\* Where users are subscribed once to a strategy, but to as many as they like, one
\* comparison with the balance does for all the legs, unless another run buys for
\* the user.
THEOREM GatedAccepted ==
    ASSUME SubscribedOnce
    PROVE  Spec => []GatedLegsAreAccepted
<1>1. Init => FundsInv /\ GatedLegsAreAccepted
  <2>1. Init => FundsInv
    BY DEF Init, FundsInv, Holding, LegPcs, Tasks
  <2>2. Init => GatedLegsAreAccepted
    BY DEF Init, GatedLegsAreAccepted, Ordered, Keys, Kinds
  <2> QED
    BY <2>1, <2>2
<1>2. /\ ClosingInductive /\ ClosingInductive' /\ FundsInv /\ GatedLegsAreAccepted
      /\ [Next]_vars
      => FundsInv' /\ GatedLegsAreAccepted'
  BY FundsStep, AcceptedStep
<1> QED
  BY <1>1, <1>2, ClosingInvariance, PTL DEF Spec

\* What the order of the legs and the gate give together: where users are
\* subscribed once, a future goes out only with its put, unless another run buys.
THEOREM PutsHedge ==
    ASSUME SubscribedOnce
    PROVE  Spec => []HedgedByThePut
<1>1. LegOrder /\ GatedLegsAreAccepted => HedgedByThePut
  BY DEF LegOrder, GatedLegsAreAccepted, HedgedByThePut, Legs
<1> QED
  BY <1>1, LegsInOrder, GatedAccepted, PTL

=============================================================================
