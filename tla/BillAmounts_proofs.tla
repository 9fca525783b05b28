-------------------------- MODULE BillAmounts_proofs --------------------------
(***************************************************************************)
(* Proofs about the amounts of a bill, for every tax rate and any finite   *)
(* number of order items with any prices.                                  *)
(*                                                                         *)
(* A subtotal is a sum over a set, which is a recursive function.  What it *)
(* computes is shown by induction over the subsets of a finite set, in the *)
(* form of a smallest counterexample (Smallest).                           *)
(***************************************************************************)
EXTENDS BillAmounts, FiniteSetTheorems, WellFoundedInduction, TLAPS

-----------------------------------------------------------------------------
(* Sums over finite sets *)

Chosen(s) == CHOOSE l \in s : TRUE

Plus(w, g, s) == IF s = {} THEN 0 ELSE w[Chosen(s)] + g[s \ {Chosen(s)}]

\* g gives for every subset of S the sum of its elements' weights.
Sums(w, g, S) == g = [s \in SUBSET S |-> Plus(w, g, s)]

PartialSums(w, S) == CHOOSE g : Sums(w, g, S)

SumOver(w, S) == PartialSums(w, S)[S]

LEMMA OrdersSubtotalIsSum == \A S : OrdersSubtotal(S) = SumOver(total, S)
  BY DEF OrdersSubtotal, MapThenSumSet, MapThenFoldSet, SumOver, PartialSums, Sums, Plus, Chosen

LEMMA ItemsSubtotalIsSum == ItemsSubtotal = SumOver(item, Billed)
  BY DEF ItemsSubtotal, MapThenSumSet, MapThenFoldSet, SumOver, PartialSums, Sums, Plus, Chosen

LEMMA ChosenIn ==
  ASSUME NEW S, S # {}
  PROVE  Chosen(S) \in S
  BY DEF Chosen

LEMMA Smallest ==
  ASSUME NEW S, IsFiniteSet(S), NEW C, C \subseteq SUBSET S, C # {}
  PROVE  \E s \in C : \A t \in SUBSET s : t # s => t \notin C
  <1>1. IsWellFoundedOn(StrictSubsetOrdering(S), SUBSET S)
    BY FS_StrictSubsetOrderingWellFounded, FS_FiniteSubsetsOfFinite
  <1>2. PICK s \in C : \A t \in C : <<t, s>> \notin StrictSubsetOrdering(S)
    BY <1>1, WFMin
  <1>3. ASSUME NEW t \in SUBSET s, t # s, t \in C
        PROVE  FALSE
    <2>1. <<t, s>> \in (SUBSET S) \X (SUBSET S)
      BY <1>3
    <2>2. <<t, s>> \in StrictSubsetOrdering(S)
      BY <1>3, <2>1 DEF StrictSubsetOrdering
    <2>3. QED
      BY <1>2, <1>3, <2>2
  <1>4. QED
    BY <1>3

LEMMA SumsAt ==
  ASSUME NEW w, NEW g, NEW S, Sums(w, g, S), NEW s \in SUBSET S
  PROVE  g[s] = Plus(w, g, s)
  BY DEF Sums

LEMMA SumsUnique ==
  ASSUME NEW w, NEW g, NEW h, NEW S, IsFiniteSet(S), Sums(w, g, S), Sums(w, h, S)
  PROVE  g = h
  <1> DEFINE C == {s \in SUBSET S : g[s] # h[s]}
  <1>0. C \subseteq SUBSET S
    OBVIOUS
  <1> HIDE DEF C
  <1>1. CASE C = {}
    <2>1. \A s \in SUBSET S : g[s] = h[s]
      BY <1>1 DEF C
    <2>2. g = [s \in SUBSET S |-> g[s]] /\ h = [s \in SUBSET S |-> h[s]]
      BY DEF Sums
    <2>3. [s \in SUBSET S |-> g[s]] = [s \in SUBSET S |-> h[s]]
      BY <2>1
    <2>4. QED
      BY <2>2, <2>3
  <1>2. CASE C # {}
    <2>1. PICK s \in C : \A t \in SUBSET s : t # s => t \notin C
      BY <1>0, <1>2, Smallest
    <2>2. s \in SUBSET S /\ g[s] # h[s]
      BY DEF C
    <2>7. g[s] = Plus(w, g, s) /\ h[s] = Plus(w, h, s)
      BY <2>2, SumsAt
    <2>3. s # {}
      BY <2>2, <2>7 DEF Plus
    <2> DEFINE t == s \ {Chosen(s)}
    <2>4. t \in SUBSET s /\ t # s /\ t \in SUBSET S
      BY <2>2, <2>3, ChosenIn
    <2>5. g[t] = h[t]
      BY <2>1, <2>4 DEF C
    <2>6. QED
      BY <2>2, <2>3, <2>5, <2>7 DEF Plus
  <1>3. QED
    BY <1>1, <1>2

LEMMA SumsRestricted ==
  ASSUME NEW w, NEW g, NEW S, Sums(w, g, S), NEW T \in SUBSET S
  PROVE  Sums(w, [s \in SUBSET T |-> g[s]], T)
  <1> DEFINE h == [s \in SUBSET T |-> g[s]]
  <1>1. ASSUME NEW s \in SUBSET T
        PROVE  g[s] = Plus(w, h, s)
    <2>1. g[s] = Plus(w, g, s)
      BY SumsAt
    <2>2. s \ {Chosen(s)} \in SUBSET T
      OBVIOUS
    <2>3. h[s \ {Chosen(s)}] = g[s \ {Chosen(s)}]
      BY <2>2
    <2>4. QED
      BY <2>1, <2>3 DEF Plus
  <1>2. h = [s \in SUBSET T |-> Plus(w, h, s)]
    BY <1>1
  <1>3. QED
    BY <1>2 DEF Sums

\* Where a sum function of S exists the one of a subset agrees with it.
LEMMA PartialSumsAgree ==
  ASSUME NEW w, NEW S, IsFiniteSet(S), \E g : Sums(w, g, S), NEW T \in SUBSET S
  PROVE  /\ Sums(w, PartialSums(w, S), S)
         /\ Sums(w, PartialSums(w, T), T)
         /\ PartialSums(w, S)[T] = SumOver(w, T)
  <1> DEFINE g == PartialSums(w, S)
             h == [s \in SUBSET T |-> g[s]]
  <1>1. Sums(w, g, S)
    BY DEF PartialSums
  <1> HIDE DEF g
  <1>2. Sums(w, h, T)
    BY <1>1, SumsRestricted
  <1>3. Sums(w, PartialSums(w, T), T)
    BY <1>2 DEF PartialSums
  <1>4. IsFiniteSet(T)
    BY FS_Subset
  <1>5. PartialSums(w, T) = h
    BY <1>2, <1>3, <1>4, SumsUnique
  <1>6. SumOver(w, T) = g[T]
    BY <1>5 DEF SumOver
  <1>7. QED
    BY <1>1, <1>3, <1>6 DEF g

LEMMA SumsExist ==
  ASSUME NEW w, NEW S, IsFiniteSet(S)
  PROVE  \E g : Sums(w, g, S)
  <1> DEFINE C == {s \in SUBSET S : ~\E g : Sums(w, g, s)}
  <1>1. SUFFICES ASSUME C # {}
                 PROVE  FALSE
    BY S \in SUBSET S
  <1>8. C \subseteq SUBSET S
    OBVIOUS
  <1> HIDE DEF C
  <1>2. PICK T \in C : \A t \in SUBSET T : t # T => t \notin C
    BY <1>1, <1>8, Smallest
  <1>3. \A t \in SUBSET T : IsFiniteSet(t) /\ (t # T => \E g : Sums(w, g, t))
    BY <1>2, <1>8, FS_Subset DEF C
  <1> DEFINE X == T \ {Chosen(T)}
             g == [s \in SUBSET T |->
                      IF s # T THEN SumOver(w, s)
                      ELSE IF T = {} THEN 0 ELSE w[Chosen(T)] + SumOver(w, X)]
  <1>4. ASSUME NEW s \in SUBSET T
        PROVE  g[s] = Plus(w, g, s)
    <2> DEFINE t == s \ {Chosen(s)}
    <2>1. t \in SUBSET s /\ t \in SUBSET T /\ (s # {} => t # s /\ t # T)
      BY ChosenIn
    <2>2. CASE s = T
      <3>1. s # {} => g[t] = SumOver(w, X)
        BY <2>1, <2>2
      <3>2. QED
        BY <2>2, <3>1 DEF Plus
    <2>3. CASE s # T
      <3>1. g[s] = SumOver(w, s) /\ (s # {} => g[t] = SumOver(w, t))
        BY <2>1, <2>3
      <3>2. /\ Sums(w, PartialSums(w, s), s)
            /\ PartialSums(w, s)[t] = SumOver(w, t)
        BY <1>3, <2>1, <2>3, PartialSumsAgree
      <3>3. PartialSums(w, s)[s] = Plus(w, PartialSums(w, s), s)
        BY <3>2, SumsAt
      <3>4. SumOver(w, s) = Plus(w, PartialSums(w, s), s)
        BY <3>3 DEF SumOver
      <3>5. QED
        BY <3>1, <3>2, <3>4 DEF Plus
    <2>4. QED
      BY <2>2, <2>3
  <1>5. g = [s \in SUBSET T |-> Plus(w, g, s)]
    BY <1>4
  <1>6. \E f : Sums(w, f, T)
    BY <1>5 DEF Sums
  <1>7. QED
    BY <1>2, <1>6 DEF C

\* The recursion equation.
LEMMA SumRecursion ==
  ASSUME NEW w, NEW S, IsFiniteSet(S)
  PROVE  SumOver(w, S) = IF S = {} THEN 0
                         ELSE w[Chosen(S)] + SumOver(w, S \ {Chosen(S)})
  <1> DEFINE T == S \ {Chosen(S)}
  <1>1. T \in SUBSET S
    OBVIOUS
  <1>2. /\ Sums(w, PartialSums(w, S), S)
        /\ PartialSums(w, S)[T] = SumOver(w, T)
    BY <1>1, SumsExist, PartialSumsAgree
  <1>3. PartialSums(w, S)[S] = Plus(w, PartialSums(w, S), S)
    BY <1>2, SumsAt
  <1>4. QED
    BY <1>2, <1>3 DEF SumOver, Plus

\* The sum does not depend on the order in which it is formed.
LEMMA SumWithout ==
  ASSUME NEW w, NEW S, IsFiniteSet(S), \A l \in S : w[l] \in Nat
  PROVE  /\ SumOver(w, S) \in Nat
         /\ \A x \in S : SumOver(w, S) = w[x] + SumOver(w, S \ {x})
  <1> DEFINE P(s) == /\ SumOver(w, s) \in Nat
                     /\ \A x \in s : SumOver(w, s) = w[x] + SumOver(w, s \ {x})
             C == {s \in SUBSET S : ~P(s)}
  <1>1. SUFFICES ASSUME C # {}
                 PROVE  FALSE
    BY S \in SUBSET S
  <1>2. C \subseteq SUBSET S
    OBVIOUS
  <1>3. PICK T \in C : \A t \in SUBSET T : t # T => t \notin C
    <2> HIDE DEF C
    <2>1. QED
      BY <1>1, <1>2, Smallest
  <1>4. \A t \in SUBSET T : t # T => P(t)
    BY <1>2, <1>3
  <1>5. IsFiniteSet(T) /\ T \in SUBSET S
    BY <1>2, FS_Subset
  <1>6. CASE T = {}
    <2>1. SumOver(w, T) = 0
      BY <1>5, <1>6, SumRecursion
    <2>2. QED
      BY <1>6, <2>1
  <1>7. CASE T # {}
    <2> DEFINE c == Chosen(T)
    <2>1. c \in T /\ c \in S /\ w[c] \in Nat
      BY <1>5, <1>7, ChosenIn
    <2>2. SumOver(w, T) = w[c] + SumOver(w, T \ {c})
      BY <1>5, <1>7, SumRecursion
    <2>3. SumOver(w, T \ {c}) \in Nat
      BY <1>4, <2>1
    <2> HIDE DEF c
    <2>4. ASSUME NEW x \in T, x # c
          PROVE  SumOver(w, T) = w[x] + SumOver(w, T \ {x})
      <3> DEFINE rest == SumOver(w, T \ {c, x})
      <3>1. T \ {c, x} = (T \ {c}) \ {x} /\ T \ {c, x} = (T \ {x}) \ {c}
        OBVIOUS
      <3>2. SumOver(w, T \ {c}) = w[x] + rest
        BY <1>4, <2>1, <2>4, <3>1
      <3>3. SumOver(w, T \ {x}) = w[c] + rest
        BY <1>4, <2>1, <2>4, <3>1
      <3>4. rest \in Nat
        BY <1>4, <2>1
      <3>5. w[x] \in Nat
        BY <1>5, <2>4
      <3> HIDE DEF rest
      <3>6. QED
        BY <2>1, <2>2, <3>2, <3>3, <3>4, <3>5
    <2>5. P(T)
      BY <2>1, <2>2, <2>3, <2>4
    <2>6. QED
      BY <2>5
  <1>8. QED
    BY <1>6, <1>7

LEMMA SumEmpty == ASSUME NEW w PROVE SumOver(w, {}) = 0
  BY SumRecursion, FS_EmptySet

\* What is added to a set adds its own sum.
LEMMA SumOfUnion ==
  ASSUME NEW w, NEW A, IsFiniteSet(A), \A l \in A : w[l] \in Nat,
         NEW B, IsFiniteSet(B), \A l \in B : w[l] \in Nat, A \cap B = {}
  PROVE  SumOver(w, A \cup B) = SumOver(w, A) + SumOver(w, B)
  <1> DEFINE P(s) == SumOver(w, A \cup s) = SumOver(w, A) + SumOver(w, s)
             C == {s \in SUBSET B : ~P(s)}
  <1>1. SUFFICES ASSUME C # {}
                 PROVE  FALSE
    BY B \in SUBSET B
  <1>2. C \subseteq SUBSET B
    OBVIOUS
  <1>3. PICK T \in C : \A t \in SUBSET T : t # T => t \notin C
    <2> HIDE DEF C
    <2>1. QED
      BY <1>1, <1>2, Smallest
  <1>4. /\ T \in SUBSET B /\ IsFiniteSet(T) /\ IsFiniteSet(A \cup T)
        /\ \A l \in A \cup T : w[l] \in Nat
    BY <1>2, FS_Subset, FS_Union
  <1>5. SumOver(w, A) \in Nat
    BY SumWithout
  <1>6. CASE T = {}
    BY <1>5, <1>6, SumEmpty, A \cup {} = A
  <1>7. CASE T # {}
    <2>1. PICK x \in T : TRUE
      BY <1>7
    <2> DEFINE t == T \ {x}
    <2>2. t \in SUBSET T /\ t # T /\ t \in SUBSET B /\ (A \cup T) \ {x} = A \cup t
      BY <1>4
    <2>3. P(t)
      BY <1>3, <2>2
    <2>4. SumOver(w, T) = w[x] + SumOver(w, t)
      BY <1>4, SumWithout
    <2>5. SumOver(w, A \cup T) = w[x] + SumOver(w, A \cup t)
      BY <1>4, <2>2, SumWithout
    <2>6. IsFiniteSet(t) /\ \A l \in t : w[l] \in Nat
      BY <1>4, FS_Subset
    <2>7. SumOver(w, t) \in Nat /\ w[x] \in Nat
      BY <1>4, <2>6, SumWithout
    <2> HIDE DEF t
    <2>8. P(T)
      BY <1>5, <2>3, <2>4, <2>5, <2>7
    <2>9. QED
      BY <2>8
  <1>8. QED
    BY <1>6, <1>7

\* Sums of equal weights are equal.
LEMMA SumCongruence ==
  ASSUME NEW v, NEW w, NEW S, IsFiniteSet(S), \A l \in S : v[l] = w[l]
  PROVE  SumOver(v, S) = SumOver(w, S)
  <1> DEFINE P(s) == SumOver(v, s) = SumOver(w, s)
             C == {s \in SUBSET S : ~P(s)}
  <1>1. SUFFICES ASSUME C # {}
                 PROVE  FALSE
    BY S \in SUBSET S
  <1>2. C \subseteq SUBSET S
    OBVIOUS
  <1>3. PICK T \in C : \A t \in SUBSET T : t # T => t \notin C
    <2> HIDE DEF C
    <2>1. QED
      BY <1>1, <1>2, Smallest
  <1>4. T \in SUBSET S /\ IsFiniteSet(T)
    BY <1>2, FS_Subset
  <1>5. CASE T = {}
    <2>1. P(T)
      BY <1>5, SumEmpty
    <2>2. QED
      BY <2>1
  <1>6. CASE T # {}
    <2> DEFINE c == Chosen(T)
               t == T \ {c}
    <2>1. c \in T /\ v[c] = w[c]
      BY <1>4, <1>6, ChosenIn
    <2>2. t \in SUBSET T /\ t # T /\ t \in SUBSET S
      BY <1>4, <2>1
    <2>3. P(t)
      BY <1>3, <2>2
    <2>4. SumOver(v, T) = v[c] + SumOver(v, t) /\ SumOver(w, T) = w[c] + SumOver(w, t)
      BY <1>4, <1>6, SumRecursion
    <2> HIDE DEF c, t
    <2>5. P(T)
      BY <2>1, <2>3, <2>4
    <2>6. QED
      BY <2>5
  <1>7. QED
    BY <1>5, <1>6

-----------------------------------------------------------------------------
(* Rounding *)

\* Rounding moves an amount by half a cent at most (Decimal.quantize as
\* generate_or_get_bill uses it).
LEMMA QuantizeNear ==
    ASSUME NEW n \in Nat
    PROVE  /\ Quantize(n) \in Nat
           /\ 2 * (Unit * Quantize(n) - n) <= Unit
           /\ 2 * (n - Unit * Quantize(n)) <= Unit
  <1> DEFINE q == n \div Unit
             r == n % Unit
  <1>1. q \in Nat /\ r \in 0..(Unit - 1) /\ n = Unit * q + r
    BY SMT DEF Unit
  <1>2. CASE Quantize(n) = q /\ 2 * r <= Unit
    BY <1>1, <1>2, SMT DEF Unit
  <1>3. CASE Quantize(n) = q + 1 /\ 2 * r >= Unit
    BY <1>1, <1>3, SMT DEF Unit
  <1>4. (Quantize(n) = q /\ 2 * r <= Unit) \/ (Quantize(n) = q + 1 /\ 2 * r >= Unit)
    BY <1>1, SMT DEF Quantize, Unit
  <1> QED
    BY <1>2, <1>3, <1>4

\* A larger amount is never rounded to a smaller one.
LEMMA QuantizeMonotone ==
    ASSUME NEW m \in Nat, NEW n \in Nat, m <= n
    PROVE  Quantize(m) <= Quantize(n)
  BY SMT DEF Quantize, Unit

\* The tax of any subtotal is within half a cent of the exact tax, whatever
\* the rate (generate_or_get_bill).
THEOREM TaxNear ==
    ASSUME NEW s \in Nat
    PROVE  /\ Tax(s) \in Nat
           /\ 2 * (Unit * Tax(s) - s * TaxRate) <= Unit
           /\ 2 * (s * TaxRate - Unit * Tax(s)) <= Unit
  <1>1. s * TaxRate \in Nat
    BY AmountsAssumption, SMT
  <1> QED
    BY <1>1, QuantizeNear DEF Tax

\* A bill with a larger subtotal has a larger grand total: syncing served
\* items into a bill never makes it cheaper (generate_or_get_bill).
THEOREM GrandTotalMonotone ==
    ASSUME NEW s \in Nat, NEW t \in Nat, s <= t
    PROVE  Amounts(s).grand <= Amounts(t).grand
  <1>1. s * TaxRate \in Nat /\ t * TaxRate \in Nat /\ s * TaxRate <= t * TaxRate
    BY AmountsAssumption, SMT
  <1>2. Tax(s) \in Nat /\ Tax(t) \in Nat
    BY TaxNear
  <1>3. Tax(s) <= Tax(t)
    BY <1>1, QuantizeMonotone DEF Tax
  <1> QED
    BY <1>2, <1>3, SMT DEF Amounts

-----------------------------------------------------------------------------
(* The inductive invariant *)

\* The amounts are those of the lines on the bill, or, while a sync adds to
\* the bill, those of the lines that were on it before.
Charged ==
    \E S \in SUBSET Billed :
        /\ amounts = Amounts(OrdersSubtotal(S))
        /\ stage # "adding" => S = Billed

Inv ==
    /\ total \in [Line -> LineTotal]
    /\ served \subseteq Line
    /\ \A l \in Line : item[l] \in {NoItem, total[l]}
    /\ Billed \subseteq served
    /\ stage = "no bill" => Billed = {}
    /\ Charged

\* Some lines of the session cost what they cost.
LEMMA SubtotalType ==
    ASSUME total \in [Line -> LineTotal]
    PROVE  \A S \in SUBSET Line : OrdersSubtotal(S) \in Nat
  <1> SUFFICES ASSUME NEW S \in SUBSET Line
               PROVE  OrdersSubtotal(S) \in Nat
    OBVIOUS
  <1>1. IsFiniteSet(S) /\ \A l \in S : total[l] \in Nat
    BY AmountsAssumption, FS_Subset
  <1>2. SumOver(total, S) \in Nat
    BY <1>1, SumWithout
  <1>3. QED
    BY <1>2, OrdersSubtotalIsSum

\* More lines cost no less.
LEMMA SubtotalGrows ==
    ASSUME total \in [Line -> LineTotal], NEW T \in SUBSET Line, NEW S \in SUBSET T
    PROVE  OrdersSubtotal(S) <= OrdersSubtotal(T)
  <1> DEFINE new == T \ S
  <1>1. \A l \in Line : total[l] \in Nat
    BY AmountsAssumption
  <1>2. IsFiniteSet(S) /\ IsFiniteSet(new) /\ new \in SUBSET Line /\ S \in SUBSET Line
    BY AmountsAssumption, FS_Subset
  <1>3. SumOver(total, S \cup new) = SumOver(total, S) + SumOver(total, new)
    BY <1>1, <1>2, SumOfUnion
  <1>4. S \cup new = T
    OBVIOUS
  <1>5. OrdersSubtotal(T) = OrdersSubtotal(S) + OrdersSubtotal(new)
    BY <1>3, <1>4, OrdersSubtotalIsSum
  <1>6. OrdersSubtotal(S) \in Nat /\ OrdersSubtotal(new) \in Nat
    BY <1>2, SubtotalType
  <1> HIDE DEF new
  <1>7. QED
    BY <1>5, <1>6

\* The sync branch sums the copies and gets what the create branch would get
\* from the orders.
LEMMA CopiesCostTheSame ==
    ASSUME Inv
    PROVE  ItemsSubtotal = OrdersSubtotal(Billed)
  <1>1. \A l \in Billed : item[l] = total[l]
    BY DEF Inv, Billed
  <1>2. IsFiniteSet(Billed)
    BY AmountsAssumption, FS_Subset DEF Billed
  <1>3. SumOver(item, Billed) = SumOver(total, Billed)
    BY <1>1, <1>2, SumCongruence
  <1>4. QED
    BY <1>3, ItemsSubtotalIsSum, OrdersSubtotalIsSum

\* The same lines cost the same after a step that leaves prices alone.
LEMMA SubtotalKept ==
    ASSUME total' = total, NEW S
    PROVE  Amounts(OrdersSubtotal(S))' = Amounts(OrdersSubtotal(S))
  BY DEF OrdersSubtotal, MapThenSumSet, MapThenFoldSet, Amounts

LEMMA InitInv == Init => Inv
  <1> SUFFICES ASSUME Init
               PROVE  Inv
    OBVIOUS
  <1>1. OrdersSubtotal({}) = 0
    BY OrdersSubtotalIsSum, SumEmpty
  <1>2. Billed = {}
    BY DEF Init, Billed
  <1>3. Charged
    BY <1>1, <1>2 DEF Init, Charged
  <1>4. \A l \in Line : item[l] \in {NoItem, total[l]}
    BY DEF Init
  <1>5. total \in [Line -> LineTotal] /\ served \subseteq Line
    BY DEF Init
  <1>6. QED
    BY <1>2, <1>3, <1>4, <1>5 DEF Inv

\* A step that leaves the bill and the prices alone.
LEMMA ChargedKept ==
    ASSUME Inv, UNCHANGED <<total, item, stage, amounts>>
    PROVE  Charged' /\ Billed' = Billed
  <1>1. Billed' = Billed
    BY DEF Billed
  <1>2. PICK S \in SUBSET Billed : /\ amounts = Amounts(OrdersSubtotal(S))
                                   /\ stage # "adding" => S = Billed
    BY DEF Inv, Charged
  <1>3. amounts' = Amounts(OrdersSubtotal(S))'
    BY <1>2, SubtotalKept
  <1>4. QED
    BY <1>1, <1>2, <1>3 DEF Charged

LEMMA ServeInv ==
    ASSUME Inv, Serve
    PROVE  Inv'
  <1>1. Charged' /\ Billed' = Billed
    BY ChargedKept DEF Serve
  <1>2. served \subseteq served' /\ served' \subseteq Line
    BY DEF Inv, Serve
  <1>3. total' = total /\ item' = item /\ stage' = stage
    BY DEF Serve
  <1>4. QED
    BY <1>1, <1>2, <1>3 DEF Inv

LEMMA CreateBillInv ==
    ASSUME Inv, CreateBill
    PROVE  Inv'
  <1>1. served \subseteq Line /\ total \in [Line -> LineTotal]
    BY DEF Inv
  <1>2. /\ total' = total /\ served' = served /\ stage' = "open"
        /\ item' = [l \in Line |-> IF l \in served THEN total[l] ELSE NoItem]
        /\ amounts' = Amounts(OrdersSubtotal(served))
    BY DEF CreateBill
  <1>3. Billed' = served
    <2>1. \A l \in Line : total[l] # NoItem
      BY <1>1, AmountsAssumption
    <2>2. \A l \in Line : item'[l] # NoItem <=> l \in served
      BY <1>2, <2>1
    <2>3. QED
      BY <1>1, <2>2 DEF Billed
  <1>4. PICK S : S = served
    OBVIOUS
  <1>5. Charged'
    <2>1. amounts' = Amounts(OrdersSubtotal(S))'
      BY <1>2, <1>4, SubtotalKept
    <2>2. QED
      BY <1>3, <1>4, <2>1 DEF Charged
  <1>6. \A l \in Line : item'[l] \in {NoItem, total'[l]}
    BY <1>2
  <1>7. QED
    BY <1>1, <1>2, <1>3, <1>5, <1>6 DEF Inv

LEMMA AddMissingInv ==
    ASSUME Inv, AddMissing
    PROVE  Inv'
  <1>1. served \subseteq Line /\ total \in [Line -> LineTotal]
    BY DEF Inv
  <1>2. /\ total' = total /\ served' = served /\ amounts' = amounts
        /\ stage = "open" /\ stage' = "adding"
        /\ item' = [l \in Line |-> IF l \in served \ Billed THEN total[l] ELSE item[l]]
    BY DEF AddMissing, WithMissing
  <1>3. Billed' = served
    <2>1. \A l \in Line : total[l] # NoItem
      BY <1>1, AmountsAssumption
    <2>2. Billed \subseteq served
      BY DEF Inv
    <2>3. \A l \in Line : item'[l] # NoItem <=> l \in served
      BY <1>2, <2>1, <2>2 DEF Billed
    <2>4. QED
      BY <1>1, <2>3 DEF Billed
  <1>4. PICK S \in SUBSET Billed : amounts = Amounts(OrdersSubtotal(S))
    BY DEF Inv, Charged
  <1>5. S \in SUBSET Billed'
    BY <1>3, <1>4 DEF Inv
  <1>6. amounts' = Amounts(OrdersSubtotal(S))'
    BY <1>2, <1>4, SubtotalKept
  <1>7. Charged'
    BY <1>2, <1>5, <1>6 DEF Charged
  <1>8. \A l \in Line : item'[l] \in {NoItem, total'[l]}
    BY <1>2 DEF Inv
  <1>9. QED
    BY <1>1, <1>2, <1>3, <1>7, <1>8 DEF Inv

LEMMA RecalculateInv ==
    ASSUME Inv, Recalculate
    PROVE  Inv'
  <1>1. /\ total' = total /\ served' = served /\ item' = item /\ stage' = "open"
        /\ amounts' = Amounts(ItemsSubtotal)
    BY DEF Recalculate, Recalculated
  <1>2. Billed' = Billed
    BY <1>1 DEF Billed
  <1>3. amounts' = Amounts(OrdersSubtotal(Billed))
    BY <1>1, CopiesCostTheSame
  <1>4. PICK S : S = Billed
    OBVIOUS
  <1>5. Charged'
    <2>1. amounts' = Amounts(OrdersSubtotal(S))'
      BY <1>1, <1>3, <1>4, SubtotalKept
    <2>2. QED
      BY <1>2, <1>4, <2>1 DEF Charged
  <1>6. QED
    BY <1>1, <1>2, <1>5 DEF Inv

LEMMA NextInv == Inv /\ [Next]_vars => Inv'
  <1> SUFFICES ASSUME Inv, [Next]_vars
               PROVE  Inv'
    OBVIOUS
  <1>1. CASE UNCHANGED vars
    <2>1. UNCHANGED <<total, served, item, stage, amounts>>
      BY <1>1 DEF vars
    <2>2. Charged' /\ Billed' = Billed
      BY <2>1, ChargedKept
    <2>3. QED
      BY <2>1, <2>2 DEF Inv
  <1>2. QED
    BY <1>1, ServeInv, CreateBillInv, AddMissingInv, RecalculateInv DEF Next

\* Only served items are on a bill, each at the price it was ordered for, and
\* the amounts are those of the items on the bill, or of those that were on it
\* before the sync that is adding to it (generate_or_get_bill).
THEOREM Invariance == Spec => []Inv
  BY InitInv, NextInv, PTL DEF Spec

\* In how many rounds a bill grew does not show in its amounts: the copies a
\* sync sums give what the create branch computes from the orders
\* (generate_or_get_bill).
THEOREM Whole == Spec => []RoundsDoNotShow
  <1>1. Inv => RoundsDoNotShow
    BY DEF Inv, Charged, RoundsDoNotShow
  <1>2. QED
    BY <1>1, Invariance, PTL

\* The amounts that were written last are those of some lines of the session.
LEMMA AmountsOfLines ==
    ASSUME Inv
    PROVE  \E S \in SUBSET Billed :
               OrdersSubtotal(S) \in Nat /\ amounts = Amounts(OrdersSubtotal(S))
  <1>1. PICK S \in SUBSET Billed : amounts = Amounts(OrdersSubtotal(S))
    BY DEF Inv, Charged
  <1>2. S \in SUBSET Line /\ total \in [Line -> LineTotal]
    BY <1>1 DEF Inv, Billed
  <1>3. OrdersSubtotal(S) \in Nat
    BY <1>2, SubtotalType
  <1>4. QED
    BY <1>1, <1>3

\* The tax of every bill is within half a cent of the exact one, however many
\* items it sums and in however many rounds (generate_or_get_bill).
THEOREM Fair == Spec => []TaxIsFair
  <1>1. Inv => TaxIsFair
    <2> SUFFICES ASSUME Inv
                 PROVE  TaxIsFair
      OBVIOUS
    <2>1. PICK S \in SUBSET Billed :
              OrdersSubtotal(S) \in Nat /\ amounts = Amounts(OrdersSubtotal(S))
      BY AmountsOfLines
    <2> DEFINE s == OrdersSubtotal(S)
    <2>2. s \in Nat /\ amounts.subtotal = s /\ amounts.tax = Tax(s)
      BY <2>1 DEF Amounts
    <2> HIDE DEF s
    <2>3. QED
      BY <2>2, TaxNear DEF TaxIsFair
  <1>2. QED
    BY <1>1, Invariance, PTL

\* What a step charges is what was charged before, or the price of no fewer
\* lines.
LEMMA NextCharges ==
    ASSUME Inv, Next
    PROVE  \/ amounts' = amounts
           \/ \E T \in SUBSET Line : Billed \subseteq T /\ amounts' = Amounts(OrdersSubtotal(T))
  <1>1. CASE Serve
    BY <1>1 DEF Serve
  <1>2. CASE CreateBill
    <2>1. amounts' = Amounts(OrdersSubtotal(served))
      BY <1>2 DEF CreateBill
    <2>2. served \in SUBSET Line /\ Billed \subseteq served
      BY DEF Inv
    <2>3. QED
      BY <2>1, <2>2
  <1>3. CASE AddMissing
    BY <1>3 DEF AddMissing
  <1>4. CASE Recalculate
    <2>1. amounts' = Amounts(OrdersSubtotal(Billed))
      BY <1>4, CopiesCostTheSame DEF Recalculate, Recalculated
    <2>2. Billed \in SUBSET Line
      BY DEF Billed
    <2>3. QED
      BY <2>1, <2>2
  <1>5. QED
    BY <1>1, <1>2, <1>3, <1>4 DEF Next

\* No step makes a bill cheaper, whatever is served, whenever the bill is
\* synced and whatever the rounding does to its tax (generate_or_get_bill).
THEOREM Growing == Spec => NeverCheaper
  <1>1. Inv /\ [Next]_vars => [amounts.grand <= amounts'.grand]_vars
    <2> SUFFICES ASSUME Inv, Next
                 PROVE  amounts.grand <= amounts'.grand
      OBVIOUS
    <2>1. PICK S \in SUBSET Billed :
              OrdersSubtotal(S) \in Nat /\ amounts = Amounts(OrdersSubtotal(S))
      BY AmountsOfLines
    <2>2. amounts.grand \in Nat
      <3> DEFINE s == OrdersSubtotal(S)
      <3>1. s \in Nat /\ amounts.grand = s + Tax(s)
        BY <2>1 DEF Amounts
      <3> HIDE DEF s
      <3>2. QED
        BY <3>1, TaxNear
    <2>3. CASE amounts' = amounts
      BY <2>2, <2>3
    <2>4. ASSUME NEW T \in SUBSET Line, Billed \subseteq T,
                 amounts' = Amounts(OrdersSubtotal(T))
          PROVE  amounts.grand <= amounts'.grand
      <3>1. total \in [Line -> LineTotal] /\ S \in SUBSET T
        BY <2>1, <2>4 DEF Inv
      <3>2. OrdersSubtotal(S) <= OrdersSubtotal(T) /\ OrdersSubtotal(T) \in Nat
        BY <3>1, SubtotalGrows, SubtotalType
      <3>3. Amounts(OrdersSubtotal(S)).grand <= Amounts(OrdersSubtotal(T)).grand
        BY <2>1, <3>2, GrandTotalMonotone
      <3>4. QED
        BY <2>1, <2>4, <3>3
    <2>5. QED
      BY <2>3, <2>4, NextCharges
  <1>2. QED
    BY <1>1, Invariance, PTL DEF Spec, NeverCheaper

=============================================================================
