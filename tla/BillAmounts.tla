------------------------------ MODULE BillAmounts ------------------------------
(***************************************************************************)
(* The amounts of a bill: subtotal, tax and grand total, and how they keep *)
(* up when order items are served and added to the bill later.             *)
(*                                                                         *)
(* Money is a number of cents, which is exact because unit prices have two *)
(* decimals and quantities are integers; the tax rate is a number of       *)
(* ten-thousandths.  quantize rounds to the nearest cent, and to the even  *)
(* one when two are equally near (the default of decimal).                 *)
(***************************************************************************)
EXTENDS Integers, FiniteSetsExt

CONSTANTS
    Line,       \* the order items of the session
    LineTotal,  \* the line totals there may be, in cents
    TaxRate,    \* BILL_TAX_RATE, in ten-thousandths
    NoItem      \* not a line total

ASSUME AmountsAssumption ==
    /\ IsFiniteSet(Line)
    /\ LineTotal \subseteq Nat
    /\ TaxRate \in Nat
    /\ NoItem \notin LineTotal

VARIABLES
    total,     \* the line_total of each order item
    served,    \* the order items of SERVED orders
    item,      \* the line_total copied into the bill_items row of each of them
    stage,     \* whether there is a bill, and whether a sync is adding to it
    amounts    \* subtotal, tax_amount and grand_total of the bill

vars == <<total, served, item, stage, amounts>>

Unit == 10000

\* Fault: a fraction of a cent is cut off.
CutOff(n) == n \div Unit

\* n ten-thousandths of a cent as cents.
Quantize(n) ==
    LET q == n \div Unit
        r == n % Unit
    IN  IF 2 * r < Unit \/ (2 * r = Unit /\ q % 2 = 0) THEN q ELSE q + 1

Tax(subtotal) == Quantize(subtotal * TaxRate)

Amounts(subtotal) ==
    [subtotal |-> subtotal, tax |-> Tax(subtotal), grand |-> subtotal + Tax(subtotal)]

\* What order items cost, and what the items on the bill cost.
OrdersSubtotal(lines) == MapThenSumSet(LAMBDA l : total[l], lines)

Billed == {l \in Line : item[l] # NoItem}

ItemsSubtotal == MapThenSumSet(LAMBDA l : item[l], Billed)

Init ==
    /\ total \in [Line -> LineTotal]
    /\ served = {}
    /\ item = [l \in Line |-> NoItem]
    /\ stage = "no bill"
    /\ amounts = Amounts(0)

\* Orders are served in any order, and items of several orders at once.
Serve ==
    /\ \E lines \in SUBSET (Line \ served) : lines # {} /\ served' = served \cup lines
    /\ UNCHANGED <<total, item, stage, amounts>>

\* Without an OPEN bill the items of the served orders are summed, then copied.
CreateBill ==
    /\ stage = "no bill"
    /\ served # {}
    /\ amounts' = Amounts(OrdersSubtotal(served))
    /\ item' = [l \in Line |-> IF l \in served THEN total[l] ELSE NoItem]
    /\ stage' = "open"
    /\ UNCHANGED <<total, served>>

\* Fault: the missing items take the place of the others.
OnlyMissing == [l \in Line |-> IF l \in served \ Billed THEN total[l] ELSE NoItem]

\* The items of the bill and those it lacks.
WithMissing == [l \in Line |-> IF l \in served \ Billed THEN total[l] ELSE item[l]]

\* With an OPEN bill what was served since is copied first ...
AddMissing ==
    /\ stage = "open"
    /\ served \ Billed # {}
    /\ item' = WithMissing
    /\ stage' = "adding"
    /\ UNCHANGED <<total, served, amounts>>

\* Fault: what is added to the bill is taxed by itself.
TaxedApart ==
    LET new == Amounts(ItemsSubtotal - amounts.subtotal)
    IN  [subtotal |-> amounts.subtotal + new.subtotal,
         tax |-> amounts.tax + new.tax,
         grand |-> amounts.grand + new.grand]

\* The amounts of all the items that the bill has when it is read again.
Recalculated == Amounts(ItemsSubtotal)

\* ... then the bill is read again and its own items are summed.  Orders may
\* be served in between.  (A request that fails takes its items with it.)
Recalculate ==
    /\ stage = "adding"
    /\ amounts' = Recalculated
    /\ stage' = "open"
    /\ UNCHANGED <<total, served, item>>

Next == Serve \/ CreateBill \/ AddMissing \/ Recalculate

Spec == Init /\ [][Next]_vars

-----------------------------------------------------------------------------
\* The tax is within half a cent of the exact tax of the whole subtotal
\* (generate_or_get_bill).
TaxIsFair ==
    LET exact == amounts.subtotal * TaxRate
    IN  /\ 2 * (Unit * amounts.tax - exact) <= Unit
        /\ 2 * (exact - Unit * amounts.tax) <= Unit

\* In how many rounds a bill grew does not show in its amounts: the sync
\* branch, which sums the copies on the bill, ends with what the create branch
\* would have charged for the same orders at once (generate_or_get_bill).
RoundsDoNotShow == stage = "open" => amounts = Amounts(OrdersSubtotal(Billed))

\* A guest who has seen the bill never finds it lower later: each sync sums
\* all that was on it before, and the rounding of the tax takes nothing back
\* (generate_or_get_bill).
NeverCheaper == [][amounts.grand <= amounts'.grand]_vars

=============================================================================
