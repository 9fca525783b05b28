\* Three guests, one kitchen display, one cashier on one table.
SPECIFICATION Spec
CONSTANTS
    Diner = {d1, d2, d3}
    Kitchen = {k1}
    Cashier = {c1}
    Line = {l1, l2}
    Order = {1, 2}
    Bill = {b1, b2}
    None = None
SYMMETRY Symmetry
INVARIANTS TypeOK OneOpenBill LinesConserved NoEmptyOrder BilledOnceUnlessOvertaken NoCircularWait BilledOrdersServed TotalMatchesItems
PROPERTIES NoOrderAfterClose ImplementsPlacement
\* The session ends: once the table is closed nothing needs to happen.
CHECK_DEADLOCK FALSE
