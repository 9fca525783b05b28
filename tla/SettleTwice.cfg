\* One guest, one kitchen display, two cashiers on one table.
SPECIFICATION Spec
CONSTANTS
    Diner = {d1}
    Kitchen = {k1}
    Cashier = {c1, c2}
    Line = {l1}
    Order = {1}
    Bill = {b1}
    None = None
INVARIANT SettledOnce
CHECK_DEADLOCK FALSE
