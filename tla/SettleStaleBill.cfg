SPECIFICATION Spec
CONSTANTS
    Diner = {r}
    Kitchen = {r}
    Cashier = {r}
    Line = {l1, l2}
    Order = {1, 2}
    Bill = {b1, b2}
    None = None
INVARIANT ServedIsBilled
CHECK_DEADLOCK FALSE
