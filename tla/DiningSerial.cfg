\* One request at a time.
SPECIFICATION Spec
CONSTANTS
    Diner = {r}
    Kitchen = {r}
    Cashier = {r}
    Line = {l1, l2, l3}
    Order = {1, 2, 3}
    Bill = {b1, b2}
    None = None
SYMMETRY Symmetry
INVARIANT ClosedMeansResolved
PROPERTIES ImplementsService
\* The session ends: once the table is closed nothing needs to happen.
CHECK_DEADLOCK FALSE
