\* Two requests at a time on a cart with up to two different items.
SPECIFICATION Spec
CONSTANTS
    Guest = {g1, g2}
    Item = {i1, i2}
    None = None
    Adding = {1}
    Setting = {1, 2}
    MaxUnits = 3
    MaxSoldOut = 1
SYMMETRY Symmetry
INVARIANTS TypeOK UnitsConserved NothingInvented LateOrdersBounded
\* With the bound on units reached nothing more can be asked for.
CHECK_DEADLOCK FALSE
