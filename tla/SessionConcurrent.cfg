\* Two requests of one customer and one cashier at the same time.
SPECIFICATION Spec
CONSTANTS
    Guest = {g1, g2}
    Cashier = {c1}
    Table = {t1, t2}
    None = None
    MaxSession = 4
SYMMETRY Symmetry
INVARIANTS TypeOK LiveBounded OneActiveUnlessOverlap
PROPERTIES ClosedStaysUnlessTimedOut RetiredForCause
\* With all sessions used up and closed nothing needs to happen.
CHECK_DEADLOCK FALSE
