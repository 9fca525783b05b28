\* Three order items, a tax of five percent.
SPECIFICATION Spec
CONSTANTS
    Line = {l1, l2, l3}
    LineTotal <- Prices
    TaxRate = 500
    NoItem = NoItem
INVARIANTS RoundsDoNotShow TaxIsFair
PROPERTIES NeverCheaper
\* Everything has been served and billed.
CHECK_DEADLOCK FALSE
