\* The commands the guest is told of.
SPECIFICATION Spec
CONSTANTS
    here = here
    there = there
    t1 = t1
    t2 = t2
    t3 = t3
    i1 = i1
    Restaurant = {here, there}
    Table = {t1, t2, t3}
    Item = {i1}
    Home <- HomeOf
    Default = {here}
    Texts <- SomeTexts
    Display = {d1}
    None = None
    MaxVisit = 2
    MaxOrder = 2
PROPERTY CheckoutCommandOrders
