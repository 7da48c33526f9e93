SPECIFICATION Spec
CONSTANTS
    o1 = o1  m1 = m1  m2 = m2  b1 = b1  i1 = i1  w1 = w1  w2 = w2  Nobody = Nobody
    Orders = {o1}
    Requests = {m1, m2, b1}
    Bundled = {m1, m2, b1}
    Repairs = {m1, m2}
    Items = {i1}
    Actors = {w1, w2}
    OrderOf <- MCOrderOf
    ItemOf <- MCItemOf
    MaxVersion <- MCMaxVersion
CONSTRAINT Bounds
SYMMETRY Workers
INVARIANTS QuoteIsCurrent BreakdownFollowsLines OneRepairPerItem
PROPERTY PreparedIsRepaired
CHECK_DEADLOCK FALSE
