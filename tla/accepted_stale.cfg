SPECIFICATION Spec
CONSTANTS
    o1 = o1  m1 = m1  m2 = m2  b1 = b1  i1 = i1  w1 = w1  w2 = w2  Nobody = Nobody
    Orders = {o1}
    Requests = {}
    Bundled = {}
    Repairs = {}
    Items = {}
    Actors = {w1, w2}
    OrderOf <- MCOrderOf
    ItemOf <- MCItemOf
    MaxVersion <- MCMaxVersion
INVARIANT QuoteAlwaysCurrent
CHECK_DEADLOCK FALSE
