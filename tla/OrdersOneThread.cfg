SPECIFICATION SpecWhole

CONSTANTS
    Threads <- OneThread
    Deleters <- OneThread
    Users = {u1, u2}
    Addrs = {x1, x2}
    MaxOrders = 2
    Requested <- AllStatuses
    Quantities = {}
    MaxItems = 0
    Addresses = {home}
    MaxDiscounts = 0
    MaxUsage = 0
    Coupons = {c1}
    Payments = {p1}
    t1 = t1
    t2 = t2
    u1 = u1
    u2 = u2
    x1 = x1
    x2 = x2
    home = home
    office = office
    c1 = c1
    p1 = p1
    None = None
    NoOrder = NoOrder
    Idle = Idle

INVARIANTS
    StatusIndexExact
    StaleEntriesBounded

PROPERTIES
    LifecycleSpec
