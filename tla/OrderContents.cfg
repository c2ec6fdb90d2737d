SPECIFICATION SpecParts

CONSTANTS
    Threads <- TwoThreads
    Deleters <- OneThread
    Users = {u1}
    Addrs = {x1, x2}
    MaxOrders = 2
    Requested <- PaymentPath
    Quantities = {1, 2}
    MaxItems = 1
    Addresses = {home, office}
    MaxDiscounts = 2
    MaxUsage = 2
    Coupons = {}
    Payments = {}
    t1 = t1
    t2 = t2
    u1 = u1
    u2 = u2
    x1 = x1
    x2 = x2
    home = home
    office = office
    c1 = c1
    p1 = p1
    None = None
    NoOrder = NoOrder
    Idle = Idle

INVARIANTS
    UsageCoversHolders

PROPERTIES
    ContentsSettled
