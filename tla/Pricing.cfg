SPECIFICATION Spec

CONSTANTS
    Products = {1, 2}
    Quantities <- FewQuantities
    Prices = {0, 2, 4}
    MaxLines = 3
    MaxQuantity = 2
    MaxGone = 2
    MaxDiscounts = 3
    MaxUsage = 1
    LastDay = 3
    Applications <- SomeApplications
    Caps = {0, 3}
    Settings <- FewSettings
    Role = 2
    Nothing = Nothing

INVARIANTS
    IdsReach
    DiscountEarned
    HeldAsApplied

PROPERTIES
    ContentsKept
