SPECIFICATION Spec

CONSTANTS
    Codes <- TwoCodes
    Products <- TwoProducts
    MaxWarehouse = 2
    Quantities <- FewQuantities
    Orders <- FewOrders
    MaxUnits = 2
    NoWarehouse = NoWarehouse
    MaxId = 4
    Changes = 2
    Sizes = {1, 2}
    Width = 3
    north = north
    south = south
    p = p
    q = q

INVARIANTS
    ReservedIsThere
    LookupsReach
    AllocatedCanReserve
    PagesTile
    WalkFaithful
