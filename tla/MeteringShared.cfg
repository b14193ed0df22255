SPECIFICATION Spec
CONSTANTS
    b1 = b1
    b2 = b2
    s1 = s1
    Bindings = {b1, b2}
    Subscriptions = {s1}
    SubscriptionOf <- OneSubscription
    NoRow = NoRow
    NoSample = NoSample
    NoWatermark = NoWatermark
    TotalTraffic = 2
    MaxTraffic = 1
    MaxResets = 0
    MaxBatches = 2
    MaxCrashes = 0
    MaxOrders = 2
    MaxReactivations = 1
INVARIANTS
    MeteringExact
    CaughtUp
SYMMETRY Symmetry
CHECK_DEADLOCK FALSE
