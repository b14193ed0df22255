SPECIFICATION Spec
CONSTANTS
    b1 = b1
    b2 = b2
    s1 = s1
    Bindings = {b1}
    Subscriptions = {s1}
    SubscriptionOf <- OneSubscription
    NoRow = NoRow
    NoSample = NoSample
    NoWatermark = NoWatermark
    TotalTraffic = 2
    MaxTraffic = 2
    MaxResets = 2
    MaxBatches = 3
    MaxCrashes = 1
    MaxOrders = 3
    MaxReactivations = 0
INVARIANTS
    MeteringExact
    HeadAccountable
    NothingBeyondBoundary
CHECK_DEADLOCK FALSE
