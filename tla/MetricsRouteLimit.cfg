SPECIFICATION MetricsSpec
CONSTANTS
    Handlers = {q1, q2}
    Methods = {get, post}
    Paths = {one, two, three}
    OtherPath = other
    MaxRouteKeys = 3
    MaxRequests = 5
    NoRoute = NoRoute
INVARIANTS
    RouteTableWithinLimit
CHECK_DEADLOCK FALSE
