SPECIFICATION Spec
CONSTANTS
    h1 = h1
    h2 = h2
    h3 = h3
    rInstant = rInstant
    rHigher = rHigher
    rLower = rLower
    rLazy = rLazy
    rPass = rPass
    rCluster = rCluster
    rUnsupported = rUnsupported
    u0 = u0
    u1 = u1
    Request <- Handles
    Resource <- MCResource
    Unit = {u0, u1}
    UnitsOf <- MCUnitsOf
    Policy <- MCPolicy
    Supported <- MCSupported
    Value <- MCValue
    MaxResources = 2
    Offered <- MCOffered
    Default = Default
SYMMETRY HandleSymmetry
INVARIANTS
    TypeOK
    TableMatchesRequests
    ListsFollowPolicy
    GlobalEffectIsBest
    IdleUnitsRestored
PROPERTIES
    ArbiterSpec
