SPECIFICATION Spec
CONSTANTS
    n1 = n1
    n2 = n2
    m1 = m1
    m2 = m2
    Natives = {n1, n2}
    Managed = {m1, m2}
    Earlier = {m1}
    Refreshers = {r1, r2}
    Adapters <- MCAdapters
    AdapterOf <- MCAdapterOf
    PathOf <- MCPathOf
    CreatedAt <- MCCreatedAt
    Place <- MCPlace
    Skew = 0
    Window = 1
    MaxPasses = 2
    MaxUpsets = 1
    Named <- MCNamed
SYMMETRY Symmetry
INVARIANTS
    DiscoveredComplete
    RefreshIsSound
    LiveRowIsOwn
    MatchedOnce
    PruneSparesReferenced
    MappingAgrees
CHECK_DEADLOCK FALSE
