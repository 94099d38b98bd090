\* One cache, three keys, two values: evictions, refreshes, value replacement.
CONSTANTS
    Caches = {c1}
    Keys = {k1, k2, k3}
    Values = {v1, v2}
    NodeCount = 3
    SizesIn <- MCSizes
    NoNode = NoNode
    NoValue = NoValue
SPECIFICATION Spec
INVARIANTS TypeOK MapListInSync CachedKeysAreMostRecent
PROPERTIES CacheNeverGrowsPastMax
