SPECIFICATION AnyOrderSpec
CONSTANTS
    root = root
    a = a
    b = b
    f = f
    g = g
    Dir = {root, a, b}
    File = {f, g}
    Root = root
    NoDir = none
    Contents <- Tree
    SizeOf <- Sizes
    MtimeOf <- Mtimes
    MaxSize = 3
    Filters = {{f}, {f, g}}
    MaxScans = 2
INVARIANTS TotalsExact CacheSound ShownSound
CHECK_DEADLOCK FALSE
