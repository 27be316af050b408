SPECIFICATION AnyClientSpec
CONSTANTS
    Threads = {t1, t2}
    Handles = {h1, h2, h3}
    Configs <- ResizedConfigs
    Garbage = {1, 2}
    MaxId = 3
    NoThread = NoThread
    NoHandle = NoHandle
SYMMETRY Symmetry
INVARIANTS PoolConsistent SingleOwner WithinCapacity
PROPERTIES ImplementsPoolSpec
