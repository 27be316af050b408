SPECIFICATION FairSpec
CONSTANTS
    Threads = {t1, t2}
    Handles = {h1, h2, h3}
    Configs <- FixedConfig
    Garbage = {1, 2}
    MaxId = 4
    NoThread = NoThread
    NoHandle = NoHandle
INVARIANTS TypeOK NoSlotLeak
PROPERTIES GivesUpOnlyWhenExhausted GetConnReturns
