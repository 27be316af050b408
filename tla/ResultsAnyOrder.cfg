SPECIFICATION Spec
CONSTANTS
    Stmts = {s1, s2}
    Sets = {r1, r2}
    Queries <- MCQueries
    Tables <- MCTables
    MaxPrepared = 2
    MaxRuns = 2
SYMMETRY Symmetry
INVARIANTS TypeOK BuffersHaveOneOwner CounterFollowsCursor ReadsLastStored
