SPECIFICATION Spec
CONSTANTS
    Clients = {c1, c2}
    MySessions = {s1, s2}
    PoolSize = 2
    Writes = {w1, w2, w3}
    NoSession = NoSession
    NoMode = NoMode
SYMMETRY Symmetry
INVARIANTS TypeOK CommittedIsDurable TransactionKept StatementsApart
