SPECIFICATION Spec
CONSTANTS
    Threads = {t1, t2}
    Owners = {o1, o2}
    Users = {u1, u2}
    MaxThrows = 1
    NoThread = NoThread
INVARIANTS TypeOK OneInstance ScopedProgramsSafe
PROPERTIES GetInstanceReturns
