--------------------------- MODULE ConnectionPool ---------------------------
(***************************************************************************)
(* The connection pool of tinyORM (mysql4cpp/connectionpool.cpp) and the   *)
(* move-only connection handle it lends (mysql4cpp/sqlconn.cpp).           *)
(*                                                                         *)
(* Threads call getConn() and close()/~SqlConn concurrently.  The pool's   *)
(* mutex mu serialises them; getConn gives it up only inside the timed     *)
(* wait.  configure() takes no lock and writes its fields one by one, so   *)
(* a getConn() may read a mixture of two configurations.  A MYSQL session   *)
(* is named by the id of the SqlConn that was constructed around it; 0 is  *)
(* the null pointer.                                                       *)
(***************************************************************************)
EXTENDS Integers, FiniteSets

CONSTANTS
    Threads,   \* threads of the client program
    Handles,   \* the SqlConn variables of the client program
    Configs,   \* argument tuples configure() may be called with
    Garbage,   \* what the uninitialised id of a default-constructed SqlConn may hold
    MaxId,     \* bound: no getConn/getMetadata call once globalId passes it
    NoThread,  \* the owner of a free mutex
    NoHandle   \* the destination of a thread that is not in getConn()

ASSUME ConfigAssumption ==
    /\ Configs # {}
    /\ Configs \subseteq [poolSize : Nat, maxRetry : Nat \ {0}, testOnBorrow : BOOLEAN]
ASSUME ThreadAssumption == NoThread \notin Threads
ASSUME HandleAssumption == IsFiniteSet(Handles) /\ NoHandle \notin Handles
ASSUME GarbageAssumption == Garbage # {} /\ Garbage \subseteq Int
ASSUME MaxIdAssumption == MaxId \in Nat

VARIABLES
    config,           \* the pool's fields poolSize, maxRetry, testOnBorrow
    request,          \* the arguments of the last configure() call
    mu,               \* the thread that owns the pool's mutex, or NoThread
    idleConnections,
    usedConnections,
    connections,      \* id -> SqlConn stored in the pool
    globalId,         \* SqlConn::globalId
    sessions,         \* MYSQL sessions open between this process and the server
    conn,             \* the client's SqlConn variables
    pc,               \* where a thread is inside getConn()
    dest,             \* the variable a thread's getConn() result goes to
    retry,            \* the loop counter i of getConn()
    total,            \* the local variable total of getConn()
    alive             \* FALSE once the process has died

poolVars == <<idleConnections, usedConnections, connections>>
threadVars == <<mu, pc, dest, retry, total>>
vars == <<config, request, mu, idleConnections, usedConnections, connections, globalId,
          sessions, conn, pc, dest, retry, total, alive>>

-----------------------------------------------------------------------------
(* SqlConn *)

SqlConn == [ptr : Nat, id : Int, pool : BOOLEAN]

\* The default-constructed handles: the constructor leaves id uninitialised, so it
\* may well be an id that the pool has lent.
NoConn == [ptr : {0}, id : Garbage, pool : {FALSE}]

\* SqlConn(nullptr, nullptr): an invalid connection still consumes an id.
InvalidConn(i) == [ptr |-> 0, id |-> i, pool |-> FALSE]

OpenConn(i, inPool) == [ptr |-> i, id |-> i, pool |-> inPool]

\* Faulty variant of MovedFrom: the move copies the pointers.
CopiedFrom(c) == c

\* What a move leaves behind: ptr released, pool nulled, id kept.
MovedFrom(c) == [ptr |-> 0, id |-> c.id, pool |-> FALSE]

isOpen(c) == c.ptr # 0

\* Faulty variant of Releasable: the early return of releaseConn is missing.
ReleasableUnchecked(c) == c.pool

\* close() and ~SqlConn reach the pool only through a non-null pool pointer.
Releasable(c) == c.pool /\ c.id \in usedConnections

-----------------------------------------------------------------------------
Init ==
    /\ config \in Configs
    /\ request = config
    /\ mu = NoThread
    /\ idleConnections = {}
    /\ usedConnections = {}
    /\ connections = [i \in {} |-> OpenConn(i, TRUE)]
    /\ globalId = 1
    /\ sessions = {}
    /\ conn \in [Handles -> NoConn]
    /\ pc = [t \in Threads |-> "client"]
    /\ dest = [t \in Threads |-> NoHandle]
    /\ retry = [t \in Threads |-> 0]
    /\ total = [t \in Threads |-> 0]
    /\ alive = TRUE

\* h is the target of a getConn() that has not returned.
Busy(h) == \E t \in Threads : dest[t] = h

-----------------------------------------------------------------------------
(* getConn() *)

Occupied == Cardinality(idleConnections) + Cardinality(usedConnections)

\* A thread calls getConn() and will store the result in h.
Call(t, h) ==
    /\ pc[t] = "client"
    /\ ~Busy(h)
    /\ globalId <= MaxId
    /\ pc' = [pc EXCEPT ![t] = "lock"]
    /\ dest' = [dest EXCEPT ![t] = h]
    /\ UNCHANGED <<config, request, mu, poolVars, globalId, sessions, conn, retry, total, alive>>

\* unique_lock, and the first computation of total.
Lock(t) ==
    /\ pc[t] = "lock"
    /\ mu = NoThread
    /\ mu' = t
    /\ total' = [total EXCEPT ![t] = Occupied]
    /\ retry' = [retry EXCEPT ![t] = 0]
    /\ pc' = [pc EXCEPT ![t] = "test"]
    /\ UNCHANGED <<config, request, poolVars, globalId, sessions, conn, dest, alive>>

\* Faulty variant of MustWait: one timeout too few.
MustWaitOneLess(t) ==
    /\ retry[t] + 1 < config.maxRetry
    /\ idleConnections = {}
    /\ total[t] = config.poolSize

\* Faulty variant of MustWait: the test of the loop counter is missing.
MustWaitUncounted(t) ==
    /\ idleConnections = {}
    /\ total[t] = config.poolSize

\* The condition of the retry loop; it reads poolSize and maxRetry unprotected.
MustWait(t) ==
    /\ retry[t] < config.maxRetry
    /\ idleConnections = {}
    /\ total[t] = config.poolSize

\* cond.wait_for: the mutex is released while the thread sleeps.
Wait(t) ==
    /\ pc[t] = "test"
    /\ MustWait(t)
    /\ mu' = NoThread
    /\ pc' = [pc EXCEPT ![t] = "waiting"]
    /\ UNCHANGED <<config, request, poolVars, globalId, sessions, conn, dest, retry, total, alive>>

\* Faulty variant of Wake: wait() instead of wait_for(), ended by a release.
WakeWhenReleased(t) ==
    /\ pc[t] = "waiting"
    /\ mu = NoThread
    /\ idleConnections # {}
    /\ mu' = t
    /\ pc' = [pc EXCEPT ![t] = "test"]
    /\ UNCHANGED <<config, request, poolVars, globalId, sessions, conn, dest, retry, total, alive>>

\* The wait times out (releaseConn never notifies) or wakes spuriously; the
\* mutex is re-acquired, total recomputed, and the loop counter incremented.
Wake(t) ==
    /\ pc[t] = "waiting"
    /\ mu = NoThread
    /\ mu' = t
    /\ total' = [total EXCEPT ![t] = Occupied]
    /\ retry' = [retry EXCEPT ![t] = @ + 1]
    /\ pc' = [pc EXCEPT ![t] = "test"]
    /\ UNCHANGED <<config, request, poolVars, globalId, sessions, conn, dest, alive>>

LeaveLoop(t) ==
    /\ pc[t] = "test"
    /\ ~MustWait(t)
    /\ pc' = [pc EXCEPT ![t] = "branch"]
    /\ UNCHANGED <<config, request, mu, poolVars, globalId, sessions, conn, dest, retry, total, alive>>

\* getConn() returns c, unlocking mu, and c is moved into the destination
\* variable, whose previous session (if any) is closed by unique_ptr::reset.
\* The locals of getConn() go out of scope.
Return(t, c) ==
    /\ conn' = [conn EXCEPT ![dest[t]] = c]
    /\ sessions' = (sessions \cup ({c.ptr} \ {0})) \ {conn[dest[t]].ptr}
    /\ mu' = NoThread
    /\ pc' = [pc EXCEPT ![t] = "client"]
    /\ dest' = [dest EXCEPT ![t] = NoHandle]
    /\ retry' = [retry EXCEPT ![t] = 0]
    /\ total' = [total EXCEPT ![t] = 0]
    /\ UNCHANGED <<config, request>>

\* An idle connection is moved out of the map and lent.
Reuse(t) ==
    /\ pc[t] = "branch"
    /\ \E connId \in idleConnections :
          /\ Return(t, connections[connId])
          /\ idleConnections' = idleConnections \ {connId}
          /\ connections' = [i \in DOMAIN connections \ {connId} |-> connections[i]]
          /\ usedConnections' = usedConnections \cup {connId}
    /\ UNCHANGED <<globalId, alive>>

\* Faulty variant of HasRoom: off by one.
HasRoomOffByOne(t) == total[t] <= config.poolSize

HasRoom(t) == total[t] < config.poolSize

\* newConnection() begins: mysql_real_connect runs with mu held.
StartConnect(t) ==
    /\ pc[t] = "branch"
    /\ idleConnections = {}
    /\ HasRoom(t)
    /\ pc' = [pc EXCEPT ![t] = "connect"]
    /\ UNCHANGED <<config, request, mu, poolVars, globalId, sessions, conn, dest, retry, total, alive>>

\* The server refuses the connection.
ConnectRefused(t) ==
    /\ pc[t] = "connect"
    /\ Return(t, InvalidConn(globalId))
    /\ globalId' = globalId + 1
    /\ UNCHANGED <<poolVars, alive>>

\* The session opens and passes the borrow test (or is not tested).
ConnectOk(t) ==
    /\ pc[t] = "connect"
    /\ Return(t, OpenConn(globalId, TRUE))
    /\ globalId' = globalId + 1
    /\ usedConnections' = usedConnections \cup {globalId}
    /\ UNCHANGED <<idleConnections, connections, alive>>

\* The borrow test answers something else than 1: the handle is returned with
\* an error set, open, but the pool does not count it.
ConnectTestFailed(t) ==
    /\ pc[t] = "connect"
    /\ config.testOnBorrow
    /\ Return(t, OpenConn(globalId, TRUE))
    /\ globalId' = globalId + 1
    /\ UNCHANGED <<poolVars, alive>>

\* The borrow test's query fails: testConn dereferences the null MYSQL_RES.
ConnectTestCrash(t) ==
    /\ pc[t] = "connect"
    /\ config.testOnBorrow
    /\ alive' = FALSE
    /\ UNCHANGED <<config, request, threadVars, poolVars, globalId, sessions, conn>>

\* Nothing idle and no room: an invalid handle is returned.
GiveUp(t) ==
    /\ pc[t] = "branch"
    /\ idleConnections = {}
    /\ ~HasRoom(t)
    /\ Return(t, InvalidConn(globalId))
    /\ globalId' = globalId + 1
    /\ UNCHANGED <<poolVars, alive>>

-----------------------------------------------------------------------------
(* Operations on a handle outside getConn() *)

\* Faulty variant of ReleaseConn: usedConnections.erase is missing.
ReleaseConnKeepsUsed(h) ==
    /\ mu = NoThread
    /\ idleConnections' = idleConnections \cup {conn[h].id}
    /\ connections' = [i \in DOMAIN connections \cup {conn[h].id} |->
                          IF i = conn[h].id THEN conn[h] ELSE connections[i]]
    /\ UNCHANGED <<usedConnections, sessions>>

\* releaseConn(&conn[h]): an id the pool did not lend is ignored; otherwise the
\* handle is moved into connections[id] and the id becomes idle.  A session an
\* existing entry of the map held is closed by the move assignment.  Nobody is
\* notified.
ReleaseConn(h) ==
    LET c == conn[h] IN
    /\ mu = NoThread
    /\ usedConnections' = usedConnections \ {c.id}
    /\ idleConnections' = idleConnections \cup {c.id}
    /\ connections' = [i \in DOMAIN connections \cup {c.id} |->
                          IF i = c.id THEN c ELSE connections[i]]
    /\ sessions' = sessions \ (IF c.id \in DOMAIN connections
                               THEN {connections[c.id].ptr} ELSE {})

\* SqlConn::close() called explicitly (Model::Exec does it).
Close(t, h) ==
    /\ pc[t] = "client"
    /\ ~Busy(h)
    /\ Releasable(conn[h])
    /\ ReleaseConn(h)
    /\ conn' = [conn EXCEPT ![h] = MovedFrom(@)]
    /\ UNCHANGED <<config, request, threadVars, globalId, alive>>

\* ~SqlConn without close(): the session is closed behind the pool's back.
Drop(t, h) ==
    /\ pc[t] = "client"
    /\ ~Busy(h)
    /\ \E c \in NoConn : conn' = [conn EXCEPT ![h] = c]
    /\ sessions' = sessions \ {conn[h].ptr}
    /\ UNCHANGED <<config, request, threadVars, poolVars, globalId, alive>>

\* ~Model and ~Migrator: conn.close(), then ~SqlConn closes what it still owns.
Destroy(t, h) ==
    /\ pc[t] = "client"
    /\ ~Busy(h)
    /\ \E c \in NoConn : conn' = [conn EXCEPT ![h] = c]
    /\ \/ /\ Releasable(conn[h])
          /\ ReleaseConn(h)
       \/ /\ ~Releasable(conn[h])
          /\ conn[h].pool => mu = NoThread
          /\ sessions' = sessions \ {conn[h].ptr}
          /\ UNCHANGED poolVars
    /\ UNCHANGED <<config, request, threadVars, globalId, alive>>

\* SqlConn::getMetadata on a handle without a pool reads through the null pointer.
GetMetadataCrash(t, h) ==
    /\ pc[t] = "client"
    /\ ~Busy(h)
    /\ ~conn[h].pool
    /\ alive' = FALSE
    /\ UNCHANGED <<config, request, threadVars, poolVars, globalId, sessions, conn>>

\* SqlConn::getMetadata: a session of its own to information_schema, owned by a
\* handle without a pool; a failed connect yields an invalid handle.
GetMetadata(t, h, k) ==
    /\ pc[t] = "client"
    /\ ~Busy(h) /\ ~Busy(k)
    /\ conn[h].pool
    /\ conn[k] \in NoConn
    /\ globalId <= MaxId
    /\ \/ /\ conn' = [conn EXCEPT ![k] = OpenConn(globalId, FALSE)]
          /\ sessions' = sessions \cup {globalId}
       \/ /\ conn' = [conn EXCEPT ![k] = InvalidConn(globalId)]
          /\ UNCHANGED sessions
    /\ globalId' = globalId + 1
    /\ UNCHANGED <<config, request, threadVars, poolVars, alive>>

\* Move assignment conn[k] = std::move(conn[h]): the session k held is closed.
MoveAssign(t, h, k) ==
    /\ pc[t] = "client"
    /\ h # k
    /\ ~Busy(h) /\ ~Busy(k)
    /\ conn' = [conn EXCEPT ![k] = conn[h], ![h] = MovedFrom(@)]
    /\ sessions' = sessions \ {conn[k].ptr}
    /\ UNCHANGED <<config, request, threadVars, poolVars, globalId, alive>>

\* configure() is called, by one thread at a time.
Configure(c) ==
    /\ config = request
    /\ request' = c
    /\ UNCHANGED <<config, threadVars, poolVars, globalId, sessions, conn, alive>>

\* configure() writes, without the mutex, the next field that differs: poolSize,
\* then maxRetry, then testOnBorrow.
WriteField ==
    /\ \/ config' = [config EXCEPT !.poolSize = request.poolSize]
       \/ /\ config.poolSize = request.poolSize
          /\ config' = [config EXCEPT !.maxRetry = request.maxRetry]
       \/ /\ config.poolSize = request.poolSize
          /\ config.maxRetry = request.maxRetry
          /\ config' = [config EXCEPT !.testOnBorrow = request.testOnBorrow]
    /\ config' # config
    /\ UNCHANGED <<request, threadVars, poolVars, globalId, sessions, conn, alive>>

-----------------------------------------------------------------------------
(* Specifications *)

GetConnStep(t) ==
    \/ Lock(t) \/ Wait(t) \/ Wake(t) \/ LeaveLoop(t)
    \/ Reuse(t) \/ StartConnect(t) \/ GiveUp(t)
    \/ ConnectRefused(t) \/ ConnectOk(t) \/ ConnectTestFailed(t) \/ ConnectTestCrash(t)

\* What every client does.
CommonStep ==
    \/ \E t \in Threads : GetConnStep(t)
    \/ \E t \in Threads, h \in Handles : Close(t, h)
    \/ \E t \in Threads, h \in Handles : Destroy(t, h)
    \/ \E t \in Threads, h, k \in Handles : GetMetadata(t, h, k)
    \/ \E t \in Threads, h \in Handles : GetMetadataCrash(t, h)
    \/ \E c \in Configs : Configure(c)
    \/ WriteField

Halted == ~alive /\ UNCHANGED vars

\* The clients inside the library, Model and Migrator: a result of getConn()
\* goes to a fresh object, and the object's destructor closes it.
Next ==
    \/ alive /\ CommonStep
    \/ alive /\ \E t \in Threads, h \in Handles : conn[h] \in NoConn /\ Call(t, h)
    \/ Halted

\* Any user of DB::getConn(), who may also overwrite, move and drop handles.
AnyClientNext ==
    \/ alive /\ CommonStep
    \/ alive /\ \E t \in Threads, h \in Handles : Call(t, h)
    \/ alive /\ \E t \in Threads, h, k \in Handles : MoveAssign(t, h, k)
    \/ alive /\ \E t \in Threads, h \in Handles : Drop(t, h)
    \/ Halted

\* A thread inside getConn() keeps running; timed waits end; connects return.
\* Nothing is assumed about which contender a mutex lets in.
Fairness == \A t \in Threads : WF_vars(alive /\ GetConnStep(t))

Spec == Init /\ [][Next]_vars
FairSpec == Spec /\ Fairness
AnyClientSpec == Init /\ [][AnyClientNext]_vars

-----------------------------------------------------------------------------
(* Properties *)

\* A configuration each of whose fields some configure() call wrote.
AnyConfig == [poolSize : {c.poolSize : c \in Configs},
              maxRetry : {c.maxRetry : c \in Configs},
              testOnBorrow : {c.testOnBorrow : c \in Configs}]

\* Every variable has its type; getConn()'s loop counter stays within some
\* configured maxRetry, though configure() may change it while a thread sleeps.
TypeOK ==
    /\ config \in AnyConfig
    /\ request \in Configs
    /\ mu \in Threads \cup {NoThread}
    /\ idleConnections \subseteq Nat
    /\ usedConnections \subseteq Nat
    /\ DOMAIN connections \subseteq Nat
    /\ \A i \in DOMAIN connections : connections[i] \in SqlConn
    /\ globalId \in Nat \ {0}
    /\ sessions \subseteq Nat
    /\ conn \in [Handles -> SqlConn]
    /\ pc \in [Threads -> {"client", "lock", "test", "waiting", "branch", "connect"}]
    /\ dest \in [Threads -> Handles \cup {NoHandle}]
    /\ retry \in [Threads -> Nat]
    /\ \A t \in Threads : \E c \in Configs : retry[t] <= c.maxRetry
    /\ total \in [Threads -> Nat]
    /\ alive \in BOOLEAN

\* The sets and the map that getConn() and releaseConn() keep in step: an id is
\* idle or used, never both; exactly the idle ids have a stored handle; and a
\* stored handle is open and carries its own id, so that what getConn() lends
\* for connId can later be found in usedConnections under that id.
PoolConsistent ==
    /\ idleConnections \cap usedConnections = {}
    /\ DOMAIN connections = idleConnections
    /\ \A i \in idleConnections : connections[i] = OpenConn(i, TRUE)

\* No two owners: whatever clients do with their handles (move, overwrite,
\* close twice, drop), a session belongs to one handle or lies in the pool, is
\* open exactly while it has an owner, and is never closed under an owner.
SingleOwner ==
    /\ \A h, k \in Handles : h # k /\ isOpen(conn[h]) => conn[h].ptr # conn[k].ptr
    /\ \A h \in Handles : conn[h].ptr \notin idleConnections
    /\ \A h \in Handles : isOpen(conn[h]) => conn[h].ptr \in sessions
    /\ idleConnections \subseteq sessions
    /\ \A i \in sessions \ idleConnections :
          \E h \in Handles : isOpen(conn[h]) /\ conn[h].ptr = i

\* The pool never has more connections than some configured poolSize: the test
\* of total and the insertion after the connect are one critical section.
WithinCapacity == \E c \in Configs : Occupied <= c.poolSize

\* With Model and Migrator as the only clients no slot is lost: every id that
\* counts against poolSize as used is held, open, by a live handle.
NoSlotLeak ==
    \A i \in usedConnections : \E h \in Handles : conn[h] = OpenConn(i, TRUE)

\* A getConn() that fails for want of a connection has slept maxRetry times and
\* leaves poolSize connections lent out, none idle (while configure() is not
\* called again: a pool shrunk below its occupancy fails at once).
GivesUpOnlyWhenExhausted ==
    [][\A t \in Threads : GiveUp(t) =>
          /\ retry[t] = config.maxRetry
          /\ Cardinality(usedConnections) = config.poolSize]_vars

\* A getConn() call returns, unless the process dies or other threads keep
\* taking the mutex for ever: no wait depends on somebody returning a
\* connection, not even when every thread holds one and waits for another.
GetConnReturns ==
    \A t \in Threads :
        <>[](mu \in {t, NoThread})
            => [](pc[t] # "client" => <>(pc[t] = "client" \/ ~alive))

-----------------------------------------------------------------------------
(* The inductive invariant behind PoolConsistent, SingleOwner and WithinCapacity *)

\* The mutex is owned by the thread that is in the critical section of getConn(),
\* and a call in progress has a variable to return to.
MutexInv ==
    \A t \in Threads : /\ mu = t <=> pc[t] \in {"test", "branch", "connect"}
                       /\ pc[t] # "client" => dest[t] \in Handles

\* Ids are handed out in increasing order, and the pool holds finitely many.
IdInv ==
    /\ IsFiniteSet(idleConnections) /\ IsFiniteSet(usedConnections)
    /\ \A i \in idleConnections \cup usedConnections : 0 < i /\ i < globalId
    /\ \A h \in Handles : isOpen(conn[h]) => conn[h].id < globalId

\* A handle's session and pool pointer are those its id was created with.
HandleInv ==
    \A h \in Handles : /\ conn[h].ptr \in {0, conn[h].id}
                       /\ conn[h].pool => isOpen(conn[h])

\* Inside the critical section total counts the pool, a thread that sleeps has
\* retries left, and a thread that connects found room for one more.
TotalInv ==
    \A t \in Threads :
        /\ pc[t] \in {"test", "branch", "connect"} => total[t] = Occupied
        /\ pc[t] = "waiting" => \E c \in Configs : retry[t] < c.maxRetry
        /\ pc[t] = "connect" => /\ idleConnections = {}
                                /\ \E c \in Configs : total[t] < c.poolSize

IndInv ==
    /\ TypeOK
    /\ MutexInv
    /\ IdInv
    /\ HandleInv
    /\ TotalInv
    /\ PoolConsistent
    /\ SingleOwner
    /\ WithinCapacity

(* What NoSlotLeak rests on when Model and Migrator are the only clients *)

\* A getConn() in progress has a fresh variable of its own to return to.
FreshInv ==
    \A t \in Threads :
        /\ pc[t] = "client" <=> dest[t] = NoHandle
        /\ pc[t] # "client" => conn[dest[t]] \in NoConn
        /\ \A u \in Threads : u # t /\ dest[u] = dest[t] => dest[t] = NoHandle

LibraryInv == IndInv /\ FreshInv /\ NoSlotLeak

(* What GivesUpOnlyWhenExhausted rests on when configure() never changes anything *)

\* The retry loop counts up to maxRetry, and leaving it without an idle
\* connection or room for a new one means that it got there.
RetryInv ==
    \A t \in Threads :
        /\ pc[t] = "waiting" => retry[t] < config.maxRetry
        /\ pc[t] = "test" => retry[t] <= config.maxRetry
        /\ pc[t] = "branch" /\ idleConnections = {} /\ ~HasRoom(t)
              => retry[t] = config.maxRetry /\ total[t] = config.poolSize

-----------------------------------------------------------------------------
(* Refinement *)

\* The connection a handle holds as far as the pool is concerned.
Held(h) == IF conn[h].pool /\ conn[h].id \in usedConnections THEN conn[h].id ELSE 0

Promise == INSTANCE PoolSpec WITH
    Holders <- Handles, Conns <- Nat \ {0}, None <- 0,
    Sizes <- {c.poolSize : c \in Configs},
    free <- idleConnections, out <- usedConnections,
    lent <- [h \in Handles |-> Held(h)]

\* The pool with its mutex, retry loop, unlocked configure() and move-only
\* handles implements the promise, for any client.
ImplementsPoolSpec == Promise!Spec

=============================================================================
