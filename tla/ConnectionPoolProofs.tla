------------------------ MODULE ConnectionPoolProofs ------------------------
(***************************************************************************)
(* Proofs about ConnectionPool, for any threads, handle variables and      *)
(* configurations, and that it implements PoolSpec.                        *)
(***************************************************************************)
EXTENDS ConnectionPool, TLAPS, FiniteSetTheorems

USE DEF poolVars, threadVars

-----------------------------------------------------------------------------
(* The inductive invariant *)

\* A default-constructed handle owns no session and knows no pool.
LEMMA NoConnOwnsNothing ==
  ASSUME NEW c \in NoConn
  PROVE  c \in SqlConn /\ c.ptr = 0 /\ c.pool = FALSE
<1>1. c = [ptr |-> c.ptr, id |-> c.id, pool |-> c.pool]
  BY DEF NoConn
<1>2. c.ptr = 0 /\ c.id \in Garbage /\ c.pool = FALSE
  BY DEF NoConn
<1>3. c.id \in Int
  BY <1>2, GarbageAssumption
<1>4. [ptr |-> 0, id |-> c.id, pool |-> FALSE] \in SqlConn
  BY <1>3 DEF SqlConn
<1>5. c = [ptr |-> 0, id |-> c.id, pool |-> FALSE]
  BY <1>1, <1>2, Zenon
<1> QED BY <1>2, <1>4, <1>5, Zenon

\* The empty pool of a process that has just started satisfies the invariant.
LEMMA InitInd == Init => IndInv
<1> SUFFICES ASSUME Init PROVE IndInv
  OBVIOUS
<1>1. TypeOK
  <2>1. conn \in [Handles -> SqlConn]
    BY NoConnOwnsNothing DEF Init
  <2>2. \A t \in Threads : \E c \in Configs : retry[t] <= c.maxRetry
    BY ConfigAssumption DEF Init
  <2> QED BY <2>1, <2>2, ConfigAssumption DEF Init, TypeOK, AnyConfig
<1>2. MutexInv /\ HandleInv /\ TotalInv
  BY ThreadAssumption DEF Init, MutexInv, HandleInv, TotalInv, NoConn, isOpen
<1>3. IdInv
  BY FS_EmptySet DEF Init, IdInv, NoConn, isOpen
<1>4. PoolConsistent /\ SingleOwner
  BY DEF Init, PoolConsistent, SingleOwner, NoConn, isOpen
<1>5. WithinCapacity
  BY FS_EmptySet, ConfigAssumption DEF Init, WithinCapacity, Occupied
<1> QED BY <1>1, <1>2, <1>3, <1>4, <1>5 DEF IndInv

\* A step that leaves the pool, the handles and the sessions alone keeps the
\* parts of the invariant that are about them.
LEMMA DataUnchanged ==
  ASSUME IndInv, UNCHANGED <<poolVars, globalId, sessions, conn>>
  PROVE  IdInv' /\ HandleInv' /\ PoolConsistent' /\ SingleOwner' /\ WithinCapacity'
         /\ Occupied' = Occupied
  BY DEF IndInv, IdInv, HandleInv, PoolConsistent, SingleOwner, WithinCapacity, Occupied, isOpen

\* The pool's size is a natural number that the id sets determine.
LEMMA OccupiedNat == IndInv => Occupied \in Nat
  BY FS_CardinalityType DEF IndInv, IdInv, Occupied

\* Calling getConn() touches neither the pool nor a handle.
LEMMA CallInd ==
  ASSUME IndInv, NEW t \in Threads, NEW h \in Handles, Call(t, h)
  PROVE  IndInv'
<1>1. IdInv' /\ HandleInv' /\ PoolConsistent' /\ SingleOwner' /\ WithinCapacity' /\ Occupied' = Occupied
  BY DataUnchanged DEF Call
<1>2. TypeOK'
  BY DEF IndInv, TypeOK, Call
<1>3. MutexInv'
  BY DEF IndInv, MutexInv, TypeOK, Call
<1>4. TotalInv'
  BY <1>1 DEF IndInv, TotalInv, TypeOK, Call
<1> QED BY <1>1, <1>2, <1>3, <1>4 DEF IndInv

\* Taking the mutex, at the start of getConn() or after a timed wait, recomputes
\* total, so that it counts the pool.
LEMMA EnterInd ==
  ASSUME IndInv, NEW t \in Threads, Lock(t) \/ Wake(t)
  PROVE  IndInv'
<1>1. IdInv' /\ HandleInv' /\ PoolConsistent' /\ SingleOwner' /\ WithinCapacity' /\ Occupied' = Occupied
  BY DataUnchanged DEF Lock, Wake
<1>0. Occupied \in Nat
  BY OccupiedNat
<1>2. TypeOK'
  <2>1. total' = [total EXCEPT ![t] = Occupied] /\ retry' \in [Threads -> Nat]
    BY DEF IndInv, TypeOK, Lock, Wake
  <2>2. total' \in [Threads -> Nat]
    BY <1>0, <2>1 DEF IndInv, TypeOK
  <2>3. \A u \in Threads : \E c \in Configs : retry'[u] <= c.maxRetry
    <3>1. CASE Lock(t)
      BY <3>1, ConfigAssumption DEF IndInv, TypeOK, Lock
    <3>2. CASE Wake(t)
      <4>1. PICK c \in Configs : retry[t] < c.maxRetry
        BY <3>2 DEF IndInv, TotalInv, Wake
      <4>2. retry[t] \in Nat /\ c.maxRetry \in Nat /\ retry' = [retry EXCEPT ![t] = retry[t] + 1]
        BY <3>2, ConfigAssumption DEF IndInv, TypeOK, Wake
      <4>3. retry'[t] <= c.maxRetry
        BY <4>1, <4>2 DEF IndInv, TypeOK
      <4> QED BY <4>2, <4>3 DEF IndInv, TypeOK
    <3> QED BY <3>1, <3>2
  <2> QED BY <2>1, <2>2, <2>3 DEF IndInv, TypeOK, Lock, Wake
<1>3. MutexInv'
  BY ThreadAssumption DEF IndInv, MutexInv, TypeOK, Lock, Wake
<1>4. TotalInv'
  BY <1>1, OccupiedNat, ThreadAssumption DEF IndInv, MutexInv, TotalInv, TypeOK, Lock, Wake
<1> QED BY <1>1, <1>2, <1>3, <1>4 DEF IndInv

\* The steps of getConn() that change only its own control state.
LEMMA LocalInd ==
  ASSUME IndInv, NEW t \in Threads, Wait(t) \/ LeaveLoop(t) \/ StartConnect(t)
  PROVE  IndInv'
<1>1. IdInv' /\ HandleInv' /\ PoolConsistent' /\ SingleOwner' /\ WithinCapacity' /\ Occupied' = Occupied
  BY DataUnchanged DEF Wait, LeaveLoop, StartConnect
<1>2. TypeOK'
  BY DEF IndInv, TypeOK, Wait, LeaveLoop, StartConnect
<1>3. MutexInv'
  BY ThreadAssumption DEF IndInv, MutexInv, TypeOK, Wait, LeaveLoop, StartConnect
<1>4. TotalInv'
  BY <1>1 DEF IndInv, MutexInv, TotalInv, TypeOK, AnyConfig, Wait, MustWait, LeaveLoop, StartConnect, HasRoom
<1> QED BY <1>1, <1>2, <1>3, <1>4 DEF IndInv


\* The crash steps and configure() change neither the pool nor a thread.
LEMMA FrameInd ==
  ASSUME IndInv, UNCHANGED <<threadVars, poolVars, globalId, sessions, conn>>,
         config' \in AnyConfig, request' \in Configs, alive' \in BOOLEAN
  PROVE  IndInv'
<1>1. IdInv' /\ HandleInv' /\ PoolConsistent' /\ SingleOwner' /\ WithinCapacity' /\ Occupied' = Occupied
  BY DataUnchanged
<1>2. TypeOK' /\ MutexInv'
  BY DEF IndInv, TypeOK, MutexInv
<1>3. TotalInv'
  BY <1>1 DEF IndInv, TotalInv
<1> QED BY <1>1, <1>2, <1>3 DEF IndInv

\* Return leaves nobody in the critical section.
LEMMA ReturnFrame ==
  ASSUME IndInv, NEW t \in Threads, pc[t] \in {"branch", "connect"},
         NEW c \in SqlConn, Return(t, c)
  PROVE  /\ MutexInv' /\ TotalInv'
         /\ dest[t] \in Handles
         /\ config' \in AnyConfig /\ request' \in Configs /\ mu' \in Threads \cup {NoThread}
         /\ conn' \in [Handles -> SqlConn] /\ sessions' \subseteq Nat
         /\ pc' \in [Threads -> {"client", "lock", "test", "waiting", "branch", "connect"}]
         /\ dest' \in [Threads -> Handles \cup {NoHandle}]
         /\ retry' \in [Threads -> Nat] /\ total' \in [Threads -> Nat]
         /\ \A u \in Threads : \E g \in Configs : retry'[u] <= g.maxRetry
<1>1. dest[t] \in Handles /\ mu = t
  BY DEF IndInv, TypeOK, MutexInv
<1>2. MutexInv'
  BY <1>1, ThreadAssumption DEF IndInv, TypeOK, MutexInv, Return
<1>3. TotalInv'
  <2>1. ASSUME NEW u \in Threads
        PROVE  /\ pc'[u] \notin {"test", "branch", "connect"}
               /\ pc'[u] = "waiting" => \E g \in Configs : retry'[u] < g.maxRetry
    <3>1. pc'[u] \notin {"test", "branch", "connect"}
      BY <1>1, <1>2, ThreadAssumption DEF MutexInv, Return
    <3>2. pc'[u] = "waiting" => pc[u] = "waiting" /\ retry'[u] = retry[u]
      BY DEF IndInv, TypeOK, Return
    <3> QED BY <3>1, <3>2 DEF IndInv, TotalInv
  <2> QED BY <2>1 DEF TotalInv
<1>5. \A u \in Threads : \E g \in Configs : retry'[u] <= g.maxRetry
  BY ConfigAssumption DEF IndInv, TypeOK, Return
<1>4. sessions' \subseteq Nat
  BY DEF IndInv, TypeOK, Return, SqlConn
<1> QED BY <1>1, <1>2, <1>3, <1>4, <1>5 DEF IndInv, TypeOK, Return

\* Storing in variable h a handle whose session nobody else owns, and closing
\* the session h held before, keeps every session at one owner.
LEMMA StoreKeepsOwners ==
  ASSUME IndInv, NEW h \in Handles, NEW c \in SqlConn,
         conn' = [conn EXCEPT ![h] = c],
         sessions' = (sessions \cup ({c.ptr} \ {0})) \ {conn[h].ptr},
         c.ptr # 0 => \A k \in Handles : conn[k].ptr # c.ptr,
         idleConnections' = idleConnections \ {c.ptr}
  PROVE  SingleOwner'
<1> USE DEF IndInv, TypeOK, SqlConn, isOpen
<1>0. \A i \in idleConnections : 0 < i
  BY DEF IdInv
<1>1. \A g, k \in Handles : g # k /\ isOpen(conn'[g]) => conn'[g].ptr # conn'[k].ptr
  BY DEF SingleOwner
<1>2. \A g \in Handles : conn'[g].ptr \notin idleConnections'
  BY DEF SingleOwner
<1>3. \A g \in Handles : isOpen(conn'[g]) => conn'[g].ptr \in sessions'
  BY DEF SingleOwner
<1>4. idleConnections' \subseteq sessions'
  BY <1>0 DEF SingleOwner
<1>5. ASSUME NEW i \in sessions' \ idleConnections'
      PROVE  \E g \in Handles : isOpen(conn'[g]) /\ conn'[g].ptr = i
  <2>1. CASE i = c.ptr
    BY <2>1, <1>0 DEF SingleOwner
  <2>2. CASE i # c.ptr
    <3>1. i \in sessions \ idleConnections /\ i # conn[h].ptr
      BY <2>2
    <3>2. PICK g \in Handles : isOpen(conn[g]) /\ conn[g].ptr = i
      BY <3>1 DEF SingleOwner
    <3> QED BY <3>1, <3>2
  <2> QED BY <2>1, <2>2
<1> QED BY <1>1, <1>2, <1>3, <1>4, <1>5 DEF SingleOwner

\* Storing an invalid handle, or one around a session opened just now.
LEMMA StoreFresh ==
  ASSUME IndInv, NEW h \in Handles, NEW c \in SqlConn,
         conn' = [conn EXCEPT ![h] = c],
         sessions' = (sessions \cup ({c.ptr} \ {0})) \ {conn[h].ptr},
         c.id = globalId, c.ptr \in {0, globalId}, c.pool => c.ptr # 0,
         globalId' = globalId + 1, UNCHANGED <<idleConnections, connections>>
  PROVE  /\ HandleInv' /\ SingleOwner'
         /\ \A k \in Handles : isOpen(conn'[k]) => conn'[k].id < globalId'
         /\ globalId' \in Nat \ {0}
<1>1. c.ptr # 0 => \A k \in Handles : conn[k].ptr # c.ptr
  BY DEF IndInv, TypeOK, IdInv, HandleInv, SqlConn, isOpen
<1>2. idleConnections' = idleConnections \ {c.ptr}
  BY DEF IndInv, TypeOK, IdInv
<1>3. SingleOwner'
  BY <1>1, <1>2, StoreKeepsOwners
<1>4. HandleInv'
  BY DEF IndInv, TypeOK, HandleInv, isOpen, SqlConn
<1>5. (\A k \in Handles : isOpen(conn'[k]) => conn'[k].id < globalId') /\ globalId' \in Nat \ {0}
  BY DEF IndInv, TypeOK, IdInv, SqlConn
<1> QED BY <1>3, <1>4, <1>5

\* A handle the pool does not count: refused, exhausted, or failed its test.
LEMMA ReturnUncountedInd ==
  ASSUME IndInv, NEW t \in Threads, GiveUp(t) \/ ConnectRefused(t) \/ ConnectTestFailed(t)
  PROVE  IndInv'
<1>1. PICK c \in SqlConn : /\ Return(t, c) /\ c.id = globalId
                           /\ c.ptr \in {0, globalId} /\ (c.pool => c.ptr # 0)
  <2>1. InvalidConn(globalId) \in SqlConn /\ OpenConn(globalId, TRUE) \in SqlConn
    BY DEF IndInv, TypeOK, SqlConn, InvalidConn, OpenConn
  <2> QED BY <2>1 DEF IndInv, TypeOK, GiveUp, ConnectRefused, ConnectTestFailed, InvalidConn, OpenConn
<1>2. pc[t] \in {"branch", "connect"} /\ globalId' = globalId + 1 /\ UNCHANGED <<poolVars, alive>>
  BY DEF GiveUp, ConnectRefused, ConnectTestFailed
<1>3. MutexInv' /\ TotalInv' /\ dest[t] \in Handles
  BY <1>1, <1>2, ReturnFrame
<1>4. HandleInv' /\ SingleOwner' /\ (\A k \in Handles : isOpen(conn'[k]) => conn'[k].id < globalId') /\ globalId' \in Nat \ {0}
  BY <1>1, <1>2, <1>3, StoreFresh DEF Return
<1>5. TypeOK'
  BY <1>1, <1>2, <1>4, ReturnFrame DEF IndInv, TypeOK
<1>6. IdInv'
  BY <1>2, <1>4 DEF IndInv, TypeOK, IdInv
<1>7. PoolConsistent' /\ WithinCapacity'
  BY <1>2 DEF IndInv, PoolConsistent, WithinCapacity, Occupied
<1> QED BY <1>3, <1>4, <1>5, <1>6, <1>7 DEF IndInv

\* A new connection that passed its test is counted as used; the room found
\* before the connect is still there, since the mutex was held.
LEMMA ConnectOkInd ==
  ASSUME IndInv, NEW t \in Threads, ConnectOk(t)
  PROVE  IndInv'
<1> DEFINE c == OpenConn(globalId, TRUE)
<1>1. c \in SqlConn /\ c.id = globalId /\ c.ptr \in {0, globalId} /\ (c.pool => c.ptr # 0)
  BY DEF IndInv, TypeOK, SqlConn, OpenConn
<1>2. /\ pc[t] = "connect" /\ globalId' = globalId + 1 /\ Return(t, c)
      /\ usedConnections' = usedConnections \cup {globalId}
      /\ UNCHANGED <<idleConnections, connections, alive>>
  BY DEF ConnectOk
<1> HIDE DEF c
<1>3. MutexInv' /\ TotalInv' /\ dest[t] \in Handles
  BY <1>1, <1>2, ReturnFrame
<1>4. HandleInv' /\ SingleOwner' /\ (\A k \in Handles : isOpen(conn'[k]) => conn'[k].id < globalId') /\ globalId' \in Nat \ {0}
  BY <1>1, <1>2, <1>3, StoreFresh DEF Return
<1>5. TypeOK'
  BY <1>1, <1>2, <1>4, ReturnFrame DEF IndInv, TypeOK
<1>6. globalId \notin usedConnections /\ globalId \notin idleConnections
  BY DEF IndInv, TypeOK, IdInv
<1>7. IdInv'
  <2>1. IsFiniteSet(idleConnections') /\ IsFiniteSet(usedConnections')
    BY <1>2, FS_AddElement DEF IndInv, IdInv
  <2>2. \A i \in idleConnections' \cup usedConnections' : 0 < i /\ i < globalId'
    BY <1>2 DEF IndInv, TypeOK, IdInv
  <2> QED BY <2>1, <2>2, <1>4 DEF IdInv
<1>8. PoolConsistent'
  BY <1>2, <1>6 DEF IndInv, PoolConsistent
<1>9. WithinCapacity'
  <2>0. Cardinality(idleConnections) \in Nat /\ Cardinality(usedConnections) \in Nat
    BY FS_CardinalityType DEF IndInv, IdInv
  <2>1a. /\ Cardinality(idleConnections') = Cardinality(idleConnections)
         /\ Cardinality(usedConnections') = Cardinality(usedConnections) + 1
    BY <1>2, <1>6, FS_AddElement DEF IndInv, IdInv
  <2>1. Occupied' = Occupied + 1
    BY <2>0, <2>1a DEF Occupied
  <2>2. PICK g \in Configs : Occupied < g.poolSize
    BY <1>2 DEF IndInv, TotalInv
  <2>3. Occupied \in Nat /\ g.poolSize \in Nat
    BY OccupiedNat, ConfigAssumption
  <2> QED BY <2>1, <2>2, <2>3 DEF WithinCapacity
<1> QED BY <1>3, <1>4, <1>5, <1>7, <1>8, <1>9 DEF IndInv

\* Lending an idle connection moves its id from one set to the other.
LEMMA ReuseInd ==
  ASSUME IndInv, NEW t \in Threads, Reuse(t)
  PROVE  IndInv'
<1>1. PICK connId \in idleConnections :
          /\ Return(t, connections[connId])
          /\ idleConnections' = idleConnections \ {connId}
          /\ connections' = [i \in DOMAIN connections \ {connId} |-> connections[i]]
          /\ usedConnections' = usedConnections \cup {connId}
  BY DEF Reuse
<1> DEFINE c == connections[connId]
<1>2. c \in SqlConn /\ c.ptr = connId /\ c.id = connId /\ c.pool /\ connId \in Nat \ {0} /\ connId < globalId
  BY DEF IndInv, TypeOK, IdInv, PoolConsistent, OpenConn, SqlConn
<1>3. pc[t] = "branch" /\ UNCHANGED <<globalId, alive>> /\ Return(t, c)
  BY <1>1 DEF Reuse
<1> HIDE DEF c
<1>4. MutexInv' /\ TotalInv' /\ dest[t] \in Handles
  BY <1>2, <1>3, ReturnFrame
<1>5. SingleOwner'
  <2>1. \A k \in Handles : conn[k].ptr # c.ptr
    BY <1>2 DEF IndInv, SingleOwner
  <2> QED BY <1>1, <1>2, <1>3, <1>4, <2>1, StoreKeepsOwners DEF Return
<1>6. TypeOK'
  <2>1. /\ idleConnections' \subseteq Nat /\ usedConnections' \subseteq Nat
        /\ DOMAIN connections' \subseteq Nat
        /\ \A i \in DOMAIN connections' : connections'[i] \in SqlConn
    BY <1>1, <1>2 DEF IndInv, TypeOK
  <2> QED BY <1>2, <1>3, <2>1, ReturnFrame DEF IndInv, TypeOK
<1>7. HandleInv'
  BY <1>2, <1>3, <1>4 DEF IndInv, TypeOK, HandleInv, Return, isOpen
<1>8. IdInv'
  <2>1. IsFiniteSet(idleConnections') /\ IsFiniteSet(usedConnections')
    BY <1>1, FS_AddElement, FS_RemoveElement DEF IndInv, IdInv
  <2> QED BY <1>1, <1>2, <1>3, <1>4, <2>1 DEF IndInv, TypeOK, IdInv, Return
<1>9. PoolConsistent'
  BY <1>1 DEF IndInv, PoolConsistent
<1>10. WithinCapacity'
  <2>1. connId \notin usedConnections
    BY DEF IndInv, PoolConsistent
  <2>2. /\ Cardinality(idleConnections') = Cardinality(idleConnections) - 1
        /\ Cardinality(usedConnections') = Cardinality(usedConnections) + 1
    BY <1>1, <2>1, FS_AddElement, FS_RemoveElement DEF IndInv, IdInv
  <2>3. Cardinality(idleConnections) \in Nat /\ Cardinality(usedConnections) \in Nat
    BY FS_CardinalityType DEF IndInv, IdInv
  <2>4. Occupied' = Occupied
    BY <2>2, <2>3 DEF Occupied
  <2> QED BY <2>4 DEF IndInv, WithinCapacity
<1> QED BY <1>4, <1>5, <1>6, <1>7, <1>8, <1>9, <1>10 DEF IndInv

\* Giving a lent connection back moves its id and its session into the pool.
LEMMA ReleaseInd ==
  ASSUME IndInv, NEW h \in Handles, Releasable(conn[h]), ReleaseConn(h),
         NEW c \in SqlConn, c.ptr = 0, c.pool = FALSE,
         conn' = [conn EXCEPT ![h] = c], UNCHANGED <<config, request, threadVars, globalId, alive>>
  PROVE  IndInv'
<1> DEFINE i == conn[h].id
<1>1. /\ i \in usedConnections /\ i \notin idleConnections /\ conn[h] \in SqlConn
      /\ conn[h].ptr = i /\ i # 0 /\ i \in Nat /\ conn[h] = OpenConn(i, TRUE)
  <2>1. conn[h] \in SqlConn /\ i \in usedConnections /\ conn[h].pool
    BY DEF IndInv, TypeOK, Releasable
  <2>2. conn[h].ptr = i /\ i # 0
    BY <2>1 DEF IndInv, HandleInv, isOpen
  <2>3. i \notin idleConnections
    BY <2>1 DEF IndInv, PoolConsistent
  <2> QED BY <2>1, <2>2, <2>3 DEF SqlConn, OpenConn
<1>2. /\ mu = NoThread
      /\ usedConnections' = usedConnections \ {i}
      /\ idleConnections' = idleConnections \cup {i}
      /\ connections' = [j \in DOMAIN connections \cup {i} |->
                            IF j = i THEN conn[h] ELSE connections[j]]
      /\ sessions' = sessions
  BY <1>1 DEF IndInv, PoolConsistent, ReleaseConn
<1> HIDE DEF i
<1>3. TypeOK'
  <2>1. conn' \in [Handles -> SqlConn]
    BY DEF IndInv, TypeOK
  <2>2. /\ idleConnections' \subseteq Nat /\ usedConnections' \subseteq Nat
        /\ DOMAIN connections' \subseteq Nat
        /\ \A j \in DOMAIN connections' : connections'[j] \in SqlConn
    BY <1>1, <1>2 DEF IndInv, TypeOK
  <2> QED BY <1>2, <2>1, <2>2 DEF IndInv, TypeOK
<1>4. MutexInv'
  BY DEF IndInv, MutexInv
<1>5. TotalInv'
  BY <1>2, ThreadAssumption DEF IndInv, MutexInv, TotalInv
<1>6. IdInv'
  <2>1. IsFiniteSet(idleConnections') /\ IsFiniteSet(usedConnections')
    BY <1>2, FS_AddElement, FS_RemoveElement DEF IndInv, IdInv
  <2>2. \A k \in Handles : isOpen(conn'[k]) => conn'[k].id < globalId'
    BY DEF IndInv, TypeOK, IdInv, isOpen
  <2> QED BY <1>1, <1>2, <2>1, <2>2 DEF IndInv, IdInv
<1>7. HandleInv'
  BY DEF IndInv, TypeOK, HandleInv, isOpen
<1>8. PoolConsistent'
  BY <1>1, <1>2 DEF IndInv, PoolConsistent
<1>9. SingleOwner'
  <2> USE DEF IndInv, TypeOK, isOpen
  <2>1. /\ \A g, k \in Handles : g # k /\ isOpen(conn'[g]) => conn'[g].ptr # conn'[k].ptr
        /\ \A g \in Handles : isOpen(conn'[g]) => conn'[g].ptr \in sessions'
    BY <1>2 DEF SingleOwner
  <2>2. ASSUME NEW g \in Handles PROVE conn'[g].ptr \notin idleConnections'
    <3>1. CASE g = h
      <4>1. conn'[g].ptr = 0
        BY <3>1
      <4>2. 0 \notin idleConnections
        BY DEF IdInv
      <4> QED BY <1>1, <1>2, <4>1, <4>2
    <3>2. CASE g # h
      <4>1. conn'[g] = conn[g] /\ conn[g].ptr \notin idleConnections /\ conn[g].ptr # conn[h].ptr
        BY <1>1, <3>2 DEF SingleOwner
      <4> QED BY <1>1, <1>2, <4>1
    <3> QED BY <3>1, <3>2
  <2>3. idleConnections' \subseteq sessions'
    BY <1>1, <1>2 DEF SingleOwner
  <2>4. ASSUME NEW j \in sessions' \ idleConnections'
        PROVE  \E g \in Handles : isOpen(conn'[g]) /\ conn'[g].ptr = j
    <3>1. PICK g \in Handles : isOpen(conn[g]) /\ conn[g].ptr = j
      BY <1>2, <2>4 DEF SingleOwner
    <3>2. g # h
      BY <1>1, <1>2, <2>4, <3>1
    <3> QED BY <3>1, <3>2
  <2> QED BY <2>1, <2>2, <2>3, <2>4 DEF SingleOwner
<1>10. WithinCapacity'
  <2>1. Cardinality(idleConnections) \in Nat /\ Cardinality(usedConnections) \in Nat
    BY FS_CardinalityType DEF IndInv, IdInv
  <2>2. /\ Cardinality(idleConnections') = Cardinality(idleConnections) + 1
        /\ Cardinality(usedConnections') = Cardinality(usedConnections) - 1
    BY <1>1, <1>2, FS_AddElement, FS_RemoveElement DEF IndInv, IdInv
  <2>3. Occupied' = Occupied
    BY <2>1, <2>2 DEF Occupied
  <2> QED BY <2>3 DEF IndInv, WithinCapacity
<1> QED BY <1>3, <1>4, <1>5, <1>6, <1>7, <1>8, <1>9, <1>10 DEF IndInv

\* Closing the session a variable holds, without the pool being told.
LEMMA DiscardInd ==
  ASSUME IndInv, NEW h \in Handles, NEW c \in NoConn, conn' = [conn EXCEPT ![h] = c],
         sessions' = sessions \ {conn[h].ptr},
         UNCHANGED <<config, request, threadVars, poolVars, globalId, alive>>
  PROVE  IndInv'
<1>1. c \in SqlConn /\ c.ptr = 0 /\ c.pool = FALSE
  BY NoConnOwnsNothing
<1>2. idleConnections' = idleConnections \ {c.ptr}
  BY <1>1 DEF IndInv, IdInv
<1>3. SingleOwner'
  BY <1>1, <1>2, StoreKeepsOwners
<1>4. TypeOK'
  BY <1>1 DEF IndInv, TypeOK
<1>5. MutexInv' /\ PoolConsistent'
  BY DEF IndInv, MutexInv, PoolConsistent
<1>6. HandleInv'
  BY <1>1 DEF IndInv, TypeOK, HandleInv, isOpen
<1>7. IdInv'
  BY <1>1 DEF IndInv, TypeOK, IdInv, isOpen
<1>8. TotalInv' /\ WithinCapacity'
  BY DEF IndInv, TotalInv, WithinCapacity, Occupied
<1> QED BY <1>3, <1>4, <1>5, <1>6, <1>7, <1>8 DEF IndInv

\* SqlConn::close() on a handle the pool lent.
LEMMA CloseInd ==
  ASSUME IndInv, NEW t \in Threads, NEW h \in Handles, Close(t, h)
  PROVE  IndInv'
<1> DEFINE c == MovedFrom(conn[h])
<1>1. c \in SqlConn /\ c.ptr = 0 /\ c.pool = FALSE /\ c.id = conn[h].id
  BY DEF IndInv, TypeOK, SqlConn, MovedFrom
<1>2. /\ Releasable(conn[h]) /\ ReleaseConn(h) /\ conn' = [conn EXCEPT ![h] = c]
      /\ UNCHANGED <<config, request, threadVars, globalId, alive>>
  BY DEF Close
<1> HIDE DEF c
<1> QED BY <1>1, <1>2, ReleaseInd

\* ~Model and ~Migrator, on any handle.
LEMMA DestroyInd ==
  ASSUME IndInv, NEW t \in Threads, NEW h \in Handles, Destroy(t, h)
  PROVE  IndInv'
<1>2. PICK c \in NoConn : conn' = [conn EXCEPT ![h] = c]
  BY DEF Destroy
<1>1. /\ c \in SqlConn /\ c.ptr = 0 /\ c.pool = FALSE
      /\ UNCHANGED <<config, request, threadVars, globalId, alive>>
  BY NoConnOwnsNothing DEF Destroy
<1>3. CASE Releasable(conn[h]) /\ ReleaseConn(h)
  BY <1>1, <1>2, <1>3, ReleaseInd
<1>4. CASE sessions' = sessions \ {conn[h].ptr} /\ UNCHANGED poolVars
  BY <1>1, <1>2, <1>4, DiscardInd
<1> QED BY <1>3, <1>4 DEF Destroy

\* getMetadata() opens a session of its own, which no pool owns.
LEMMA GetMetadataInd ==
  ASSUME IndInv, NEW t \in Threads, NEW h \in Handles, NEW k \in Handles, GetMetadata(t, h, k)
  PROVE  IndInv'
<1>1. PICK c \in SqlConn : /\ conn' = [conn EXCEPT ![k] = c]
                           /\ sessions' = sessions \cup ({c.ptr} \ {0})
                           /\ c.id = globalId /\ c.ptr \in {0, globalId} /\ c.pool = FALSE
  <2>1. InvalidConn(globalId) \in SqlConn /\ OpenConn(globalId, FALSE) \in SqlConn
    BY DEF IndInv, TypeOK, SqlConn, InvalidConn, OpenConn
  <2>2. CASE conn' = [conn EXCEPT ![k] = OpenConn(globalId, FALSE)] /\ sessions' = sessions \cup {globalId}
    BY <2>1, <2>2 DEF IndInv, TypeOK, OpenConn
  <2>3. CASE conn' = [conn EXCEPT ![k] = InvalidConn(globalId)] /\ UNCHANGED sessions
    BY <2>1, <2>3 DEF InvalidConn
  <2> QED BY <2>2, <2>3 DEF GetMetadata
<1>2. /\ conn[k].ptr = 0 /\ globalId' = globalId + 1
      /\ UNCHANGED <<config, request, threadVars, poolVars, alive>>
  BY DEF GetMetadata, NoConn
<1>3. sessions' = (sessions \cup ({c.ptr} \ {0})) \ {conn[k].ptr}
  <2>1. 0 \notin sessions
    BY DEF IndInv, SingleOwner, IdInv, isOpen
  <2> QED BY <1>1, <1>2, <2>1
<1>4. HandleInv' /\ SingleOwner' /\ (\A g \in Handles : isOpen(conn'[g]) => conn'[g].id < globalId') /\ globalId' \in Nat \ {0}
  BY <1>1, <1>2, <1>3, StoreFresh
<1>5. TypeOK'
  <2>1. sessions' \subseteq Nat /\ conn' \in [Handles -> SqlConn]
    BY <1>1 DEF IndInv, TypeOK, SqlConn
  <2> QED BY <1>2, <1>4, <2>1 DEF IndInv, TypeOK
<1>6. IdInv'
  BY <1>2, <1>4 DEF IndInv, TypeOK, IdInv
<1>7. MutexInv' /\ PoolConsistent'
  BY <1>2 DEF IndInv, MutexInv, PoolConsistent
<1>8. TotalInv' /\ WithinCapacity'
  BY <1>2 DEF IndInv, TotalInv, WithinCapacity, Occupied
<1> QED BY <1>4, <1>5, <1>6, <1>7, <1>8 DEF IndInv

\* Move assignment passes the session on and closes the one it overwrites.
LEMMA MoveAssignInd ==
  ASSUME IndInv, NEW t \in Threads, NEW h \in Handles, NEW k \in Handles, MoveAssign(t, h, k)
  PROVE  IndInv'
<1> USE DEF IndInv, TypeOK
<1>1. MovedFrom(conn[h]) \in SqlConn /\ conn[h] \in SqlConn
  BY DEF SqlConn, MovedFrom
<1>2. /\ h # k /\ sessions' = sessions \ {conn[k].ptr}
      /\ conn' = [conn EXCEPT ![k] = conn[h], ![h] = MovedFrom(conn[h])]
      /\ UNCHANGED <<config, request, threadVars, poolVars, globalId, alive>>
  BY DEF MoveAssign
<1>3. /\ conn' \in [Handles -> SqlConn] /\ conn'[k] = conn[h] /\ conn'[h] = MovedFrom(conn[h])
      /\ \A g \in Handles \ {h, k} : conn'[g] = conn[g]
  BY <1>1, <1>2
<1>4. TypeOK' /\ MutexInv' /\ PoolConsistent'
  BY <1>2, <1>3 DEF MutexInv, PoolConsistent
<1>5. HandleInv'
  BY <1>2, <1>3 DEF HandleInv, MovedFrom, isOpen
<1>6. IdInv'
  BY <1>2, <1>3 DEF IdInv, MovedFrom, isOpen
<1>7. TotalInv' /\ WithinCapacity'
  BY <1>2 DEF TotalInv, WithinCapacity, Occupied
<1>8. SingleOwner'
  <2> USE DEF isOpen, MovedFrom
  <2>1. /\ \A f, g \in Handles : f # g /\ isOpen(conn'[f]) => conn'[f].ptr # conn'[g].ptr
    BY <1>3 DEF SingleOwner
  <2>2. \A g \in Handles : conn'[g].ptr \notin idleConnections'
    BY <1>2, <1>3 DEF SingleOwner, IdInv
  <2>3. \A g \in Handles : isOpen(conn'[g]) => conn'[g].ptr \in sessions'
    BY <1>2, <1>3 DEF SingleOwner
  <2>4. idleConnections' \subseteq sessions'
    BY <1>2 DEF SingleOwner
  <2>5. ASSUME NEW j \in sessions' \ idleConnections'
        PROVE  \E g \in Handles : isOpen(conn'[g]) /\ conn'[g].ptr = j
    <3>1. PICK g \in Handles : isOpen(conn[g]) /\ conn[g].ptr = j /\ g # k
      BY <1>2, <2>5 DEF SingleOwner
    <3> QED BY <1>3, <3>1
  <2> QED BY <2>1, <2>2, <2>3, <2>4, <2>5 DEF SingleOwner
<1> QED BY <1>4, <1>5, <1>6, <1>7, <1>8

-----------------------------------------------------------------------------
(* Theorems *)

\* Every step of every client preserves the invariant.
LEMMA NextInd == IndInv /\ [AnyClientNext]_vars => IndInv'
<1> SUFFICES ASSUME IndInv, [AnyClientNext]_vars PROVE IndInv'
  OBVIOUS
<1>1. ASSUME NEW t \in Threads, GetConnStep(t) PROVE IndInv'
  <2>1. CASE Lock(t) \/ Wake(t)
    BY <2>1, EnterInd
  <2>2. CASE Wait(t) \/ LeaveLoop(t) \/ StartConnect(t)
    BY <2>2, LocalInd
  <2>3. CASE Reuse(t)
    BY <2>3, ReuseInd
  <2>4. CASE GiveUp(t) \/ ConnectRefused(t) \/ ConnectTestFailed(t)
    BY <2>4, ReturnUncountedInd
  <2>5. CASE ConnectOk(t)
    BY <2>5, ConnectOkInd
  <2>6. CASE ConnectTestCrash(t)
    BY <2>6, FrameInd DEF ConnectTestCrash, IndInv, TypeOK
  <2> QED BY <1>1, <2>1, <2>2, <2>3, <2>4, <2>5, <2>6 DEF GetConnStep
<1>2. CASE CommonStep
  <2>1. ASSUME NEW t \in Threads, NEW h \in Handles, GetMetadataCrash(t, h) PROVE IndInv'
    BY <2>1, FrameInd DEF GetMetadataCrash, IndInv, TypeOK
  <2>2. ASSUME NEW c \in Configs, Configure(c) PROVE IndInv'
    BY <2>2, FrameInd DEF Configure, IndInv, TypeOK
  <2>3. CASE WriteField
    <3>1. config' \in AnyConfig
      BY <2>3 DEF WriteField, AnyConfig, IndInv, TypeOK
    <3> QED BY <2>3, <3>1, FrameInd DEF WriteField, IndInv, TypeOK
  <2> QED BY <1>1, <1>2, <2>1, <2>2, <2>3, CloseInd, DestroyInd, GetMetadataInd DEF CommonStep
<1>3. ASSUME NEW t \in Threads, NEW h \in Handles, Drop(t, h) PROVE IndInv'
  BY <1>3, DiscardInd DEF Drop
<1>4. CASE UNCHANGED vars
  BY <1>4, FrameInd DEF vars, IndInv, TypeOK
<1> QED BY <1>2, <1>3, <1>4, CallInd, MoveAssignInd DEF AnyClientNext, Halted

\* For any client, any configurations and any interleaving the inductive
\* invariant holds: getConn(), releaseConn() and the moves of SqlConn keep it.
THEOREM Inductive == AnyClientSpec => []IndInv
<1>1. Init => IndInv
  BY InitInd
<1>2. IndInv /\ [AnyClientNext]_vars => IndInv'
  BY NextInd
<1> QED BY <1>1, <1>2, PTL DEF AnyClientSpec

\* Type correctness of the pool and its clients.
THEOREM TypeCorrect == AnyClientSpec => []TypeOK
<1>1. IndInv => TypeOK
  BY DEF IndInv
<1> QED BY <1>1, Inductive, PTL

\* getConn() and releaseConn() keep idleConnections, usedConnections and
\* connections in step.
THEOREM PoolIsConsistent == AnyClientSpec => []PoolConsistent
<1>1. IndInv => PoolConsistent
  BY DEF IndInv
<1> QED BY <1>1, Inductive, PTL

\* Whatever clients do with their SqlConn handles, a session has one owner and
\* is open exactly while it has one.
THEOREM SessionsHaveOneOwner == AnyClientSpec => []SingleOwner
<1>1. IndInv => SingleOwner
  BY DEF IndInv
<1> QED BY <1>1, Inductive, PTL

\* The pool never counts more connections than some configured poolSize.
THEOREM CapacityRespected == AnyClientSpec => []WithinCapacity
<1>1. IndInv => WithinCapacity
  BY DEF IndInv
<1> QED BY <1>1, Inductive, PTL

-----------------------------------------------------------------------------
(* The clients inside the library *)

\* Whatever Model and Migrator do any client may do.
LEMMA LibraryIsClient == Next => AnyClientNext
  BY DEF Next, AnyClientNext

\* A step that hands nothing out and keeps the handles keeps the slots.
LEMMA ControlKeepsSlots ==
  ASSUME LibraryInv, NEW t \in Threads,
         \/ Lock(t) \/ Wake(t) \/ Wait(t) \/ LeaveLoop(t) \/ StartConnect(t)
         \/ \E h \in Handles : conn[h] \in NoConn /\ Call(t, h)
  PROVE  FreshInv' /\ NoSlotLeak'
<1> USE DEF LibraryInv, IndInv, TypeOK, FreshInv
<1>1. CASE Lock(t) \/ Wake(t) \/ Wait(t) \/ LeaveLoop(t) \/ StartConnect(t)
  <2>1. /\ UNCHANGED <<usedConnections, conn, dest>>
        /\ \A u \in Threads : pc'[u] = "client" <=> pc[u] = "client"
    BY <1>1 DEF Lock, Wake, Wait, LeaveLoop, StartConnect
  <2> QED BY <2>1 DEF NoSlotLeak
<1>2. ASSUME NEW h \in Handles, conn[h] \in NoConn, Call(t, h)
      PROVE  FreshInv' /\ NoSlotLeak'
  <2>1. /\ UNCHANGED <<usedConnections, conn>> /\ ~Busy(h)
        /\ dest' = [dest EXCEPT ![t] = h] /\ pc' = [pc EXCEPT ![t] = "lock"]
    BY <1>2 DEF Call
  <2> QED BY <1>2, <2>1, HandleAssumption DEF NoSlotLeak, Busy
<1> QED BY <1>1, <1>2

\* getConn() returns into a variable that held nothing, so whatever was held
\* before is still held.
LEMMA ReturnKeepsSlots ==
  ASSUME LibraryInv, NEW t \in Threads, pc[t] # "client", NEW c, Return(t, c)
  PROVE  /\ FreshInv' /\ conn'[dest[t]] = c
         /\ \A h \in Handles : conn[h].pool => conn'[h] = conn[h]
<1> USE DEF LibraryInv, IndInv, TypeOK, FreshInv
<1>1. dest[t] \in Handles /\ conn[dest[t]] \in NoConn
  BY DEF MutexInv
<1>2. conn' = [conn EXCEPT ![dest[t]] = c] /\ dest' = [dest EXCEPT ![t] = NoHandle]
      /\ pc' = [pc EXCEPT ![t] = "client"]
  BY DEF Return
<1>3. \A u \in Threads \ {t} : dest[u] # dest[t]
  BY <1>1, HandleAssumption
<1>4. FreshInv'
  BY <1>1, <1>2, <1>3
<1> QED BY <1>1, <1>2, <1>4 DEF NoConn

\* The ways getConn() ends: what it counts as used is what it hands out.
LEMMA GetConnKeepsSlots ==
  ASSUME LibraryInv, NEW t \in Threads,
         Reuse(t) \/ GiveUp(t) \/ ConnectRefused(t) \/ ConnectTestFailed(t) \/ ConnectOk(t)
  PROVE  FreshInv' /\ NoSlotLeak'
<1>1. pc[t] # "client" /\ dest[t] \in Handles
  BY DEF LibraryInv, IndInv, MutexInv, Reuse, GiveUp, ConnectRefused, ConnectTestFailed, ConnectOk
<1>2. PICK c : /\ Return(t, c)
               /\ \A i \in usedConnections' \ usedConnections : c = OpenConn(i, TRUE)
  <2>1. CASE Reuse(t)
    <3>1. PICK connId \in idleConnections :
             Return(t, connections[connId]) /\ usedConnections' = usedConnections \cup {connId}
      BY <2>1 DEF Reuse
    <3>2. connections[connId] = OpenConn(connId, TRUE)
      BY DEF LibraryInv, IndInv, PoolConsistent
    <3> QED BY <3>1, <3>2
  <2>2. CASE ConnectOk(t)
    <3>1. /\ Return(t, OpenConn(globalId, TRUE))
          /\ usedConnections' = usedConnections \cup {globalId}
      BY <2>2 DEF ConnectOk
    <3> QED BY <3>1
  <2>3. CASE GiveUp(t) \/ ConnectRefused(t) \/ ConnectTestFailed(t)
    <3>1. PICK c : Return(t, c)
      BY <2>3 DEF GiveUp, ConnectRefused, ConnectTestFailed
    <3>2. usedConnections' = usedConnections
      BY <2>3 DEF GiveUp, ConnectRefused, ConnectTestFailed
    <3> QED BY <3>1, <3>2
  <2> QED BY <2>1, <2>2, <2>3
<1>3. FreshInv' /\ conn'[dest[t]] = c /\ \A h \in Handles : conn[h].pool => conn'[h] = conn[h]
  BY <1>1, <1>2, ReturnKeepsSlots
<1>4. ASSUME NEW i \in usedConnections' PROVE \E h \in Handles : conn'[h] = OpenConn(i, TRUE)
  <2>1. CASE i \notin usedConnections
    BY <1>1, <1>2, <1>3, <1>4, <2>1
  <2>2. CASE i \in usedConnections
    <3>1. PICK h \in Handles : conn[h] = OpenConn(i, TRUE)
      BY <2>2 DEF LibraryInv, NoSlotLeak
    <3>2. conn[h].pool
      BY <3>1 DEF OpenConn
    <3> QED BY <1>3, <3>1, <3>2
  <2> QED BY <2>1, <2>2
<1> QED BY <1>3, <1>4 DEF NoSlotLeak, OpenConn

\* Giving a handle back, or destroying one the pool does not count, takes no
\* other handle's slot.
LEMMA ReleaseKeepsSlots ==
  ASSUME LibraryInv, NEW t \in Threads, NEW h \in Handles, Close(t, h) \/ Destroy(t, h)
  PROVE  FreshInv' /\ NoSlotLeak'
<1>1. /\ ~Busy(h) /\ UNCHANGED <<pc, dest>>
      /\ \A k \in Handles : k # h => conn'[k] = conn[k]
  BY DEF LibraryInv, IndInv, TypeOK, Close, Destroy
<1>2. FreshInv'
  BY <1>1 DEF LibraryInv, IndInv, TypeOK, MutexInv, FreshInv, Busy
<1>3. usedConnections' \subseteq usedConnections /\ (conn[h].pool => conn[h].id \notin usedConnections')
  BY DEF Close, Destroy, Releasable, ReleaseConn
<1>4. NoSlotLeak'
  BY <1>1, <1>3 DEF LibraryInv, NoSlotLeak, OpenConn
<1> QED BY <1>2, <1>4

\* getMetadata() fills a variable that held nothing.
LEMMA GetMetadataKeepsSlots ==
  ASSUME LibraryInv, NEW t \in Threads, NEW h \in Handles, NEW k \in Handles, GetMetadata(t, h, k)
  PROVE  FreshInv' /\ NoSlotLeak'
<1>1. /\ ~Busy(k) /\ conn[k] \in NoConn /\ UNCHANGED <<pc, dest, usedConnections>>
      /\ \A g \in Handles : g # k => conn'[g] = conn[g]
  BY DEF LibraryInv, IndInv, TypeOK, GetMetadata
<1>2. FreshInv'
  BY <1>1 DEF LibraryInv, IndInv, TypeOK, MutexInv, FreshInv, Busy
<1>3. NoSlotLeak'
  <2>1. ASSUME NEW i \in usedConnections' PROVE \E g \in Handles : conn'[g] = OpenConn(i, TRUE)
    <3>1. PICK g \in Handles : conn[g] = OpenConn(i, TRUE)
      BY <1>1 DEF LibraryInv, NoSlotLeak
    <3>2. ~conn[k].pool
      BY <1>1, NoConnOwnsNothing, Zenon
    <3>3. conn[g].pool
      BY <3>1 DEF OpenConn
    <3> QED BY <1>1, <3>1, <3>2, <3>3
  <2> QED BY <2>1 DEF NoSlotLeak
<1> QED BY <1>2, <1>3

\* Every step of Model and Migrator keeps every counted connection held.
LEMMA LibraryNextInd == LibraryInv /\ [Next]_vars => LibraryInv'
<1> SUFFICES ASSUME LibraryInv, [Next]_vars PROVE LibraryInv'
  OBVIOUS
<1>1. IndInv'
  BY NextInd, LibraryIsClient DEF LibraryInv
<1> SUFFICES FreshInv' /\ NoSlotLeak'
  BY <1>1 DEF LibraryInv
<1>2. ASSUME UNCHANGED <<usedConnections, conn, pc, dest>> PROVE FreshInv' /\ NoSlotLeak'
  BY <1>2 DEF LibraryInv, FreshInv, NoSlotLeak
<1>3. ASSUME NEW t \in Threads, GetConnStep(t) PROVE FreshInv' /\ NoSlotLeak'
  <2>1. CASE ConnectTestCrash(t)
    BY <2>1, <1>2 DEF ConnectTestCrash
  <2> QED BY <1>3, <2>1, ControlKeepsSlots, GetConnKeepsSlots DEF GetConnStep
<1>4. CASE CommonStep
  <2>1. CASE \/ \E t \in Threads, h \in Handles : GetMetadataCrash(t, h)
             \/ \E c \in Configs : Configure(c)
             \/ WriteField
    BY <2>1, <1>2 DEF GetMetadataCrash, Configure, WriteField
  <2> QED BY <1>4, <2>1, <1>3, ReleaseKeepsSlots, GetMetadataKeepsSlots DEF CommonStep
<1>5. CASE \E t \in Threads, h \in Handles : conn[h] \in NoConn /\ Call(t, h)
  BY <1>5, ControlKeepsSlots
<1>6. CASE UNCHANGED vars
  BY <1>6, <1>2 DEF vars
<1> QED BY <1>4, <1>5, <1>6 DEF Next, Halted

\* With Model and Migrator as the only clients, every connection the pool
\* counts as used is held, open, by a live handle: none of the ways getConn()
\* ends, no destructor and no reconfiguration loses a slot.
THEOREM NoSlotIsLost == Spec => []NoSlotLeak
<1>1. Init => LibraryInv
  BY InitInd DEF Init, LibraryInv, FreshInv, NoSlotLeak
<1>2. LibraryInv /\ [Next]_vars => LibraryInv'
  BY LibraryNextInd
<1>3. LibraryInv => NoSlotLeak
  BY DEF LibraryInv
<1> QED BY <1>1, <1>2, <1>3, PTL DEF Spec

-----------------------------------------------------------------------------
(* The retry loop *)

\* With one configuration the fields never change, and the pool stays within
\* its size.
LEMMA ConfigFixed ==
  ASSUME NEW c, Configs = {c}, IndInv
  PROVE  /\ config.poolSize = c.poolSize /\ config.maxRetry = c.maxRetry
         /\ c.poolSize \in Nat /\ c.maxRetry \in Nat \ {0}
         /\ Occupied \in Nat /\ Occupied <= c.poolSize
  BY ConfigAssumption, OccupiedNat DEF IndInv, TypeOK, AnyConfig, WithinCapacity

\* A thread inside the critical section is alone there: the steps of other
\* threads and of configure() leave its loop as it is.
LEMMA RetryInd ==
  ASSUME NEW c, Configs = {c}, IndInv, RetryInv, [AnyClientNext]_vars
  PROVE  RetryInv'
<1>0. IndInv' /\ config'.poolSize = config.poolSize /\ config'.maxRetry = config.maxRetry
  <2>1. IndInv'
    BY NextInd
  <2>2. config'.poolSize = c.poolSize /\ config'.maxRetry = c.maxRetry
    BY <2>1 DEF IndInv, TypeOK, AnyConfig
  <2> QED BY <2>1, <2>2, ConfigFixed
<1> USE DEF RetryInv, HasRoom
<1>1. ASSUME UNCHANGED <<pc, retry, total>>,
             \A t \in Threads : pc[t] = "branch" => idleConnections' = idleConnections
      PROVE  RetryInv'
  BY <1>0, <1>1
<1>2. ASSUME NEW t \in Threads, GetConnStep(t) PROVE RetryInv'
  <2> USE DEF IndInv, TypeOK, MutexInv
  <2>1. CASE Lock(t) \/ Wake(t)
    BY <1>0, <2>1, ConfigFixed DEF Lock, Wake
  <2>2. CASE Wait(t)
    BY <1>0, <2>2 DEF Wait, MustWait
  <2>3. CASE LeaveLoop(t)
    <3>1. total[t] = Occupied /\ retry[t] \in Nat /\ retry[t] <= config.maxRetry
      BY <2>3 DEF LeaveLoop, TotalInv
    <3>2. idleConnections = {} /\ ~HasRoom(t) =>
             retry[t] = config.maxRetry /\ total[t] = config.poolSize
      BY <2>3, <3>1, ConfigFixed DEF LeaveLoop, MustWait
    <3> QED BY <1>0, <2>3, <3>2 DEF LeaveLoop
  <2>4. CASE StartConnect(t)
    BY <1>0, <2>4 DEF StartConnect
  <2>5. CASE Reuse(t) \/ GiveUp(t) \/ ConnectRefused(t) \/ ConnectOk(t) \/ ConnectTestFailed(t)
    <3>1. /\ mu = t /\ pc' = [pc EXCEPT ![t] = "client"]
          /\ retry' = [retry EXCEPT ![t] = 0]
      BY <2>5 DEF Reuse, GiveUp, ConnectRefused, ConnectOk, ConnectTestFailed, Return
    <3>2. \A u \in Threads : pc'[u] \notin {"test", "branch"}
      BY <3>1
    <3> QED BY <1>0, <3>1, <3>2
  <2>6. CASE ConnectTestCrash(t)
    BY <1>1, <2>6 DEF ConnectTestCrash
  <2> QED BY <1>2, <2>1, <2>2, <2>3, <2>4, <2>5, <2>6 DEF GetConnStep
<1>3. ASSUME NEW t \in Threads, NEW h \in Handles, Close(t, h) \/ Destroy(t, h) PROVE RetryInv'
  BY <1>1, <1>3, ThreadAssumption DEF Close, Destroy, ReleaseConn, IndInv, MutexInv
<1>4. CASE CommonStep
  <2>1. CASE \/ \E t \in Threads, h \in Handles : GetMetadataCrash(t, h)
             \/ \E t \in Threads, h, k \in Handles : GetMetadata(t, h, k)
             \/ \E g \in Configs : Configure(g)
             \/ WriteField
    BY <1>1, <2>1 DEF GetMetadataCrash, GetMetadata, Configure, WriteField
  <2> QED BY <1>2, <1>3, <1>4, <2>1 DEF CommonStep
<1>5. CASE \E t \in Threads, h \in Handles : Call(t, h)
  BY <1>0, <1>5 DEF Call, IndInv, TypeOK
<1>6. CASE \/ \E t \in Threads, h, k \in Handles : MoveAssign(t, h, k)
           \/ \E t \in Threads, h \in Handles : Drop(t, h)
           \/ UNCHANGED vars
  BY <1>1, <1>6 DEF MoveAssign, Drop, vars
<1> QED BY <1>4, <1>5, <1>6 DEF AnyClientNext, Halted

\* In a program that configures its pool once (DB's constructor passes fixed
\* numbers), getConn() fails for want of a connection only after maxRetry timed
\* waits, with poolSize connections lent out: a connection that was idle or
\* could have been opened is never refused.
THEOREM FailsOnlyWhenExhausted ==
  ASSUME NEW c, Configs = {c}
  PROVE  AnyClientSpec => GivesUpOnlyWhenExhausted
<1>1. Init => IndInv /\ RetryInv
  BY InitInd DEF Init, RetryInv
<1>2. IndInv /\ RetryInv /\ [AnyClientNext]_vars => IndInv' /\ RetryInv'
  BY NextInd, RetryInd
<1>3. IndInv /\ RetryInv =>
         \A t \in Threads : GiveUp(t) => /\ retry[t] = config.maxRetry
                                         /\ Cardinality(usedConnections) = config.poolSize
  <2> SUFFICES ASSUME IndInv, RetryInv, NEW t \in Threads, GiveUp(t)
               PROVE  /\ retry[t] = config.maxRetry
                      /\ Cardinality(usedConnections) = config.poolSize
    OBVIOUS
  <2>1. idleConnections = {} /\ retry[t] = config.maxRetry /\ total[t] = config.poolSize
    BY DEF GiveUp, RetryInv
  <2>2. Occupied = total[t]
    BY DEF GiveUp, IndInv, TotalInv
  <2>3. Cardinality(usedConnections) \in Nat /\ Cardinality(idleConnections) = 0
    BY <2>1, FS_EmptySet, FS_CardinalityType DEF IndInv, IdInv
  <2> QED BY <2>1, <2>2, <2>3 DEF Occupied
<1>4. IndInv /\ RetryInv /\ [AnyClientNext]_vars =>
         [\A t \in Threads : GiveUp(t) => /\ retry[t] = config.maxRetry
                                          /\ Cardinality(usedConnections) = config.poolSize]_vars
  BY <1>3
<1> QED BY <1>1, <1>2, <1>4, PTL DEF AnyClientSpec, GivesUpOnlyWhenExhausted

-----------------------------------------------------------------------------
(* The refinement: ConnectionPool implements PoolSpec.  A handle holds a       *)
(* connection for the promise while it points to the pool and the pool counts  *)
(* its id as used (Held); everything a thread does under or around the mutex   *)
(* before it returns is a stuttering step of the promise.                      *)

\* The refinement mapping of lent.
Lent == [h \in Handles |-> Held(h)]

\* What the promise may do in one step.
PromiseStep == Promise!Next \/ UNCHANGED <<idleConnections, usedConnections, Lent>>

\* A holder's id names the session it owns, which is neither idle nor null.
LEMMA HeldSession ==
  ASSUME IndInv, NEW h \in Handles, conn[h].pool
  PROVE  /\ conn[h].ptr = conn[h].id /\ conn[h].id # 0 /\ conn[h].id \in Nat
         /\ conn[h].id \notin idleConnections
  BY DEF IndInv, TypeOK, SqlConn, HandleInv, SingleOwner, isOpen

\* No two handles hold the same connection.
LEMMA HeldApart ==
  ASSUME IndInv, NEW h \in Handles, NEW k \in Handles, h # k, conn[h].pool, conn[k].pool
  PROVE  conn[h].id # conn[k].id
  BY HeldSession DEF IndInv, SingleOwner, HandleInv

\* A step that keeps the id sets and every holder is no step of the promise.
LEMMA Stutters ==
  ASSUME UNCHANGED <<idleConnections, usedConnections>>,
         \A h \in Handles : Held(h)' = Held(h)
  PROVE  PromiseStep
  BY DEF PromiseStep, Lent, Held

\* A step that keeps the id sets, while h may cease to hold what it held.
LEMMA Loses ==
  ASSUME UNCHANGED <<idleConnections, usedConnections>>, NEW h \in Handles,
         Held(h)' = 0, \A k \in Handles \ {h} : Held(k)' = Held(k)
  PROVE  PromiseStep
<1>1. CASE Held(h) = 0
  BY <1>1, Stutters
<1>2. CASE Held(h) # 0
  <2>1. Lent' = [Lent EXCEPT ![h] = 0] /\ Lent[h] # 0
    BY <1>2 DEF Lent, Held
  <2>2. Promise!Lose(h)
    BY <2>1 DEF Promise!Lose, Lent
  <2> QED BY <2>2 DEF PromiseStep, Promise!Next
<1> QED BY <1>1, <1>2

\* getConn() that lends an idle connection lends it to its destination.
LEMMA ReuseLends ==
  ASSUME IndInv, NEW t \in Threads, Reuse(t)
  PROVE  PromiseStep
<1>1. PICK connId \in idleConnections :
          /\ Return(t, connections[connId])
          /\ idleConnections' = idleConnections \ {connId}
          /\ usedConnections' = usedConnections \cup {connId}
  BY DEF Reuse
<1>0. PICK d \in Handles : d = dest[t]
  BY DEF IndInv, MutexInv, Reuse, ConnectOk, GiveUp, ConnectRefused, ConnectTestFailed
<1>2. connections[connId] = OpenConn(connId, TRUE)
  BY DEF IndInv, PoolConsistent
<1>3. conn' = [conn EXCEPT ![d] = OpenConn(connId, TRUE)]
  BY <1>0, <1>1, <1>2 DEF Return
<1>4. Held(d)' = connId
  BY <1>1, <1>2, <1>3 DEF Held, IndInv, TypeOK, OpenConn
<1>5. \A k \in Handles \ {d} : Held(k)' = Held(k)
  BY <1>1, <1>3, HeldSession DEF Held, IndInv, TypeOK
<1>6. Lent' = [Lent EXCEPT ![d] = connId]
  BY <1>2, <1>4, <1>5 DEF Lent, Held
<1>7. Promise!Lend(d)
  BY <1>1, <1>6 DEF Promise!Lend, Lent
<1> QED BY <1>7 DEF PromiseStep, Promise!Next

\* getConn() that connects makes a connection nobody has had, while nothing is
\* idle and some configured size leaves room.
LEMMA ConnectCreates ==
  ASSUME IndInv, NEW t \in Threads, ConnectOk(t)
  PROVE  PromiseStep
<1>0. PICK d \in Handles : d = dest[t]
  BY DEF IndInv, MutexInv, Reuse, ConnectOk, GiveUp, ConnectRefused, ConnectTestFailed
<1>1. /\ conn' = [conn EXCEPT ![d] = OpenConn(globalId, TRUE)]
      /\ usedConnections' = usedConnections \cup {globalId}
      /\ UNCHANGED idleConnections /\ pc[t] = "connect"
  BY <1>0 DEF ConnectOk, Return
<1>2. /\ idleConnections = {}
      /\ globalId \in Nat \ {0} /\ globalId \notin usedConnections
  BY <1>1 DEF IndInv, TypeOK, TotalInv, IdInv
<1>3. \E n \in {c.poolSize : c \in Configs} : Cardinality(usedConnections) < n
  <2>1. PICK c \in Configs : Occupied < c.poolSize
    BY <1>1 DEF IndInv, TotalInv
  <2>2. Cardinality(idleConnections) = 0 /\ Cardinality(usedConnections) \in Nat
    BY <1>2, FS_EmptySet, FS_CardinalityType DEF IndInv, IdInv
  <2> QED BY <2>1, <2>2 DEF Occupied
<1>4. Held(d)' = globalId
  BY <1>1, <1>2 DEF Held, IndInv, TypeOK, OpenConn
<1>5. \A k \in Handles \ {d} : Held(k)' = Held(k)
  BY <1>1, <1>2 DEF Held, IndInv, TypeOK, IdInv, HandleInv
<1>6. Lent' = [Lent EXCEPT ![d] = globalId] /\ Lent'[d] = globalId
  BY <1>2, <1>4, <1>5 DEF Lent, Held
<1>7. Promise!CreateAs(d, globalId)
  <2>1. [h \in Handles |-> Held(h)]' = [[h \in Handles |-> Held(h)] EXCEPT ![d] = globalId]
    BY <1>6 DEF Lent
  <2>2. globalId \in (Nat \ {0}) \ usedConnections
    BY <1>2
  <2>3. idleConnections' = idleConnections
    BY <1>1
  <2>4. Promise!Cardinality(usedConnections) = Cardinality(usedConnections)
    BY Zenon DEF Promise!Cardinality, Cardinality, Promise!IsFiniteSet, IsFiniteSet
  <2> QED BY <1>1, <1>2, <1>3, <2>1, <2>2, <2>3, <2>4 DEF Promise!CreateAs
<1>8. Promise!Create(d)
  BY <1>6, <1>7 DEF Promise!Create, Promise!CreateAs, Lent
<1> QED BY <1>8 DEF PromiseStep, Promise!Next

\* getConn() that ends without a connection of the pool's overwrites what its
\* destination held.
LEMMA UncountedLoses ==
  ASSUME IndInv, NEW t \in Threads, GiveUp(t) \/ ConnectRefused(t) \/ ConnectTestFailed(t)
  PROVE  PromiseStep
<1>0. PICK d \in Handles : d = dest[t]
  BY DEF IndInv, MutexInv, Reuse, ConnectOk, GiveUp, ConnectRefused, ConnectTestFailed
<1>1. PICK c : conn' = [conn EXCEPT ![d] = c] /\ c.id = globalId
  BY <1>0 DEF GiveUp, ConnectRefused, ConnectTestFailed, Return, InvalidConn, OpenConn
<1>2. UNCHANGED <<idleConnections, usedConnections>>
  BY DEF GiveUp, ConnectRefused, ConnectTestFailed
<1>3. globalId \notin usedConnections
  BY DEF IndInv, TypeOK, IdInv
<1>4. Held(d)' = 0 /\ \A k \in Handles \ {d} : Held(k)' = Held(k)
  BY <1>1, <1>2, <1>3 DEF Held, IndInv, TypeOK
<1> QED BY <1>2, <1>4, Loses

\* releaseConn() on a handle that holds a connection returns that connection.
LEMMA ReleaseReturns ==
  ASSUME IndInv, NEW h \in Handles, Releasable(conn[h]), ReleaseConn(h),
         NEW c, conn' = [conn EXCEPT ![h] = c], c.pool = FALSE
  PROVE  PromiseStep
<1>0. PICK i : i = conn[h].id
  OBVIOUS
<1>1. Held(h) = i /\ i # 0 /\ conn[h].pool
  BY <1>0, HeldSession DEF Releasable, Held
<1>2. /\ usedConnections' = usedConnections \ {i}
      /\ idleConnections' = idleConnections \cup {i}
  BY <1>0 DEF ReleaseConn
<1>3. \A k \in Handles \ {h} : conn[k].pool => conn[k].id # i
  BY <1>0, <1>1, HeldApart
<1>4. Held(h)' = 0 /\ \A k \in Handles \ {h} : Held(k)' = Held(k)
  BY <1>2, <1>3 DEF Held, IndInv, TypeOK
<1>5. Lent' = [Lent EXCEPT ![h] = 0] /\ Lent[h] = i
  BY <1>1, <1>4 DEF Lent, Held
<1>6. Promise!Return(h)
  BY <1>1, <1>2, <1>5 DEF Promise!Return, Lent
<1> QED BY <1>6 DEF PromiseStep, Promise!Next

\* A handle that is dropped, or destroyed without a connection of the pool's,
\* loses what it held.
LEMMA DropLoses ==
  ASSUME IndInv, NEW h \in Handles, NEW c \in NoConn, conn' = [conn EXCEPT ![h] = c],
         UNCHANGED <<idleConnections, usedConnections>>
  PROVE  PromiseStep
<1>1. Held(h)' = 0 /\ \A k \in Handles \ {h} : Held(k)' = Held(k)
  BY DEF Held, IndInv, TypeOK, NoConn
<1> QED BY <1>1, Loses

\* A move hands over what the source holds; what the target held is lost.
LEMMA MoveTransfers ==
  ASSUME IndInv, NEW t \in Threads, NEW h \in Handles, NEW k \in Handles, MoveAssign(t, h, k)
  PROVE  PromiseStep
<1>1. /\ conn' = [conn EXCEPT ![k] = conn[h], ![h] = MovedFrom(@)] /\ h # k
      /\ UNCHANGED <<idleConnections, usedConnections>>
  BY DEF MoveAssign
<1>2. conn'[k] = conn[h] /\ conn'[h].pool = FALSE
  BY <1>1 DEF MovedFrom, IndInv, TypeOK
<1>3. \A g \in Handles \ {h, k} : conn'[g] = conn[g]
  BY <1>1 DEF IndInv, TypeOK
<1>4. /\ Held(k)' = Held(h) /\ Held(h)' = 0
      /\ \A g \in Handles \ {h, k} : Held(g)' = Held(g)
  <2>1. usedConnections' = usedConnections
    BY <1>1
  <2> QED BY <2>1, <1>2, <1>3 DEF Held
<1>5. Lent' = [Lent EXCEPT ![k] = Lent[h], ![h] = 0]
  BY <1>1, <1>4 DEF Lent, Held
<1>6. Promise!Transfer(h, k)
  BY <1>1, <1>5 DEF Promise!Transfer, Lent
<1> QED BY <1>1, <1>6 DEF PromiseStep, Promise!Next

\* A session to information_schema does not come from the pool.
LEMMA GetMetadataStutters ==
  ASSUME IndInv, NEW t \in Threads, NEW h \in Handles, NEW k \in Handles, GetMetadata(t, h, k)
  PROVE  PromiseStep
<1>1. PICK c : conn' = [conn EXCEPT ![k] = c] /\ c.pool = FALSE
  BY DEF GetMetadata, OpenConn, InvalidConn
<1>2. ~conn[k].pool /\ UNCHANGED <<idleConnections, usedConnections>>
  BY DEF GetMetadata, NoConn
<1>3. \A g \in Handles : Held(g)' = Held(g)
  BY <1>1, <1>2 DEF Held, IndInv, TypeOK
<1> QED BY <1>2, <1>3, Stutters

\* Every step of any client is a step of the promise or changes nothing of it.
LEMMA NextImplements == IndInv /\ [AnyClientNext]_vars => PromiseStep
<1> SUFFICES ASSUME IndInv, [AnyClientNext]_vars PROVE PromiseStep
  OBVIOUS
<1>0. ASSUME UNCHANGED <<poolVars, conn>> PROVE PromiseStep
  BY <1>0, Stutters DEF Held
<1>1. ASSUME NEW t \in Threads, GetConnStep(t) PROVE PromiseStep
  <2>1. CASE Lock(t) \/ Wait(t) \/ Wake(t) \/ LeaveLoop(t) \/ StartConnect(t) \/ ConnectTestCrash(t)
    BY <1>0, <2>1 DEF Lock, Wait, Wake, LeaveLoop, StartConnect, ConnectTestCrash
  <2>2. CASE GiveUp(t) \/ ConnectRefused(t) \/ ConnectTestFailed(t)
    BY <2>2, UncountedLoses
  <2> QED BY <1>1, <2>1, <2>2, ReuseLends, ConnectCreates DEF GetConnStep
<1>2. ASSUME NEW t \in Threads, NEW h \in Handles, Close(t, h) \/ Destroy(t, h) \/ Drop(t, h)
      PROVE  PromiseStep
  <2>1. CASE Close(t, h)
    <3>1. /\ conn' = [conn EXCEPT ![h] = MovedFrom(conn[h])] /\ MovedFrom(conn[h]).pool = FALSE
          /\ Releasable(conn[h]) /\ ReleaseConn(h)
      BY <2>1 DEF Close, MovedFrom
    <3> QED BY <3>1, ReleaseReturns
  <2>2. CASE Destroy(t, h)
    <3>1. PICK c \in NoConn : conn' = [conn EXCEPT ![h] = c] /\ c.pool = FALSE
      BY <2>2 DEF Destroy, NoConn
    <3>2. \/ Releasable(conn[h]) /\ ReleaseConn(h)
          \/ UNCHANGED <<idleConnections, usedConnections>>
      BY <2>2 DEF Destroy
    <3> QED BY <3>1, <3>2, ReleaseReturns, DropLoses
  <2>3. CASE Drop(t, h)
    BY <2>3, DropLoses DEF Drop
  <2> QED BY <1>2, <2>1, <2>2, <2>3
<1>3. ASSUME NEW t \in Threads, NEW h \in Handles, NEW k \in Handles,
             GetMetadata(t, h, k) \/ MoveAssign(t, h, k)
      PROVE  PromiseStep
  BY <1>3, GetMetadataStutters, MoveTransfers
<1>4. CASE \/ \E t \in Threads, h \in Handles : GetMetadataCrash(t, h) \/ Call(t, h)
           \/ \E c \in Configs : Configure(c)
           \/ WriteField \/ UNCHANGED vars
  BY <1>0, <1>4 DEF GetMetadataCrash, Call, Configure, WriteField, vars
<1> QED BY <1>1, <1>2, <1>3, <1>4 DEF AnyClientNext, CommonStep, Halted

\* The pool with its mutex, its timed waits, its unlocked configure() and its
\* move-only handles implements what PoolSpec promises: a connection is lent to
\* one holder, returned by its holder only, and made only while nothing is idle
\* and a configured size leaves room.
THEOREM PoolImplementsPromise == AnyClientSpec => ImplementsPoolSpec
<1>1. Init => Promise!Init
  BY DEF Init, Promise!Init, Held, NoConn
<1>2. IndInv /\ [AnyClientNext]_vars => [Promise!Next]_(Promise!poolSpecVars)
  BY NextImplements DEF PromiseStep, Promise!poolSpecVars, Lent
<1> QED BY <1>1, <1>2, Inductive, PTL DEF AnyClientSpec, ImplementsPoolSpec, Promise!Spec

=============================================================================
