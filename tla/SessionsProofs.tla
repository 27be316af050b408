--------------------------- MODULE SessionsProofs ---------------------------
(***************************************************************************)
(* Proofs about Sessions, for any clients, sessions, writes and pool size. *)
(***************************************************************************)
EXTENDS Sessions, TLAPS

USE SessionsAssumption DEF poolVars, serverVars, clientVars, beliefs

\* A process without objects and sessions satisfies the invariant.
LEMMA InitInd == Init => IndInv
<1> SUFFICES ASSUME Init PROVE IndInv
  OBVIOUS
<1> USE DEF Init, Pool!Init
<1>1. TypeOK
  BY DEF TypeOK
<1>2. PoolInv /\ ModeInv /\ TxInv /\ StmtInv
  BY DEF PoolInv, ModeInv, TxInv, StmtInv, Healthy
<1>3. CommittedIsDurable /\ TransactionKept
  BY DEF CommittedIsDurable, TransactionKept
<1> QED BY <1>1, <1>2, <1>3 DEF IndInv

\* The process dies, or DB::setAutoCommit writes its flag: no client or session
\* notices.
LEMMA FrameInd ==
  ASSUME IndInv, UNCHANGED <<poolVars, serverVars, clientVars, beliefs>>,
         dbMode' \in BOOLEAN, alive' \in BOOLEAN
  PROVE  IndInv'
<1>1. TypeOK'
  BY DEF IndInv, TypeOK
<1>2. PoolInv' /\ ModeInv' /\ TxInv' /\ StmtInv'
  BY DEF IndInv, PoolInv, ModeInv, TxInv, StmtInv, Healthy
<1>3. CommittedIsDurable' /\ TransactionKept'
  BY DEF IndInv, CommittedIsDurable, TransactionKept, Healthy
<1> QED BY <1>1, <1>2, <1>3 DEF IndInv

\* A session the server closes takes its uncommitted work with it, and its
\* holder's transaction with that.
LEMMA BreakInd ==
  ASSUME IndInv, NEW s \in MySessions, Break(s)
  PROVE  IndInv'
<1> USE DEF IndInv, Break
<1>1. TypeOK'
  BY DEF TypeOK
<1>2. PoolInv' /\ StmtInv'
  BY DEF PoolInv, StmtInv
<1>3. ModeInv' /\ TxInv'
  BY DEF ModeInv, TxInv, Healthy
<1>4. CommittedIsDurable'
  BY DEF CommittedIsDurable
<1>5. TransactionKept'
  BY DEF TransactionKept, Healthy, TypeOK
<1> QED BY <1>1, <1>2, <1>3, <1>4, <1>5

\* getConn() gives a new object a session nobody else holds: one that was free,
\* with whatever mode and pending work it was left, or a new one.
LEMMA GetConnInd ==
  ASSUME IndInv, NEW c \in Clients, NEW k \in {"model", "migrator", "conn"}, GetConn(c, k)
  PROVE  IndInv'
<1>1. PICK s \in MySessions :
          /\ lent' = [lent EXCEPT ![c] = s] /\ out' = out \cup {s}
          /\ s \notin out /\ s \notin free' /\ free' \subseteq free
  BY DEF IndInv, TypeOK, PoolInv, GetConn, Pool!Lend, Pool!CreateAs
<1>2. /\ pc[c] = "none"
      /\ pc' = [pc EXCEPT ![c] = IF k = "model" THEN "constructing" ELSE "ready"]
      /\ want' = [want EXCEPT ![c] = IF k = "model" THEN dbMode ELSE NoMode]
      /\ kind' = [kind EXCEPT ![c] = k]
      /\ UNCHANGED <<serverVars, stmt, beliefs, dbMode, alive>>
  BY DEF GetConn
<1>3. tx[c] = {}
  BY <1>2 DEF IndInv, TxInv
<1>4. TypeOK'
  <2>1. want' \in [Clients -> BOOLEAN \cup {NoMode}]
    BY <1>2 DEF IndInv, TypeOK
  <2> QED BY <1>1, <1>2, <2>1 DEF IndInv, TypeOK
<1>5. PoolInv'
  BY <1>1 DEF IndInv, TypeOK, PoolInv
<1>6. ModeInv'
  BY <1>1, <1>2 DEF IndInv, TypeOK, ModeInv, Healthy
<1>7. TxInv' /\ StmtInv'
  BY <1>1, <1>2, <1>3 DEF IndInv, TypeOK, TxInv, StmtInv, Healthy
<1>8. CommittedIsDurable' /\ TransactionKept'
  BY <1>1, <1>2, <1>3 DEF IndInv, TypeOK, CommittedIsDurable, TransactionKept, Healthy
<1> QED BY <1>4, <1>5, <1>6, <1>7, <1>8 DEF IndInv

\* setAutocommit() in the constructor of a Model or by its user.  Switching
\* autocommit on commits the session's pending work: that is the transaction of
\* the session's holder, and of nobody else.
LEMMA SetAutocommitInd ==
  ASSUME IndInv, NEW c \in Clients, NEW v \in BOOLEAN, SetAutocommit(c, v),
         pc[c] \in {"constructing", "ready"}, kind[c] # "migrator",
         want' = [want EXCEPT ![c] = v], pc' = [pc EXCEPT ![c] = "ready"],
         UNCHANGED <<poolVars, kind, stmt, dbMode, alive>>
  PROVE  IndInv'
<1> USE DEF IndInv
<1>1. PoolInv' /\ StmtInv'
  BY DEF PoolInv, StmtInv, TypeOK
<1>2. broken' = broken /\ \A k \in Clients : Healthy(k)' <=> Healthy(k)
  BY DEF SetAutocommit, Healthy
<1>3. CASE ~Healthy(c)
  <2>1. UNCHANGED <<serverVars, beliefs>>
    BY <1>3 DEF SetAutocommit
  <2>2. TypeOK'
    BY <2>1 DEF TypeOK
  <2>3. ModeInv' /\ TxInv'
    BY <1>3, <2>1 DEF ModeInv, TxInv, TypeOK, Healthy
  <2>4. CommittedIsDurable' /\ TransactionKept'
    BY <2>1 DEF CommittedIsDurable, TransactionKept, Healthy
  <2> QED BY <1>1, <2>2, <2>3, <2>4
<1>4. CASE Healthy(c)
  <2>0. PICK s \in MySessions : s = lent[c] /\ \A k \in Clients \ {c} : lent[k] # s
    BY <1>4 DEF Healthy, PoolInv
  <2>1. mode' = [mode EXCEPT ![s] = v]
    BY <1>4, <2>0 DEF SetAutocommit
  <2>2. CASE v = TRUE
    <3>1. /\ durable' = durable \cup pending[s] /\ pending' = [pending EXCEPT ![s] = {}]
          /\ believed' = believed \cup tx[c] /\ tx' = [tx EXCEPT ![c] = {}]
      BY <1>4, <2>0, <2>2 DEF SetAutocommit, CommitAll
    <3>2. TypeOK'
      BY <1>2, <2>1, <3>1 DEF TypeOK
    <3>3. ModeInv' /\ TxInv'
      BY <1>2, <2>0, <2>1, <3>1 DEF ModeInv, TxInv, TypeOK, Healthy
    <3>4. CommittedIsDurable'
      BY <1>4, <2>0, <3>1 DEF CommittedIsDurable, TransactionKept
    <3>5. TransactionKept'
      BY <1>2, <2>0, <3>1 DEF TransactionKept, TypeOK, Healthy
    <3> QED BY <1>1, <3>2, <3>3, <3>4, <3>5
  <2>3. CASE v = FALSE
    <3>1. UNCHANGED <<pending, durable, beliefs>>
      BY <1>4, <2>3 DEF SetAutocommit
    <3>2. TypeOK'
      BY <1>2, <2>1, <3>1 DEF TypeOK
    <3>3. ModeInv' /\ TxInv'
      BY <1>2, <2>0, <2>1, <2>3, <3>1 DEF ModeInv, TxInv, TypeOK, Healthy
    <3>4. CommittedIsDurable' /\ TransactionKept'
      BY <1>2, <3>1 DEF CommittedIsDurable, TransactionKept, Healthy
    <3> QED BY <1>1, <3>2, <3>3, <3>4
  <2> QED BY <2>2, <2>3
<1> QED BY <1>3, <1>4

\* Preparing a statement opens it on the session its owner holds.
LEMMA PrepareInd ==
  ASSUME IndInv, NEW c \in Clients, Prepare(c), alive
  PROVE  IndInv'
<1> USE DEF IndInv
<1>1. CASE Healthy(c)
  <2>1. /\ pc[c] = "ready"
        /\ pc' = [pc EXCEPT ![c] = "executing"] /\ stmt' = [stmt EXCEPT ![c] = lent[c]]
        /\ UNCHANGED <<poolVars, serverVars, kind, want, beliefs, dbMode, alive>>
    BY <1>1 DEF Prepare
  <2>2. TypeOK'
    BY <2>1 DEF TypeOK
  <2>3. PoolInv' /\ ModeInv' /\ TxInv'
    BY <2>1 DEF PoolInv, ModeInv, TxInv, TypeOK, Healthy
  <2>4. StmtInv'
    BY <1>1, <2>1 DEF StmtInv, TypeOK, Healthy
  <2>5. CommittedIsDurable' /\ TransactionKept'
    BY <2>1 DEF CommittedIsDurable, TransactionKept, Healthy
  <2> QED BY <2>2, <2>3, <2>4, <2>5
<1>2. CASE ~Healthy(c)
  BY <1>2, FrameInd DEF Prepare, Die, TypeOK
<1> QED BY <1>1, <1>2

\* A write goes where its client believes it goes: it is durable at once when
\* the client wants autocommit, pending on its session when it does not.
LEMMA ExecuteInd ==
  ASSUME IndInv, NEW c \in Clients, Execute(c)
  PROVE  IndInv'
<1> USE DEF IndInv
<1>1. /\ pc[c] = "executing" /\ pc' = [pc EXCEPT ![c] = "executed"]
      /\ UNCHANGED <<poolVars, mode, broken, kind, want, stmt, dbMode, alive>>
  BY DEF Execute
<1>2. PoolInv' /\ StmtInv' /\ ModeInv'
  BY <1>1 DEF PoolInv, StmtInv, ModeInv, TypeOK, Healthy
<1>3. CASE ~Healthy(c)
  <2>1. UNCHANGED <<pending, durable, beliefs>>
    BY <1>3 DEF Execute
  <2>2. TypeOK' /\ TxInv'
    BY <1>1, <2>1 DEF TypeOK, TxInv, Healthy
  <2>3. CommittedIsDurable' /\ TransactionKept'
    BY <1>1, <2>1 DEF CommittedIsDurable, TransactionKept, Healthy
  <2> QED BY <1>2, <2>2, <2>3
<1>4. CASE Healthy(c)
  <2>0. PICK s \in MySessions : s = lent[c]
    BY <1>4 DEF Healthy
  <2>1. PICK w \in Unused :
          /\ IF mode[lent[c]]
             THEN durable' = durable \cup {w} /\ UNCHANGED pending
             ELSE /\ pending' = [pending EXCEPT ![lent[c]] = @ \cup {w}]
                  /\ UNCHANGED durable
          /\ believed' = IF want[c] = TRUE THEN believed \cup {w} ELSE believed
          /\ tx' = IF want[c] = FALSE THEN [tx EXCEPT ![c] = @ \cup {w}] ELSE tx
    BY <1>4 DEF Execute
  <2>2. w \in Writes
    BY DEF Unused
  <2>3. want[c] # NoMode => mode[s] = want[c]
    BY <1>1, <1>4, <2>0 DEF ModeInv
  <2>4. CASE mode[s] = TRUE
    <3>1. durable' = durable \cup {w} /\ pending' = pending /\ want[c] # FALSE /\ tx' = tx
          /\ believed' \subseteq believed \cup {w}
      BY <2>0, <2>1, <2>3, <2>4
    <3>2. TypeOK' /\ TxInv'
      BY <1>1, <2>2, <3>1 DEF TypeOK, TxInv, Healthy
    <3>3. CommittedIsDurable' /\ TransactionKept'
      BY <1>1, <3>1 DEF CommittedIsDurable, TransactionKept, Healthy
    <3> QED BY <1>2, <3>2, <3>3
  <2>5. CASE mode[s] = FALSE
    <3>1. /\ pending' = [pending EXCEPT ![s] = @ \cup {w}] /\ durable' = durable
          /\ want[c] # TRUE /\ believed' = believed
          /\ tx' = IF want[c] = FALSE THEN [tx EXCEPT ![c] = @ \cup {w}] ELSE tx
      BY <2>0, <2>1, <2>3, <2>5
    <3>2. TypeOK' /\ TxInv'
      BY <1>1, <2>2, <3>1 DEF TypeOK, TxInv, Healthy
    <3>3. CommittedIsDurable'
      BY <3>1 DEF CommittedIsDurable
    <3>4. TransactionKept'
      BY <1>1, <2>0, <3>1 DEF TransactionKept, Healthy, TypeOK
    <3> QED BY <1>2, <3>2, <3>3, <3>4
  <2>6. mode[s] \in BOOLEAN
    BY DEF TypeOK
  <2> QED BY <2>4, <2>5, <2>6
<1> QED BY <1>3, <1>4

\* ~Statement, at the end of an operation or after the session was given back.
LEMMA FinishInd ==
  ASSUME IndInv, NEW c \in Clients, Finish(c) \/ ExecReturns(c)
  PROVE  IndInv'
<1> USE DEF IndInv
<1>1. /\ \/ pc[c] = "executed" /\ pc' = [pc EXCEPT ![c] = "ready"]
         \/ pc[c] = "returned" /\ pc' = [pc EXCEPT ![c] = "spent"]
      /\ stmt' = [stmt EXCEPT ![c] = NoSession]
      /\ UNCHANGED <<poolVars, serverVars, kind, want, beliefs, dbMode>>
  BY DEF Finish, ExecReturns
<1>2. alive' \in BOOLEAN
  BY DEF Finish, ExecReturns, LateRequest, TypeOK
<1>3. TypeOK'
  BY <1>1, <1>2 DEF TypeOK
<1>4. PoolInv' /\ ModeInv' /\ TxInv' /\ StmtInv'
  BY <1>1 DEF PoolInv, ModeInv, TxInv, StmtInv, TypeOK, Healthy
<1>5. CommittedIsDurable' /\ TransactionKept'
  BY <1>1 DEF CommittedIsDurable, TransactionKept, Healthy
<1> QED BY <1>3, <1>4, <1>5

\* An object gives its session back, with its pending work and its mode, and
\* abandons its transaction.
LEMMA ReleaseInd ==
  ASSUME IndInv, NEW c \in Clients, Release(c),
         \/ /\ pc[c] \in {"executing", "executed"} /\ pc' = [pc EXCEPT ![c] = "returned"]
            /\ UNCHANGED <<kind, want>>
         \/ /\ pc[c] = "ready" /\ pc' = [pc EXCEPT ![c] = "none"]
            /\ kind' = [kind EXCEPT ![c] = "model"] /\ want' = [want EXCEPT ![c] = NoMode],
         UNCHANGED <<serverVars, stmt, believed, dbMode, alive>>
  PROVE  IndInv'
<1> USE DEF IndInv
<1>1. PICK s \in MySessions :
          /\ s = lent[c] /\ s \in out /\ \A k \in Clients \ {c} : lent[k] # s
          /\ free' = free \cup {s} /\ out' = out \ {s}
          /\ lent' = [lent EXCEPT ![c] = NoSession] /\ tx' = [tx EXCEPT ![c] = {}]
  BY DEF Release, Pool!Return, TypeOK, PoolInv
<1>2. TypeOK'
  BY <1>1 DEF TypeOK
<1>3. PoolInv'
  BY <1>1 DEF PoolInv, TypeOK
<1>4. ModeInv' /\ TxInv' /\ StmtInv'
  BY <1>1 DEF ModeInv, TxInv, StmtInv, TypeOK, Healthy
<1>5. CommittedIsDurable' /\ TransactionKept'
  BY <1>1 DEF CommittedIsDurable, TransactionKept, TypeOK, Healthy
<1> QED BY <1>2, <1>3, <1>4, <1>5

\* A Statement executed after its SqlConn was closed adds a write to the session's
\* work: nobody's transaction loses anything by it, and nobody is told of it.
LEMMA ExecuteLateInd ==
  ASSUME IndInv, NEW c \in Clients, ExecuteLate(c)
  PROVE  IndInv'
<1> USE DEF IndInv
<1>1. UNCHANGED <<poolVars, mode, broken, clientVars, beliefs, dbMode>> /\ alive' \in BOOLEAN
  BY DEF ExecuteLate, LateRequest
<1>2. stmt[c] \in MySessions
  BY DEF ExecuteLate, StmtInv, TypeOK
<1>3. PICK W \in SUBSET Writes :
          \/ durable' = durable \cup W /\ pending' = pending
          \/ durable' = durable /\ pending' = [pending EXCEPT ![stmt[c]] = @ \cup W]
  <2>1. CASE UNCHANGED <<pending, durable>>
    <3>1. durable' = durable \cup {} /\ {} \in SUBSET Writes
      BY <2>1
    <3> QED BY <2>1, <3>1
  <2>2. CASE ~UNCHANGED <<pending, durable>>
    <3>1. PICK w \in Unused :
            \/ durable' = durable \cup {w} /\ UNCHANGED pending
            \/ pending' = [pending EXCEPT ![stmt[c]] = @ \cup {w}] /\ UNCHANGED durable
      BY <2>2 DEF ExecuteLate
    <3> QED BY <3>1 DEF Unused
  <2> QED BY <2>1, <2>2
<1>4. TypeOK'
  BY <1>1, <1>2, <1>3 DEF TypeOK
<1>5. PoolInv' /\ ModeInv' /\ TxInv' /\ StmtInv'
  BY <1>1 DEF PoolInv, ModeInv, TxInv, StmtInv, Healthy
<1>6. CommittedIsDurable'
  BY <1>1, <1>3 DEF CommittedIsDurable
<1>7. TransactionKept'
  BY <1>1, <1>2, <1>3 DEF TransactionKept, Healthy, TypeOK
<1> QED BY <1>4, <1>5, <1>6, <1>7

\* A plain SqlConn destroyed without close() takes its session and its
\* transaction with it.
LEMMA DropInd ==
  ASSUME IndInv, NEW c \in Clients, Drop(c)
  PROVE  IndInv'
<1> USE DEF IndInv
<1>1. PICK s \in MySessions : s = lent[c] /\ \A k \in Clients \ {c} : lent[k] # s
  BY DEF Drop, Pool!Lose, TypeOK, PoolInv
<1>2. /\ lent' = [lent EXCEPT ![c] = NoSession] /\ UNCHANGED <<free, out>>
      /\ broken' = broken \cup {s} /\ pending' = [pending EXCEPT ![s] = {}]
      /\ tx' = [tx EXCEPT ![c] = {}] /\ stmt' = [stmt EXCEPT ![c] = NoSession]
      /\ pc' = [pc EXCEPT ![c] = "none"] /\ kind' = [kind EXCEPT ![c] = "model"]
      /\ want' = [want EXCEPT ![c] = NoMode]
      /\ UNCHANGED <<mode, durable, believed, dbMode, alive>>
  BY <1>1 DEF Drop, Pool!Lose
<1>3. TypeOK'
  BY <1>1, <1>2 DEF TypeOK
<1>4. PoolInv' /\ StmtInv'
  BY <1>2 DEF PoolInv, StmtInv, TypeOK
<1>5. ModeInv' /\ TxInv'
  BY <1>1, <1>2 DEF ModeInv, TxInv, TypeOK, Healthy
<1>6. CommittedIsDurable' /\ TransactionKept'
  BY <1>1, <1>2 DEF CommittedIsDurable, TransactionKept, TypeOK, Healthy
<1> QED BY <1>3, <1>4, <1>5, <1>6

\* A spent Model is destroyed.
LEMMA DestroySpentInd ==
  ASSUME IndInv, NEW c \in Clients, pc[c] = "spent", UNCHANGED <<poolVars, tx>>,
         pc' = [pc EXCEPT ![c] = "none"], kind' = [kind EXCEPT ![c] = "model"],
         want' = [want EXCEPT ![c] = NoMode],
         UNCHANGED <<serverVars, stmt, believed, dbMode, alive>>
  PROVE  IndInv'
<1> USE DEF IndInv
<1>1. TypeOK'
  BY DEF TypeOK
<1>2. PoolInv' /\ ModeInv' /\ TxInv' /\ StmtInv'
  BY DEF PoolInv, ModeInv, TxInv, StmtInv, TypeOK, Healthy
<1>3. CommittedIsDurable' /\ TransactionKept'
  BY DEF CommittedIsDurable, TransactionKept, Healthy
<1> QED BY <1>1, <1>2, <1>3

\* The DDL of a Migrator commits what an earlier holder left pending; the
\* Migrator itself has no transaction, and no other client's session is touched.
LEMMA MigrateInd ==
  ASSUME IndInv, NEW c \in Clients, Migrate(c)
  PROVE  IndInv'
<1> USE DEF IndInv
<1>1. UNCHANGED <<poolVars, mode, broken, clientVars, beliefs, dbMode, alive>> /\ kind[c] = "migrator"
  BY DEF Migrate
<1>2. PoolInv' /\ ModeInv' /\ TxInv' /\ StmtInv'
  BY <1>1 DEF PoolInv, ModeInv, TxInv, StmtInv, Healthy
<1>3. CASE Healthy(c)
  <2>1. PICK s \in MySessions : s = lent[c] /\ \A k \in Clients \ {c} : lent[k] # s
    BY <1>3 DEF Healthy, PoolInv
  <2>2. durable' = durable \cup pending[s] /\ pending' = [pending EXCEPT ![s] = {}]
    BY <1>3, <2>1 DEF Migrate, CommitAll
  <2>3. tx[c] = {}
    BY <1>1, <1>3 DEF TxInv, ModeInv
  <2>4. TypeOK' /\ CommittedIsDurable'
    BY <1>1, <2>2 DEF TypeOK, CommittedIsDurable
  <2>5. TransactionKept'
    BY <1>1, <2>1, <2>2, <2>3 DEF TransactionKept, TypeOK, Healthy
  <2> QED BY <1>2, <2>4, <2>5
<1>4. CASE ~Healthy(c)
  <2>1. UNCHANGED <<pending, durable>>
    BY <1>4 DEF Migrate
  <2> QED BY <1>1, <1>2, <2>1 DEF TypeOK, CommittedIsDurable, TransactionKept, Healthy
<1> QED BY <1>3, <1>4

\* commit() makes durable the pending work of the session, which includes the
\* client's transaction; rollback() drops both.
LEMMA EndTransactionInd ==
  ASSUME IndInv, NEW c \in Clients, Commit(c) \/ Rollback(c)
  PROVE  IndInv'
<1> USE DEF IndInv
<1>1. /\ UNCHANGED <<poolVars, mode, broken, clientVars, dbMode, alive>>
      /\ Healthy(c) /\ tx' = [tx EXCEPT ![c] = {}]
  BY DEF Commit, Rollback
<1>2. PICK s \in MySessions : s = lent[c] /\ \A k \in Clients \ {c} : lent[k] # s
  BY <1>1 DEF Healthy, PoolInv
<1>3. /\ pending' = [pending EXCEPT ![s] = {}]
      /\ \/ durable' = durable \cup pending[s] /\ believed' = believed \cup tx[c]
         \/ durable' = durable /\ believed' = believed
  BY <1>2 DEF Commit, Rollback, CommitAll
<1>4. PoolInv' /\ ModeInv' /\ TxInv' /\ StmtInv'
  BY <1>1 DEF PoolInv, ModeInv, TxInv, StmtInv, TypeOK, Healthy
<1>5. CommittedIsDurable'
  BY <1>1, <1>2, <1>3 DEF CommittedIsDurable, TransactionKept
<1>6. TransactionKept'
  BY <1>1, <1>2, <1>3 DEF TransactionKept, TypeOK, Healthy
<1>7. TypeOK'
  BY <1>1, <1>3 DEF TypeOK
<1> QED BY <1>4, <1>5, <1>6, <1>7

\* Every step of the clients and the server keeps the invariant.
LEMMA NextInd == IndInv /\ [Next]_vars => IndInv'
<1> SUFFICES ASSUME IndInv, [Next]_vars PROVE IndInv'
  OBVIOUS
<1>0. dbMode \in BOOLEAN /\ alive \in BOOLEAN
  BY DEF IndInv, TypeOK
<1>1. ASSUME NEW c \in Clients, Step(c), alive PROVE IndInv'
  <2>1. CASE \E k \in {"model", "migrator", "conn"} : GetConn(c, k)
    BY <2>1, GetConnInd
  <2>2. CASE GetConnFails(c) \/ UseSpent(c)
    BY <1>0, <2>2, FrameInd DEF GetConnFails, UseSpent, Die
  <2>3. CASE Construct(c)
    <3>1. PICK v \in {want[c], dbMode} : want' = [want EXCEPT ![c] = v] /\ SetAutocommit(c, v)
      BY <2>3 DEF Construct
    <3>2. v \in BOOLEAN /\ kind[c] # "migrator" /\ pc[c] = "constructing"
      BY <1>0, <2>3 DEF Construct, IndInv, TypeOK, ModeInv
    <3> QED BY <2>3, <3>1, <3>2, SetAutocommitInd DEF Construct
  <2>4. CASE \E v \in BOOLEAN : ChooseMode(c, v)
    <3>1. pc' = [pc EXCEPT ![c] = "ready"]
      BY <2>4 DEF ChooseMode, IndInv, TypeOK
    <3> QED BY <2>4, <3>1, SetAutocommitInd DEF ChooseMode
  <2>5. CASE ExecCloses(c) \/ CloseEarly(c)
    BY <2>5, ReleaseInd DEF ExecCloses, CloseEarly
  <2>6. CASE Destroy(c)
    BY <2>6, ReleaseInd, DestroySpentInd DEF Destroy
  <2> QED BY <1>1, <2>1, <2>2, <2>3, <2>4, <2>5, <2>6, PrepareInd, ExecuteInd, ExecuteLateInd, FinishInd,
             DropInd, MigrateInd, EndTransactionInd DEF Step
<1>2. ASSUME NEW v \in BOOLEAN, SetDbMode(v) PROVE IndInv'
  BY <1>0, <1>2, FrameInd DEF SetDbMode
<1>3. CASE UNCHANGED vars
  BY <1>0, <1>3, FrameInd DEF vars
<1> QED BY <1>1, <1>2, <1>3, BreakInd DEF Next, Halted

\* The invariant holds in every behaviour of clients, pool and server.
THEOREM Inductive == Spec => []IndInv
  BY InitInd, NextInd, PTL DEF Spec

\* Every variable keeps its type, and exactly the objects between getConn() and
\* close() hold a session.
THEOREM TypeCorrect == Spec => []TypeOK
<1>1. IndInv => TypeOK
  BY DEF IndInv
<1> QED BY <1>1, Inductive, PTL

\* What a client of setAutocommit() or commit() was told is committed is durable,
\* whoever held its session before and however it was left.
THEOREM CommitsAreDurable == Spec => []CommittedIsDurable
<1>1. IndInv => CommittedIsDurable
  BY DEF IndInv
<1> QED BY <1>1, Inductive, PTL

\* The writes of an open transaction stay pending on its client's session until
\* the client itself ends it.
THEOREM TransactionsAreKept == Spec => []TransactionKept
<1>1. IndInv => TransactionKept
  BY DEF IndInv
<1> QED BY <1>1, Inductive, PTL

\* Two open Statements of different clients share a session only while one of them
\* outlives its connection: Exec()'s, which is about to be destroyed, or that of a
\* plain SqlConn its user has closed.
THEOREM StatementsDoNotMix == Spec => []StatementsApart
<1>1. IndInv => StatementsApart
  <2> SUFFICES ASSUME IndInv, NEW c \in Clients, stmt[c] # NoSession, pc[c] # "returned"
               PROVE  /\ lent[c] = stmt[c]
                      /\ \A k \in Clients \ {c} : stmt[k] = stmt[c] => pc[k] = "returned"
    BY DEF StatementsApart
  <2>1. lent[c] = stmt[c]
    BY DEF IndInv, StmtInv
  <2>2. ASSUME NEW k \in Clients \ {c}, stmt[k] = stmt[c], pc[k] # "returned" PROVE FALSE
    <3>1. lent[k] = lent[c]
      BY <2>1, <2>2 DEF IndInv, StmtInv
    <3> QED BY <2>1, <3>1 DEF IndInv, PoolInv
  <2> QED BY <2>1, <2>2
<1> QED BY <1>1, Inductive, PTL

=============================================================================
