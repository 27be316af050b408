------------------------------ MODULE Sessions ------------------------------
(***************************************************************************)
(* Transactions and open statements on pooled sessions: Model<T> (model.h),*)
(* Migrator and plain SqlConn handles as clients of the pool, which is     *)
(* here what PoolSpec promises of it.                                      *)
(*                                                                         *)
(* A session keeps its autocommit mode and its uncommitted work when it is *)
(* given back; nothing resets it but the setAutocommit() of the next       *)
(* Model's constructor.  The server may close a session at any time, and   *)
(* the pool lends it again all the same.                                   *)
(*                                                                         *)
(* tx and believed are what a client that trusts the library takes for     *)
(* granted; mode, pending and durable are what the server has.             *)
(***************************************************************************)
EXTENDS Naturals, FiniteSets

CONSTANTS
    Clients,     \* the Model, Migrator and SqlConn objects of the program
    MySessions,  \* the sessions the server may open
    PoolSize,
    Writes,      \* bound: the modifying statements executed in a behaviour
    NoSession,
    NoMode       \* the mode of a client that never chose one

ASSUME SessionsAssumption ==
    /\ PoolSize \in Nat
    /\ NoSession \notin MySessions
    /\ NoMode \notin BOOLEAN

VARIABLES
    free, out, lent,  \* the pool
    mode,      \* session -> TRUE when every statement commits by itself
    pending,   \* session -> its uncommitted writes
    broken,    \* sessions the server has closed
    durable,   \* committed writes
    kind,      \* client -> the class of the object
    pc,        \* client -> what the object is doing
    want,      \* client -> the mode it asked for, or NoMode
    stmt,      \* client -> the session of its open Statement
    tx,        \* client -> writes of the transaction it believes to be open
    believed,  \* writes a client was told are committed
    dbMode,    \* DB::autoCommit
    alive      \* FALSE once the process has died

poolVars == <<free, out, lent>>
serverVars == <<mode, pending, broken, durable>>
clientVars == <<kind, pc, want, stmt>>
beliefs == <<tx, believed>>
vars == <<poolVars, serverVars, clientVars, beliefs, dbMode, alive>>

Pool == INSTANCE PoolSpec
    WITH Holders <- Clients, Conns <- MySessions, Sizes <- {PoolSize}, None <- NoSession

Init ==
    /\ Pool!Init
    /\ mode = [s \in MySessions |-> TRUE]
    /\ pending = [s \in MySessions |-> {}]
    /\ broken = {}
    /\ durable = {}
    /\ kind = [c \in Clients |-> "model"]
    /\ pc = [c \in Clients |-> "none"]
    /\ want = [c \in Clients |-> NoMode]
    /\ stmt = [c \in Clients |-> NoSession]
    /\ tx = [c \in Clients |-> {}]
    /\ believed = {}
    /\ dbMode = TRUE
    /\ alive = TRUE

Healthy(c) == lent[c] \in MySessions \ broken
Unused == Writes \ (durable \cup believed \cup UNION {pending[s] : s \in MySessions}
                            \cup UNION {tx[c] : c \in Clients})
Die == alive' = FALSE /\ UNCHANGED <<poolVars, serverVars, clientVars, beliefs, dbMode>>

-----------------------------------------------------------------------------
(* What the server does with the requests of SqlConn *)

\* The uncommitted work of session s is committed.
CommitAll(s) ==
    /\ durable' = durable \cup pending[s]
    /\ pending' = [pending EXCEPT ![s] = {}]

\* SqlConn::setAutocommit on the session of c, and what c makes of its result.
\* Switching autocommit on commits whatever the session has pending.
SetAutocommit(c, v) ==
    IF Healthy(c)
    THEN /\ mode' = [mode EXCEPT ![lent[c]] = v]
         /\ IF v THEN CommitAll(lent[c]) ELSE UNCHANGED <<pending, durable>>
         /\ IF v THEN /\ believed' = believed \cup tx[c]
                      /\ tx' = [tx EXCEPT ![c] = {}]
                 ELSE UNCHANGED beliefs
         /\ UNCHANGED broken
    ELSE UNCHANGED <<serverVars, beliefs>>

\* The server closes a session: its uncommitted work is rolled back.
Break(s) ==
    /\ s \in (free \cup out) \ broken
    /\ broken' = broken \cup {s}
    /\ pending' = [pending EXCEPT ![s] = {}]
    /\ UNCHANGED <<poolVars, mode, durable, clientVars, beliefs, dbMode, alive>>

-----------------------------------------------------------------------------
(* Construction *)

\* getConn() for a new object: DB::model, Migrator::Migrator or DB::getConn.
\* DB::model reads autoCommit now or after getConn() has returned.
GetConn(c, k) ==
    /\ pc[c] = "none"
    /\ Pool!Lend(c) \/ \E s \in MySessions : Pool!CreateAs(c, s)
    /\ kind' = [kind EXCEPT ![c] = k]
    /\ pc' = [pc EXCEPT ![c] = IF k = "model" THEN "constructing" ELSE "ready"]
    /\ want' = [want EXCEPT ![c] = IF k = "model" THEN dbMode ELSE NoMode]
    /\ UNCHANGED <<serverVars, stmt, beliefs, dbMode, alive>>

\* No connection: the constructor of Model hands a null MYSQL to the client
\* library, and so does the first statement of a Migrator.
GetConnFails(c) ==
    /\ pc[c] = "none"
    /\ free = {}
    /\ Die

\* Faulty variant of Construct: the constructor does not set the mode.
ConstructInheriting(c) ==
    /\ pc[c] = "constructing"
    /\ \E v \in {want[c], dbMode} : want' = [want EXCEPT ![c] = v]
    /\ pc' = [pc EXCEPT ![c] = "ready"]
    /\ UNCHANGED <<poolVars, serverVars, kind, stmt, beliefs, dbMode, alive>>

\* Model::Model: the session is switched to the mode of the DB.
Construct(c) ==
    /\ pc[c] = "constructing"
    /\ \E v \in {want[c], dbMode} :
          /\ want' = [want EXCEPT ![c] = v]
          /\ SetAutocommit(c, v)
    /\ pc' = [pc EXCEPT ![c] = "ready"]
    /\ UNCHANGED <<poolVars, kind, stmt, dbMode, alive>>

\* DB::setAutoCommit, from any thread.
SetDbMode(v) ==
    /\ dbMode' = v
    /\ UNCHANGED <<poolVars, serverVars, clientVars, beliefs, alive>>

-----------------------------------------------------------------------------
(* Statements *)

\* prepareStatement.  On a session the server has closed it fails, and the
\* null MYSQL_STMT it leaves kills the process when it is executed.
Prepare(c) ==
    /\ pc[c] = "ready"
    /\ kind[c] # "migrator"
    /\ IF Healthy(c)
       THEN /\ pc' = [pc EXCEPT ![c] = "executing"]
            /\ stmt' = [stmt EXCEPT ![c] = lent[c]]
            /\ UNCHANGED <<poolVars, serverVars, kind, want, beliefs, dbMode, alive>>
       ELSE Die

\* executeUpdate: the write is committed at once or becomes pending.  On a
\* session closed since it was prepared it fails and changes nothing.
Execute(c) ==
    /\ pc[c] = "executing"
    /\ pc' = [pc EXCEPT ![c] = "executed"]
    /\ IF Healthy(c)
       THEN \E w \in Unused :
              /\ IF mode[lent[c]]
                 THEN durable' = durable \cup {w} /\ UNCHANGED pending
                 ELSE /\ pending' = [pending EXCEPT ![lent[c]] = @ \cup {w}]
                      /\ UNCHANGED durable
              /\ believed' = IF want[c] = TRUE THEN believed \cup {w} ELSE believed
              /\ tx' = IF want[c] = FALSE THEN [tx EXCEPT ![c] = @ \cup {w}] ELSE tx
       ELSE UNCHANGED <<pending, durable, beliefs>>
    /\ UNCHANGED <<poolVars, mode, broken, kind, want, stmt, dbMode, alive>>

\* SqlConn::close, which gives the session back as it is.  A transaction that
\* was still open is abandoned.
Release(c) ==
    /\ Pool!Return(c)
    /\ tx' = [tx EXCEPT ![c] = {}]

\* Faulty variant of Finish: the connection goes back while the statement is
\* still open, as in Exec().
FinishReturning(c) ==
    /\ pc[c] = "executed"
    /\ Release(c)
    /\ pc' = [pc EXCEPT ![c] = "spent"]
    /\ UNCHANGED <<serverVars, kind, want, stmt, believed, dbMode, alive>>

\* The end of Create, Update, Delete, First, All and Fetch: ~Statement.
Finish(c) ==
    /\ pc[c] = "executed"
    /\ pc' = [pc EXCEPT ![c] = "ready"]
    /\ stmt' = [stmt EXCEPT ![c] = NoSession]
    /\ UNCHANGED <<poolVars, serverVars, kind, want, beliefs, dbMode, alive>>

\* Exec() calls conn.close() before its local Statement is destroyed.
ExecCloses(c) ==
    /\ pc[c] = "executed"
    /\ kind[c] = "model"
    /\ Release(c)
    /\ pc' = [pc EXCEPT ![c] = "returned"]
    /\ UNCHANGED <<serverVars, kind, want, stmt, believed, dbMode, alive>>

\* The user of a plain SqlConn may close() it with a Statement alive, executed or not.
CloseEarly(c) ==
    /\ pc[c] \in {"executing", "executed"}
    /\ kind[c] = "conn"
    /\ Release(c)
    /\ pc' = [pc EXCEPT ![c] = "returned"]
    /\ UNCHANGED <<serverVars, kind, want, stmt, believed, dbMode, alive>>

\* A request on the session of c's Statement while another client holds it is a
\* data race, which may well kill the process.
LateRequest(c) == alive' \in IF \E k \in Clients : lent[k] = stmt[c] THEN BOOLEAN ELSE {TRUE}

\* A Statement executed after its SqlConn was closed: it fails, or the write becomes
\* part of whatever its session is used for by now.
ExecuteLate(c) ==
    /\ pc[c] = "returned"
    /\ kind[c] = "conn"
    /\ LateRequest(c)
    /\ \/ UNCHANGED <<pending, durable>>
       \/ /\ stmt[c] \notin broken
          /\ \E w \in Unused :
                \/ mode[stmt[c]] /\ durable' = durable \cup {w} /\ UNCHANGED pending
                \/ /\ ~mode[stmt[c]]
                   /\ pending' = [pending EXCEPT ![stmt[c]] = @ \cup {w}]
                   /\ UNCHANGED durable
    /\ UNCHANGED <<poolVars, mode, broken, clientVars, beliefs, dbMode>>

\* ~Statement after its connection was given back, at the end of Exec() or when
\* the user of a closed SqlConn gets there.
ExecReturns(c) ==
    /\ pc[c] = "returned"
    /\ pc' = [pc EXCEPT ![c] = "spent"]
    /\ stmt' = [stmt EXCEPT ![c] = NoSession]
    /\ LateRequest(c)
    /\ UNCHANGED <<poolVars, serverVars, kind, want, beliefs, dbMode>>

\* After Exec() the Model has no session, and a closed SqlConn has none: whatever
\* it is asked kills the process.
UseSpent(c) ==
    /\ \/ pc[c] = "spent"
       \/ pc[c] = "returned" /\ kind[c] = "conn"
    /\ Die

\* Migrator::migrate: DDL commits whatever its session has pending.
Migrate(c) ==
    /\ pc[c] = "ready"
    /\ kind[c] = "migrator"
    /\ IF Healthy(c) THEN CommitAll(lent[c]) ELSE UNCHANGED <<pending, durable>>
    /\ UNCHANGED <<poolVars, mode, broken, clientVars, beliefs, dbMode, alive>>

-----------------------------------------------------------------------------
(* Transactions *)

ChooseMode(c, v) ==
    /\ pc[c] = "ready"
    /\ kind[c] # "migrator"
    /\ want' = [want EXCEPT ![c] = v]
    /\ SetAutocommit(c, v)
    /\ UNCHANGED <<poolVars, kind, pc, stmt, dbMode, alive>>

\* Faulty variant of Commit: mysql_rollback is called instead of mysql_commit.
CommitRollingBack(c) ==
    /\ pc[c] = "ready"
    /\ kind[c] # "migrator"
    /\ Healthy(c)
    /\ pending' = [pending EXCEPT ![lent[c]] = {}]
    /\ believed' = believed \cup tx[c]
    /\ tx' = [tx EXCEPT ![c] = {}]
    /\ UNCHANGED <<poolVars, mode, broken, durable, clientVars, dbMode, alive>>

\* commit(); on a closed session it fails, and Model::Commit drops the result.
Commit(c) ==
    /\ pc[c] = "ready"
    /\ kind[c] # "migrator"
    /\ Healthy(c)
    /\ CommitAll(lent[c])
    /\ believed' = believed \cup tx[c]
    /\ tx' = [tx EXCEPT ![c] = {}]
    /\ UNCHANGED <<poolVars, mode, broken, clientVars, dbMode, alive>>

Rollback(c) ==
    /\ pc[c] = "ready"
    /\ kind[c] # "migrator"
    /\ Healthy(c)
    /\ pending' = [pending EXCEPT ![lent[c]] = {}]
    /\ tx' = [tx EXCEPT ![c] = {}]
    /\ UNCHANGED <<poolVars, mode, broken, durable, clientVars, believed, dbMode, alive>>

\* Faulty variant of Destroy: the destructor does not call conn.close().
DestroyUnreleased(c) ==
    /\ pc[c] \in {"ready", "spent"}
    /\ pc' = [pc EXCEPT ![c] = "none"]
    /\ kind' = [kind EXCEPT ![c] = "model"]
    /\ want' = [want EXCEPT ![c] = NoMode]
    /\ UNCHANGED <<poolVars, serverVars, stmt, beliefs, dbMode, alive>>

\* ~Model, ~Migrator, or close() and ~SqlConn.
Destroy(c) ==
    /\ \/ pc[c] = "ready" /\ Release(c)
       \/ pc[c] = "spent" /\ UNCHANGED <<poolVars, tx>>
    /\ pc' = [pc EXCEPT ![c] = "none"]
    /\ kind' = [kind EXCEPT ![c] = "model"]
    /\ want' = [want EXCEPT ![c] = NoMode]
    /\ UNCHANGED <<serverVars, stmt, believed, dbMode, alive>>

\* ~SqlConn of a plain handle nobody closed: mysql_close ends the session, which
\* detaches a Statement open on it, and the pool is not told.
Drop(c) ==
    /\ pc[c] \in {"ready", "executing", "executed"}
    /\ kind[c] = "conn"
    /\ Pool!Lose(c)
    /\ broken' = broken \cup {lent[c]}
    /\ pending' = [pending EXCEPT ![lent[c]] = {}]
    /\ tx' = [tx EXCEPT ![c] = {}]
    /\ stmt' = [stmt EXCEPT ![c] = NoSession]
    /\ pc' = [pc EXCEPT ![c] = "none"]
    /\ kind' = [kind EXCEPT ![c] = "model"]
    /\ want' = [want EXCEPT ![c] = NoMode]
    /\ UNCHANGED <<mode, durable, believed, dbMode, alive>>

-----------------------------------------------------------------------------
Halted == ~alive /\ UNCHANGED vars

Step(c) ==
    \/ \E k \in {"model", "migrator", "conn"} : GetConn(c, k)
    \/ GetConnFails(c) \/ Construct(c)
    \/ Prepare(c) \/ Execute(c) \/ Finish(c)
    \/ ExecCloses(c) \/ CloseEarly(c) \/ ExecuteLate(c) \/ ExecReturns(c) \/ UseSpent(c)
    \/ Migrate(c)
    \/ \E v \in BOOLEAN : ChooseMode(c, v)
    \/ Commit(c) \/ Rollback(c) \/ Destroy(c) \/ Drop(c)

Next ==
    \/ alive /\ \E c \in Clients : Step(c)
    \/ alive /\ \E s \in MySessions : Break(s)
    \/ alive /\ \E v \in BOOLEAN : SetDbMode(v)
    \/ Halted

Spec == Init /\ [][Next]_vars

-----------------------------------------------------------------------------
(* Properties *)

TypeOK ==
    /\ free \subseteq MySessions /\ out \subseteq MySessions
    /\ lent \in [Clients -> MySessions \cup {NoSession}]
    /\ mode \in [MySessions -> BOOLEAN]
    /\ pending \in [MySessions -> SUBSET Writes]
    /\ broken \subseteq MySessions
    /\ durable \subseteq Writes
    /\ kind \in [Clients -> {"model", "migrator", "conn"}]
    /\ pc \in [Clients -> {"none", "constructing", "ready", "executing", "executed",
                           "returned", "spent"}]
    /\ want \in [Clients -> BOOLEAN \cup {NoMode}]
    /\ stmt \in [Clients -> MySessions \cup {NoSession}]
    /\ tx \in [Clients -> SUBSET Writes]
    /\ believed \subseteq Writes
    /\ dbMode \in BOOLEAN /\ alive \in BOOLEAN
    /\ \A c \in Clients : pc[c] \in {"none", "returned", "spent"} <=> lent[c] = NoSession

\* What a client was told is committed is committed: every write of a Model in
\* autocommit mode, and every write before a successful commit(), whoever held
\* the session before and in whatever mode and transaction it was left.  A write
\* through a closed SqlConn's Statement has no such promise.
CommittedIsDurable == believed \subseteq durable

\* A transaction belongs to its client: until the client itself ends it, its
\* writes stay uncommitted on its session and can still be rolled back, although
\* other Models commit, migrate and switch modes on the sessions of one pool.
TransactionKept ==
    \A c \in Clients : Healthy(c) => tx[c] \subseteq pending[lent[c]]

\* One statement at a time on a session: a Statement is open on the session its
\* owner holds, so no other client has one there.  The exceptions are the local
\* Statement of Exec(), which gives its connection back first, and a Statement
\* whose plain SqlConn its user has closed; nothing else mixes two clients' work.
StatementsApart ==
    \A c \in Clients : stmt[c] # NoSession =>
        \/ pc[c] = "returned"
        \/ /\ lent[c] = stmt[c]
           /\ \A k \in Clients \ {c} : stmt[k] = stmt[c] => pc[k] = "returned"

-----------------------------------------------------------------------------
(* The inductive invariant behind the properties above *)

\* What the pool's promise gives its clients: a session is free or lent, and
\* lent to one of them.
PoolInv ==
    /\ free \cap out = {}
    /\ \A c \in Clients : lent[c] # NoSession => lent[c] \in out
    /\ \A c, k \in Clients : c # k /\ lent[c] # NoSession => lent[c] # lent[k]

\* From the constructor on, a client that asked for a mode has a session in that
\* mode, unless the server has closed it; a Migrator never asks.
ModeInv ==
    \A c \in Clients :
        /\ Healthy(c) /\ pc[c] # "constructing" /\ want[c] # NoMode => mode[lent[c]] = want[c]
        /\ kind[c] = "migrator" => want[c] = NoMode
        /\ pc[c] = "constructing" => want[c] # NoMode

\* Only a client that switched autocommit off on a live session has a
\* transaction, and an object that holds no session or is new has none.
TxInv ==
    \A c \in Clients : tx[c] # {} =>
        /\ pc[c] \in {"ready", "executing", "executed"}
        /\ Healthy(c) => want[c] = FALSE

\* A Statement is open between its preparation and its destructor, on the
\* session its owner holds or has given back before it.
StmtInv ==
    \A c \in Clients :
        /\ stmt[c] # NoSession <=> pc[c] \in {"executing", "executed", "returned"}
        /\ pc[c] \in {"executing", "executed"} => stmt[c] = lent[c]

IndInv ==
    /\ TypeOK
    /\ PoolInv
    /\ ModeInv
    /\ TxInv
    /\ StmtInv
    /\ CommittedIsDurable
    /\ TransactionKept

=============================================================================
