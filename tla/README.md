# A TLA+ model of tinyORM

tinyORM is a C++17 object-relational mapper for MySQL (about 3,800 lines of its
own code under `src/tinyorm`; nlohmann/json, spdlog, cmdline and the MySQL
headers are vendored).  This directory holds TLA+ modules for its core, the TLC
configurations that check them, and TLAPS proofs.

    tlc -workers 2 -config PoolAnyClient.cfg MCConnectionPool
    tlapm ConnectionPoolProofs.tla

## 1. Inventory

| Part | State | Operations | What makes it correct |
|---|---|---|---|
| `ConnectionPool` (`mysql4cpp/connectionpool.cpp`) | mutex, `idleConnections`, `usedConnections`, `connections`, configuration fields | `getConn`, `releaseConn`, `newConnection`, `configure`, `getInstance` | a connection is lent to one holder; never more than `poolSize`; slots are not lost; `getConn` ends |
| `SqlConn` (`sqlconn.cpp`) | `ptr` (owned MYSQL session), `id`, `pool`; static `globalId` | constructors, move, `close`, destructor, `getMetadata`, `testConn`, queries, transactions | a session has one owner and is closed once |
| `Model<T>` as statement builder (`model.h` 258-573, 700-799) | `constraints` with heap-allocated bind values, `selectedColumns`, `rawSql`, `status`, `conn` | `Select Where Or Page Raw First All Update Delete Create Exec Fetch` | each placeholder gets its own value; no use after free; the text is SQL |
| Migration (`db.h` 37-54, `model.h` 70-252, 593-685) | static `fieldsPrev`, `indicesPrev`, `tablenamePrev`; the list of commands; the database schema | `DB::AutoMigrate`, `Model::AutoMigrate`, `MysqlMigrator::migrate` | the schema ends as the models say, without losing data, after any crash |
| `DataLoader` (`dataloader.h`, `bytearray.h`) | the data file `models/model_<db>.dat` | `saveModel`, `loadFromFile`, `loadFromDB` | what is loaded is what was saved |
| `DB` (`db.h`), `Database` | pointer to the shared pool, autocommit mode | `model`, `getConn`, `AutoMigrate`, destructor | the pool outlives its users |
| `Statement`, `PreparedResult`, `SqlResult`, `ResultSet` | MYSQL_STMT, bind buffers, cursor | prepare, bind, execute, fetch, column access | buffers live as long as they are used |
| `DatabaseMetadata` | a connection of its own | `getColumns`, `getIndices`, `getTables` | it reads the named table only |
| Transactions | autocommit mode and open work of a session | `setAutocommit`, `commit`, `rollback` | a lent connection carries no foreign work |
| Metadata: tags, naming, `Util`, reflection macros | the columns and indices of a class | the constructors of `FieldMeta` and `Model`, `cppToDb`, `dbToCpp` | a declaration yields the columns and indices it asks for; a variable with a lower-case initial is found again from its column |
| `Config` (`conf.h`) | the parsed `rules.json`, one instance | `getInstance`, lookups | created once, also after a failed attempt |
| `Timestamp` | microseconds | calendar arithmetic | - |
| `ModelGen` | none | prints a header from `loadFromDB` | - |

How they interact: `DB::model` takes a connection from the pool for every
`Model`; `Model::AutoMigrate` creates a `MysqlMigrator`, which takes a second
one while the first is held; `loadFromDB` opens a third session, outside the
pool, through `SqlConn::getMetadata`.  `~Model` and `~Migrator` give theirs
back.  Everything else is calls in one thread; the pool and its mutex are what
threads share.  The database schema and the data file outlive the process.

The hard behaviours are: the interleavings of `getConn`, `close` and the unlocked
`configure`; a timed wait that nobody notifies; move-only handles that are
overwritten, dropped or closed twice; a migration that dies between two
statements, or between truncating and rewriting the data file; DDL errors that are
ignored; member functions of `Model` that return early and leave their constraints
to the next statement; sessions that keep their mode and their uncommitted work
when they are lent to the next client, or that the server has closed;
double-checked locking on plain pointers and a pool deleted under its users; a
data file with one-byte lengths, cut off by a crash and read without tests;
results that read through a pointer to a movable `Statement`; and tags whose words
depend on the ones before them.  `PROJECT.json` lists them as hazards, each with
its line and the properties that cover it.

## 2. Modules

| Module | Models |
|---|---|
| `ConnectionPool` | the pool, its threads and the handles of its clients |
| `PoolSpec` | what a pool promises, abstractly: connections free, out, lent |
| `ConnectionPoolProofs` | theorems about `ConnectionPool`, among them that it implements `PoolSpec` |
| `Sessions` | transactions and open statements on pooled sessions, composed with `PoolSpec` |
| `Lifetime` | the two singletons, `DB` and `Database` as owners of the pool, and its users |
| `Results` | `Statement`, `PreparedResult`, `SqlResult`, `ResultSet` |
| `Migration` | `AutoMigrate`, the migrator, the data file and the schema, with crashes |
| `DataFile` | the bytes of the data file, its writer and its parser |
| `Metadata` | from the declaration of a class to its columns and indices |
| `QueryBuilder` | `Model<T>`'s statements and the heap of bind values |
| `SessionsProofs`, `LifetimeProofs`, `ResultsProofs`, `MigrationProofs`, `QueryBuilderProofs`, `MetadataProofs` | theorems about the module they are named after |
| `MigrationHistory` | theorems about `Migration` over whole histories of versions |
| `MC...` | constants for TLC |

How they fit together: `ConnectionPool` implements `PoolSpec` (checked in
`PoolAnyClient`, proved in `ConnectionPoolProofs`), and `Sessions` is built on the
actions of `PoolSpec`, so that what it shows of sessions rests on what is shown of
the pool.  `Migration` takes a record of the data file as one value; `DataFile`
shows when that is right.  It takes the model of a class as given; `Metadata`
shows where it comes from. `QueryBuilder` takes results as rows found or not
found; `Results` shows that the loops of `First`, `All` and `Fetch` see the rows
of their own query.

### ConnectionPool

A thread inside `getConn()` has a program counter: `lock` (waiting for the
mutex), `test` (at the loop condition), `waiting` (in `cond.wait_for`, mutex
given up), `branch` (after the loop), `connect` (in `mysql_real_connect` and the
borrow test, mutex held).  `retry` and `total` are the local variables `i` and
`total`.  `conn` maps every `SqlConn` variable of the client program to a record
of `ptr`, `id`, `pool`; a session is named by the id of the object constructed
around it, and `sessions` is the set of sessions open at the server.  `dest` is
the variable the result of a `getConn()` goes to.  A default-constructed
`SqlConn` leaves its `id` uninitialised (`sqlconn.cpp:15`): the model
gives it any value of the constant `Garbage`, ids in use among them.

`configure()` takes no lock and assigns its fields one after the other:
`request` is its argument, `config` the fields, and `WriteField` one assignment,
so that a `getConn()` may see a mixture.  One `configure()` runs at a time.
`DB`'s constructor configures the shared pool with 10 connections and
`Database`'s with 20, so a resize does happen inside the library.

There are two specifications.  `Spec` has the library's own clients: the result
of `getConn()` goes to a fresh `Model` or `Migrator`, whose destructor closes
it.  `AnyClientSpec` has any user of `DB::getConn()`, who may also overwrite,
move and drop handles.  The crashes of the code (`testConn` on a failed query,
`getMetadata` on a handle without a pool) end the process: `alive` becomes FALSE.

Properties: `PoolConsistent` (the two sets and the map stay in step),
`SingleOwner` (a session has one owner and is open exactly while it has one),
`WithinCapacity`, `NoSlotLeak` (library clients only: a dropped handle really
does lose its slot), `GivesUpOnlyWhenExhausted`, `GetConnReturns`, and the
refinement `ImplementsPoolSpec`: `free` is `idleConnections`, `out` is
`usedConnections`, and a holder has the connection its handle can release.
`Lose` of the abstract pool is what overwriting or dropping a handle does.

### Sessions

A client is a `Model`, a `Migrator` or a plain `SqlConn`; `lent` is the session
it holds.  `mode`, `pending` and `durable` are the server's side of a session,
`tx` and `believed` what a client that trusts the library takes for granted: the
writes of the transaction it believes to be open, and the writes it was told are
committed.  The server may close a session at any time (`Break`) and the pool
lends it again; a statement on it dies, a `setAutocommit` or a `commit` fails
and changes nothing.  `DB::setAutoCommit` may come between the two reads of
`DB::model`.  A `Migrator`'s DDL commits whatever its session has pending.

`CommittedIsDurable` and `TransactionKept` relate the two sides.  They hold
because the constructor of `Model` sets the mode before its first statement,
which commits what an earlier holder left: without it (the mutant
`ConstructInheriting`) a transaction would be committed statement by statement.
A plain `DB::getConn()` gets no such protection, and the model makes no promise
to such a client until it has chosen a mode (`NoMode`).  `StatementsApart` has
two exceptions: `Exec()`, which closes its connection before its statement, and
a plain `SqlConn` that its user closes under a live `Statement` (`CloseEarly`),
which may then even be executed on the session of the next holder
(`ExecuteLate`).  A plain handle may also be dropped unclosed (`Drop`), which ends
its session and loses its slot.

### Lifetime

`getInstance` of pool and configuration, one step per test, lock, allocation and
store.  In both classes the stores of the constructor and the one of the plain
pointer may be seen in either order; `Config`'s constructor may also throw, which
gives the mutex and the memory back.  `heap` keeps every object ever created with
its state (raw, ready, freed); using one that is not ready is a `fault`, after
which nothing is said.  Two histories tell what led there: `scoped`, the program
has had one `DB`, neither copied nor destroyed before its users; and `racy`, the
classes for which two calls of `getInstance` overlapped before the object was
complete.  `ScopedProgramsSafe` says that a deleted object is only ever the pool,
in a program that is not scoped, and that an unfinished pool or configuration is
used only after such an overlap: one call before the threads start is enough.
Both faults are reached by the model, and by the code.

### Results

A `Statement` has a handle (MYSQL_STMT) and a block (its vectors of buffers);
both are numbers, so that copies, leaks and double frees show.  A value is the
run, row and column it came from: a getter that returns anything else read the
wrong place.  The calls a program may make in any order include the ones that go
wrong: a null handle, a dangling pointer, a column type without a buffer, NULL
through `atoi`; they set `fault`.  `calm` is history and says that a result's
`Statement` has been left alone since its query.  A prepared getter does not look
at `is_null` (`statement.cpp:222`) and a NULL leaves the buffer as it was;
`ReadsLastStored` says what is read then: the last value of that column that was
not NULL, of an earlier row or run, and never another column's.

### Migration

A *program* is a version of the source: a model (table name, fields, indices) per
class.  A process compares each class with its previous version (the record in the
data file, else the table in `information_schema` under its own or its default
name), executes the commands in order of priority, any order within a priority,
then truncates the file and appends the records.  `Crash` may happen between any
two of these steps, after which the same version starts again; `Deploy` replaces a
program that is up by the same or a newer version.  A statement fails when the
names do not fit (a table or column that exists or does not), and it may fail at
any time for what is not in the model: a lost session, rows that do not fit a new
type or a unique index, an `extra` that `ADD` and `CHANGE` write without a space
before it.  It then changes nothing, and the error is ignored (`model.h:247`).
`failed` is history: the classes this happened to in this process; when the data
file is truncated they become `wrong`, since from then on the record says that
they are migrated.  `Migrated` and `FieldKeepsData` except exactly these classes.

MySQL itself is external: `CREATE TABLE`, `RENAME`, `CHANGE`, `ADD COLUMN`,
`ADD/DROP INDEX` are modelled by their effect, with what the code really writes:
`CREATE TABLE` has no `extra`; its `PRIMARY KEY` comes from the `pk` tag, and an
index of the `primary_key` macro becomes a `UNIQUE` without a name
(`StoredIndex`), which MySQL names itself (`GeneratedName`).  `add_index` makes
one string of its list of columns (`reflection.h:133`): `ColumnsIn` gives the
columns in it, which is how the server understands it and `information_schema`
returns it.  `Respelled` is how the server spells what a statement said, such as
a default without its quotes.  This is MySQL 5.7's spelling: later servers report
`DEFAULT_GENERATED` in `EXTRA`.  The queries of `information_schema` themselves
are assumed to succeed.

A column's data is named by the class and field it was created for, so
`FieldKeepsData` can tell a renamed column from a new, empty one.  Abstracted:
types are opaque (with `isSameDbType` as equality) and include `notNull`, column
order is dropped, a record of the data file is one value that is written in a
single flush (see `DataFile`), and each process migrates a class once.

### DataFile

The file is a sequence of bytes; a `char` has `Base` values, a `short`
`Base * Base`, and both are signed and wrap as in the code.  `Save` builds the
bytes exactly as `toByteArray` and `ByteArray::fill` do, `Tear` writes a proper
prefix.  Each action of the parser is one round of the loop of `loadFromFile`.
A read that fails leaves its variable as it was or `Unset`; an array of unset or
negative length, or a pair without its separator, is out of bounds and sets
`undefined`.  The order of the indices is any order of the unordered map: the
models list them as sequences.

### Metadata

Names are sequences of characters, a tag is a pair or a list of words, and each
action handles one pair or one word, so that what a word means may depend on the
words before it.  `metadata` is sorted after every column (`model.h:273`) and
`std::sort` is not stable: columns of equal offset may end up in any order
(`ByOffset` is a set).  `Documented` restricts `IndicesComplete` to the
declarations the README of tinyORM writes: `name =` first, with at least two
characters, one index word per column, and no two indices of one name.

### QueryBuilder

One `Model` object after another.  A bind value is a heap address with the kind of
its C++ type; `bindValues` lists the values of all pending constraints one after
the other, which is how `bindParams` and `reset()` walk them, and `constraints`
keeps what the text needs of each; a statement is reduced to whether its text is
valid SQL, what its placeholders stand for and what is bound to them.  `Raw()`
leaves a constraint with an empty text pending: behind it the conditions of
`First`, `All` and `Update` are no SQL (`WHERE ()`, `WHERE  AND ...`), but
`Delete()` runs texts together, so that one condition behind it is valid and gets
`Raw()`'s values. `mixed` marks a statement that was built while `Raw()`'s
constraint was pending, or `Raw()`'s text executed without it; `BoundAsWritten`
speaks of the others.  A statement that cannot be prepared, or that is prepared on
a connection already given back, kills the process, as the null `MYSQL_STMT` does.

## 3. Runs

| Run | Result | Shows |
|---|---|---|
| `PoolLibraryClients` | pass | `NoSlotLeak`, `GivesUpOnlyWhenExhausted`, and `GetConnReturns` under `Fairness` |
| `PoolAnyClient` | pass | `PoolConsistent`, `SingleOwner`, `WithinCapacity`, `ImplementsPoolSpec` for `AnyClientSpec` with two configurations |
| `PooledTransactions` | pass | `CommittedIsDurable`, `TransactionKept`, `StatementsApart` |
| `SharedInstances` | pass | `OneInstance`, `ScopedProgramsSafe`, `GetInstanceReturns` |
| `ResultsAnyOrder` | pass | `BuffersHaveOneOwner`, `CounterFollowsCursor`, `ReadsLastStored` |
| `MigrationSupported` | pass | `Migrated`, `FieldKeepsData`, `RecordsCurrent`, `RerunLeavesSchemaAlone` over all histories of supported changes, with crashes and failing statements |
| `DataFileCrashes` | pass | `WholeModelsLoad`, `CutDamagesLastItem`, `LoadEnds` |
| `MetadataDeclarations` | pass | `IndicesComplete`, `AttributesIndependent`, `NamesFoundAgain` |
| `QueryAnyOrder` | pass | `BindValuesLive`, `BoundAsWritten` for all member functions in any order |
| `MigrationCustomRename` | violation | a table with a custom name is not renamed (`model.h:625`) |
| `MigrationTwoCalls` | violation | a second `AutoMigrate` truncates the first one's records (`db.h:43`) |
| `QueryDouble` | violation | `double` has no branch in `bindParams` (`model.h:743`) |

Every passing run but `PoolAnyClient` also checks its module's `TypeOK`.  Every
property of a passing run has a mutant: a *faulty variant* of a definition
(marked so in the modules, and used by nothing else) that a plausible slip in
the code would turn it into and under which TLC finds the property violated.

**Bounds.**  Two threads and three handle variables: one thread waits or
connects while the other holds, moves, closes or asks for another connection,
and a third variable is there to be overwritten or for `getMetadata`.  Pools of
one and two connections reach idle, full and exhausted.  `MaxId` (3 or 4) bounds
how many `SqlConn` objects are constructed: enough for two lent connections, one
that failed its test and one that was refused.  `Garbage` has two ids the pool
really lends.  `maxRetry` 1 and 2 separates the
first from a later round of the loop.  Threads and handles are interchangeable,
and symmetry is used in the run without liveness.

`MigrationSupported` has two classes; class A varies in table name, column name,
column type and extra, an optional column with a `now()` default, a single-column
index of either kind and an index that `add_index` puts over two columns, in 32
versions, with a quoted default throughout; class B is constant and shares the
data file.  `MaxFailed` is 1: statements of one class may fail, any number of them
and in any process, while the other must be unharmed.  *Supported* is the
definition `SupportedHistory` of `Migration`, which `MCMigration` assumes of this
instance: with every deployment fields are not removed and no field takes over
another's column, defaults stay, a primary key is not added or changed, an index
that only changes the order of its columns does not occur, and the table keeps its
name or leaves the default one; the first version has no extra, no class uses the
`primary_key` macro, classes do not share table names, and every `AutoMigrate`
call names them all.  Some kinds of history are outside it because the code does
not migrate them: renames from a custom name (a violation run), changed defaults
(`isSame`, `naming.h:103`, ends without a return; the model chooses either
answer), an index whose columns change their order (`datatype.h:86` compares
sets), a primary key added or changed (`model.h:236` writes `ADD PRIMARY KEY
id)`), a first version with an extra (`CREATE TABLE` never writes it), and the
`primary_key` macro (its index is no key, and is dropped by name after a lost
record).

`QueryAnyOrder`: four heap addresses and three pending constraints are enough
for a leaked value, a pending one and a new one to coexist; argument lists of
zero to two values of every kind `bindParams` knows.

`PooledTransactions`: two clients and two sessions, so that a session changes
hands, a second client works on the other, and both run into a full pool; three
writes are a transaction of two and one by somebody else.

`SharedInstances`: two threads race; two owner and two user variables give a
copy, a second `DB` and a `Migrator` beside its `Model`; one failed attempt to
read `rules.json` is followed by a successful one.

`ResultsAnyOrder`: two Statements, two ResultSets, two prepared handles and two
executions are what a move, an overwritten result or an older result of the same
Statement needs; a query has two columns of one name, and a table a NULL.

`DataFileCrashes`: `Base = 16` makes a name of eight bytes wrap a `char`, and
the models include ones at and beyond the limit, with empty and nonempty
defaults behind one another; two models in a file are one to skip and one to
find, in either order, and the cut is at any byte of the last.

`MetadataDeclarations`: all names of up to five characters over an upper- and a
lower-case letter, a digit and an underscore cover every pair of neighbours at
the start, inside and at the end; three words are `default`, its value and one
word more, or `not`, something, `null`.

**Fairness.**  `GetInstanceReturns` assumes that a thread inside `getInstance`
keeps running and gets a mutex that stays free; the constructors are bounded
work.  `LoadEnds` assumes that the parser's loop runs.

`GetConnReturns` assumes weak fairness of each thread's steps inside `getConn()`:
the scheduler runs it, a timed wait ends, and `mysql_real_connect` and the test
query return.  Nothing is assumed about who gets a contended mutex: `std::mutex`
is not fair, so the property is claimed for a thread only if, from some point on,
no other thread takes the mutex away.  No fairness is assumed for clients, so
nobody ever has to give a connection back.

Deadlock is checked in every run: a process that has died or whose behaviour is
undefined is the only state without further steps and stutters explicitly
(`Halted`); in `Metadata` a finished constructor does (`Finished`).

## 4. Proofs

All theorems hold for every value of the constants that satisfies the
assumptions below: any number of threads, handles, clients, sessions,
Statements, rows, programs, calls or addresses, so without the bounds of the
runs.  Each proof module extends the component's module and follows the same
plan: `InitInd`, one lemma per action or kind of action, `NextInd`,
`Inductive : Spec => []IndInv`, and the properties as consequences.  `IndInv` is
defined at the end of the component's module, as a conjunction of named parts,
and was checked with TLC on the run's instance before it was proved.

| Module | Theorem | Statement |
|---|---|---|
| `ConnectionPoolProofs` | `TypeCorrect` | `AnyClientSpec => []TypeOK` |
| | `PoolIsConsistent` | `AnyClientSpec => []PoolConsistent` |
| | `SessionsHaveOneOwner` | `AnyClientSpec => []SingleOwner` |
| | `CapacityRespected` | `AnyClientSpec => []WithinCapacity` |
| | `NoSlotIsLost` | `Spec => []NoSlotLeak` |
| | `FailsOnlyWhenExhausted` | with `Configs = {c}`: `AnyClientSpec => GivesUpOnlyWhenExhausted` |
| | `PoolImplementsPromise` | `AnyClientSpec => ImplementsPoolSpec` |
| `SessionsProofs` | `TypeCorrect` | `Spec => []TypeOK` |
| | `CommitsAreDurable` | `Spec => []CommittedIsDurable` |
| | `TransactionsAreKept` | `Spec => []TransactionKept` |
| | `StatementsDoNotMix` | `Spec => []StatementsApart` |
| `LifetimeProofs` | `TypeCorrect` | `Spec => []TypeOK` |
| | `OneObjectOfEach` | `Spec => []OneInstance` |
| | `ScopedProgramsAreSafe` | `Spec => []ScopedProgramsSafe` |
| `ResultsProofs` | `TypeCorrect` | `Spec => []TypeOK` |
| | `OneOwner` | `Spec => []BuffersHaveOneOwner` |
| | `LoopsSeeEveryRow` | `Spec => []CounterFollowsCursor` |
| | `GettersReadLastStored` | `Spec => []ReadsLastStored` |
| `MigrationProofs` | `TypeCorrect` | `Spec => []TypeOK` |
| | `LastCallKeepsRecords` | with `Classes \subseteq Range(LastCall)`: `Spec => []RecordsCurrent` |
| | `RerunIssuesNothing` | `Spec => RerunLeavesSchemaAlone` |
| `MigrationHistory` | `TablesMigrated` | with `SupportedHistory`: `Spec => []Migrated` |
| | `DataKept` | with `SupportedHistory`: `Spec => []FieldKeepsData` |
| `MetadataProofs` | `TypeCorrect` | `Spec => []TypeOK` |
| | `IndicesAreComplete` | `Spec => []IndicesComplete` |
| | `AttributesAreIndependent` | `Spec => []AttributesIndependent` |
| `QueryBuilderProofs` | `TypeCorrect` | `Spec => []TypeOK` |
| | `NoUseAfterFree` | `Spec => []BindValuesLive` |
| | `PlaceholdersBound` | with `SupportedKinds`: `Spec => []BoundAsWritten` |

**Assumptions.**  Pool: the configurations are a nonempty set of records with
natural `poolSize` and positive `maxRetry`; `NoThread` and `NoHandle` are not a
thread or a handle; there are finitely many handles; `MaxId` is a natural number;
an uninitialised `id` holds some integer (`Garbage`).  Sessions: `PoolSize` is a
natural number, `NoSession` is not a session, `NoMode` not a Boolean.  Lifetime:
`NoThread` is not a thread.  Results: a query is a sequence of typed columns, a
table a sequence of rows (the set of its columns that are NULL).  Migration: every
model of every program is what MySQL accepts as a table (`WellFormed`: at least
one column, no two of one name or from one member, indices over columns of the
table, each once, lists of `add_index` included; `CREATE TABLE`, or the compiler,
refuses any other class), a process makes at least one call and no call is empty
(the parameter pack of `DB::AutoMigrate<T, ...>`); the server does not respell
`current_timestamp`, and the name it makes up for an index is nobody else's
(`ServerAssumption`).  Metadata: columns, tags and macros come as sequences, a
word is not empty (`split` makes none), and the members of a class have different
names.  QueryBuilder: finitely many addresses, numbers and none of them null, and
arguments and columns of the kinds that have a `bindVal`.

**The pool.**  None of the properties is inductive alone.  `WithinCapacity`
needs to know that the `total` a thread tested is still the size of the pool
when it inserts: `TotalInv` says so for a thread between `test` and `connect`,
which needs `MutexInv` (the owner of the mutex is exactly the thread in that
region).  `SingleOwner` needs that a fresh id is nobody's (`IdInv`) and that a
handle's session is the one its id was created with (`HandleInv`).
`PoolConsistent` needs both when a handle is given back.  `CapacityRespected`
says "some configured size" and no more: after a shrinking `configure()` the
pool may be larger than the current `poolSize`.  `NoSlotIsLost` adds `FreshInv`:
the variable a `getConn()` in progress will return to is empty and nobody
else's, so returning into it overwrites nothing.  `FailsOnlyWhenExhausted` adds
`RetryInv`: a thread that left the loop with nothing idle and no room has
counted to `maxRetry`, and `total` is `poolSize`.

**The refinement.**  The last part of `ConnectionPoolProofs` maps `lent` to
`Held`, what each handle can release, and shows that the initial state is one of
the promise and that every step is one of its actions or a stutter: returning from
`getConn()` is `Lend` or `Create`, `close` and the destructor are `Return`,
overwriting or dropping a handle is `Lose`, a move is a `Transfer`, and all the
rest is hidden.  It rests on `IndInv` of the pool: two handles never hold one id
(`HeldApart`), and the id just made is free of holders.

**Sessions.**  `TransactionKept` and `CommittedIsDurable` are parts of the
invariant themselves.  They need `PoolInv` (a session is lent to one client:
what `PoolSpec` promises), `ModeInv` (after its constructor a `Model` has the
mode it asked for, unless the session is broken), and `TxInv` (only a client
with autocommit off has a transaction).  `StatementsApart` needs `StmtInv`: a
statement is open on the session its client holds until the client gives it back.

**Lifetime.**  `OneInstance` needs that every object is the published one or on
its way to be (`InstanceInv`), which needs that only the owner of the mutex is
in the critical section (`ControlInv`) and that the pointer, once set, stays
(`PointerInv`).  `ScopeInv` is the argument for programs with one `DB`: while its
constructor is in `getInstance` nobody else has the pool, and from then on
whoever has it has a complete one.  `RaceInv` is the argument about overlaps: an
unfinished object is in the hands of the thread that creates it (`RawInv`), and
until it is finished that thread is alone in `getInstance` unless calls have
overlapped (`AloneInv`).

**Results.**  `FitInv` ties a Statement's buffers to the columns of its query,
`InStep` a result to the server's cursor: the counter is one row ahead until the
end.  `BufferInv` says what the buffers hold: for every column the last value
fetched that was not NULL, which needs that runs are numbered upwards.  It
survives every action on other Statements because of `BuffersHaveOneOwner`.

**Migration.**  Each statement of the migrator is shown to keep a table well
formed, an index following its column through a `CHANGE` (`ChangedColumn`).
`FileInv` says that the data file has exactly the classes of the call saved so
far, as the program defines them.  `LastCallKeepsRecords` then explains the
finding of `MigrationTwoCalls`: a last call that names every class is what the
code needs.  `RerunIssuesNothing` goes through both sources of the previous
model: from the file it is the model itself, and an index equals itself because
it names a column once (`IndexEqualsItself`); from `information_schema` every
field finds its column, and `FieldUnchanged` shows that neither the missing
return of `isSame` nor the spelling of `now()` makes a difference.  For this
second source the model has to read back as it was written (`ReadsBack`): a
quoted default or a list given to `add_index` does not, and the column or index is
rewritten when the record is lost.

**Whole histories.**  `Migrated` speaks of the program that is up; the proof has
to say what the tables are at every other moment, after any number of crashes and
deployments.  `HistInv` does so with one idea: for every class not in `wrong`, the
code compares the program with a *base*, which is the record of the data file if
there is one and otherwise the model's own columns and key (`Unrecorded`: without
a record the other indices may be rewritten, so nothing is known of them), and the
table (at `Place`, the new name if it exists and the base's otherwise) is always
`Midway` from the base to the program: each column has the old or the new name and
the old or the new type, with the data of its own field; an index that does not
change is there, a new one is there or missing, and one that changes is free,
since it is dropped first in any case. `Underway` adds that the class has no
second table under its names, without which a rename could fail.  The commands are
described twice, because some may have failed: `Commands` says that each is one
the change needs, so whatever of them is executed or fails the table stays midway;
`Pending`, claimed as long as no statement of the class has failed, says that they
are all of the rest of the way, so that the table has arrived when they are done
(`DoneInv`).  Each statement takes its step, and a failing one takes none.  A
crash forgets the commands and the failures and leaves the table midway, which is
where the next comparison starts from, with a record or from `information_schema`;
a table that has arrived is midway from `Unrecorded`, which is why losing the
record after the truncation does no harm; and a table that has arrived at one
version is midway to the next (`Deployed`), which is where `SupportedChange` is
needed.  A class in `wrong` is at no known place, but all it does is to tables of
its own `TableNames` (`ExecutedElsewhere`), so the others are as they were.  A
newer version put over an interrupted migration is outside: the data file still
has the record from before the interrupted one, and a column renamed twice is then
looked for under its first name.  `HistInv` was checked with TLC on the instance
of `MigrationSupported` before it was proved.

**Metadata.**  `IndicesComplete` and `AttributesIndependent` speak of the finished
class.  `ReadInv` says of the field under construction that it has what the tags
read so far ask for, `FlagsInv` that the two flags of the parser are set only
inside the tag that set them, and `IndexRead` that an index exists only if an
index word was read, so that the first one in a column is the only one and sees
the final `name =`.  `MadeFrom` carries this into the list of columns; it survives
the sort because a permutation loses and adds no column (`SortKeeps`).  Names of
indices then are unique, so no entry of the map overwrites another
(`IndicesCollected`).

**QueryBuilder.**  `Fresh` is what an allocation returns; `AppendLive` says that
fresh values behind live ones are live.  Whether a member function reached
`reset()` or returned before it does not matter.  `BoundInOrder` is the core of
`PlaceholdersBound`: when every value has a branch in `bindParams`, the parameter
index is the position in the list, so the k-th value goes to the k-th placeholder.
`RawFirst` says that `Raw()`'s values are the first of the list while its
constraint is pending, which is why its own text gets them, also with a `Where()`
behind it.  `SupportedKinds` is exactly what the finding of `QueryDouble` says is
missing: with a `double` among the arguments the index falls behind.  It holds of
the instance of `QueryAnyOrder` (an `ASSUME` of `MCQueryBuilder`).

**Only model-checked**, and why:

- `GetConnReturns`, `GetInstanceReturns`, `LoadEnds`: liveness is out of this
  prover's reach.
- All of `DataFile`: its properties are about the bytes that folds over sequences
  produce and about the lengths of flattened sequences, which need induction over
  data.
- `NamesFoundAgain`: the same, for names character by character.
- The three violation runs, which show a behaviour and need no proof.

## 5. Known limits of the code

What the models show the code does and no passing run can claim otherwise:

- `Delete()` with two conditions, `Page()` without one, and `ADD PRIMARY KEY`
  produce text no server can parse (`model.h` 428, 715, 236), as do `First()`,
  `All()` and `Update()` between `Raw()` and `Exec()`; the null statement
  of a failed prepare is executed (`statement.cpp:18`).
- `Raw()`, `Where()` and `Delete()` bind `Raw()`'s values to the condition's
  placeholders (`model.h:426`), and a second `Fetch()` binds what a `Where()` left
  to the placeholders of `Raw()`'s text.
- `First()` without a row keeps its conditions and values (`model.h:499`); they
  are part of the next statement.  `BoundAsWritten` holds all the same.
- `Exec()` leaves a `Model` without a connection (`model.h:541`), and its own
  Statement, or one whose plain `SqlConn` is closed before it, reaches a session
  somebody else may hold (`sqlconn.cpp:132`).
- `isSame` without a return may hide a changed default (`naming.h:103`).
- A class is recorded as migrated after a statement of it has failed
  (`model.h:247`): no later run makes up for it.
- `CREATE TABLE` never writes `extra` (`model.h:167`), and makes a `UNIQUE` of the
  `primary_key` macro (`model.h:182`).
- When the record is lost, a column with a quoted default may be rewritten and an
  index of `add_index` over several columns is dropped and built again
  (`dataloader.h:162`, `reflection.h:133`); a variable with an upper-case initial
  (`RoleKey` in `example/role.h`) is not found again under its name, so that a
  rename of its column then adds a second, empty one (`dataloader.h:158`).
- A second or copied `DB` works on a deleted pool (`db.h:28`).
- Two threads whose first `getInstance()` calls overlap may use a pool or a
  configuration that is not finished (`connectionpool.cpp:26`, `conf.h:29`).
- `Model::Commit` does not tell whether it committed (`model.h:577`).
- A name, type or default of 128 bytes or more, or an index with long column
  names, makes a record of the data file unreadable (`dataloader.h:51`).
- A data file cut off inside a model may make the next load of that model read
  out of bounds; other models are not affected.
- A `name =` behind the index word of its column, or of one character, gives an
  index on a column that does not exist (`datatype.h:179`, `common.cpp:13`).
- A NULL column read through a `PreparedResult` returns the value an earlier row
  had there (`statement.cpp:222`).
- A result whose `Statement` is executed again, moved or destroyed loses rows or
  reads freed memory (`preparedresult.cpp:13`).

## 6. Not modelled

The static members a second `AutoMigrate` of one class finds; columns that swap
names; `LIKE` wildcards in `information_schema` queries and their failure; the
spelling of servers after MySQL 5.7; what `NON_UNIQUE`'s
type makes of `getLong`; the conversion of texts to numbers and `Timestamp`'s
calendar arithmetic; `rules.json`'s tables; the generator, which only prints.
Vendored code (nlohmann/json, spdlog, cmdline, MySQL's headers), by far the
largest part of the repository, is outside the project.  Logging, error strings
and SQL wording are left out on purpose.

## 7. Plan

Done: every module of section 2, with its runs; the proofs of section 4, which
state every invariant that does not depend on a fold.  What is left:

1. `DataFile`: bounds on the parser's position and buffers that hold whatever the
   bytes are, with lemmas about its folds as soon as the prover can do induction
   over sequences.
2. `Results` and `Lifetime`: which calls can set `fault`, as theorems.
3. `Migration`: a second `AutoMigrate` of one class in one process.
