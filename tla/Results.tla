------------------------------ MODULE Results ------------------------------
(***************************************************************************)
(* Prepared statements and results (mysql4cpp): Statement with its result  *)
(* buffers and its move operations, PreparedResult, which reads them       *)
(* through a plain pointer to the Statement, SqlResult, which owns its     *)
(* rows, and ResultSet, the handle clients hold.  The client calls         *)
(* everything in any order; the loops of Model (First, All, Fetch) are     *)
(* among its behaviours.                                                   *)
(*                                                                         *)
(* The buffers of one resBind vector live and die together, so a vector is *)
(* one block.  Prepare number n creates MYSQL_STMT n and block n.          *)
(***************************************************************************)
EXTENDS Integers, Sequences, FiniteSets

CONSTANTS
    Stmts,       \* the program's Statement variables
    Sets,        \* its ResultSet variables
    Queries,     \* texts, by their columns: sequences of [name, type]
    Tables,      \* what a query may select: sequences of sets of NULL columns
    MaxPrepared, \* bound: statements prepared
    MaxRuns      \* bound: queries executed

\* The column types, by the getter made for them; decimal has none.
Types == {"tiny", "int", "bigint", "double", "text", "time", "decimal"}

ASSUME QueryAssumption == Queries \subseteq Seq([name : STRING, type : Types])
ASSUME TableAssumption == Tables \subseteq Seq(SUBSET Nat)
ASSUME BoundAssumption == MaxPrepared \in Nat /\ MaxRuns \in Nat

VARIABLES
    stmts,    \* the Statement objects
    prepared, \* prepared[n]: MYSQL_STMT n, its cursor, and block n
    sets,     \* the ResultSet objects
    runs,     \* queries executed so far
    fault     \* "none", or why the program has undefined behaviour

vars == <<stmts, prepared, sets, runs, fault>>

\* handle: stmt_ptr; block: resBind and paramBind; query: fields and nameToIndex.
Dead == [live |-> FALSE, handle |-> 0, block |-> 0, query |-> << >>, numField |-> 0]

\* A ResultSet without a Result.  calm is history: since the query, the result's
\* Statement has been neither moved, executed again nor destroyed, and no older
\* result of it has been advanced.
NoResult == [kind |-> "null", stmt |-> "none", query |-> << >>, run |-> 0, rows |-> << >>,
             cur |-> 1, calm |-> FALSE]

Unset == << >>
Zero == <<0>>
Other == <<1>>

Init ==
    /\ stmts = [s \in Stmts |-> Dead]
    /\ prepared = << >>
    /\ sets = [r \in Sets |-> NoResult]
    /\ runs = 0
    /\ fault = "none"

Fault(why) ==
    /\ fault' = why
    /\ UNCHANGED <<stmts, prepared, sets, runs>>

\* The results that read through one of these Statements are no longer calm.
Disturbed(some) ==
    [r \in Sets |-> IF sets[r].stmt \in some THEN [sets[r] EXCEPT !.calm = FALSE] ELSE sets[r]]

-----------------------------------------------------------------------------
(* Statement *)

\* What makeResultBind has a case for.
Bound(type) == type # "decimal"

\* Statement's constructor; a text that cannot be prepared leaves a null handle
\* and numField unset.
Prepare(s, q) ==
    /\ ~stmts[s].live
    /\ \/ /\ Len(prepared) < MaxPrepared
          /\ LET n == Len(prepared) + 1
             IN  stmts' = [stmts EXCEPT ![s] =
                     [live |-> TRUE, handle |-> n, block |-> n, query |-> q, numField |-> Len(q)]]
          /\ prepared' = Append(prepared,
                 [open |-> TRUE, allocated |-> TRUE, run |-> 0, rows |-> << >>, pos |-> 0,
                  data |-> [c \in DOMAIN q |-> Unset]])
       \/ /\ \E n \in {0, Len(q)} :
                 stmts' = [stmts EXCEPT ![s] = [Dead EXCEPT !.live = TRUE, !.numField = n]]
          /\ UNCHANGED prepared
    /\ UNCHANGED <<sets, runs, fault>>

\* Faulty variant of MoveConstruct: resBind is copied instead of swapped.
MoveConstructCopying(d, s) ==
    /\ ~stmts[d].live /\ stmts[s].live
    /\ stmts' = [stmts EXCEPT ![d] = stmts[s], ![s].handle = 0]
    /\ sets' = Disturbed({s})
    /\ UNCHANGED <<prepared, runs, fault>>

\* Statement(Statement&&): the vectors are swapped with empty ones.
MoveConstruct(d, s) ==
    /\ ~stmts[d].live /\ stmts[s].live
    /\ stmts' = [stmts EXCEPT ![d] = stmts[s], ![s].handle = 0, ![s].block = 0, ![s].query = << >>]
    /\ sets' = Disturbed({s})
    /\ UNCHANGED <<prepared, runs, fault>>

\* operator=(Statement&&): d's handle is closed, its vectors go to s; numField
\* and paramCount are copied.
MoveAssign(d, s) ==
    /\ d # s /\ stmts[d].live /\ stmts[s].live
    /\ stmts' = [stmts EXCEPT ![d] = stmts[s], ![s].handle = 0, ![s].block = stmts[d].block,
                              ![s].query = stmts[d].query]
    /\ prepared' = [n \in DOMAIN prepared |->
           IF n = stmts[d].handle THEN [prepared[n] EXCEPT !.open = FALSE] ELSE prepared[n]]
    /\ sets' = Disturbed({d, s})
    /\ UNCHANGED <<runs, fault>>

\* ~Statement frees the buffers, then stmt_ptr closes the handle.
Destroy(s) ==
    /\ stmts[s].live
    /\ stmts' = [stmts EXCEPT ![s] = Dead]
    /\ prepared' = [n \in DOMAIN prepared |->
           [prepared[n] EXCEPT !.allocated = @ /\ n # stmts[s].block,
                               !.open = @ /\ n # stmts[s].handle]]
    /\ sets' = Disturbed({s})
    /\ UNCHANGED <<runs, fault>>

\* Faulty variant of NewPrepared: cur counts from 0.
NewPreparedFromZero(s, rows) ==
    [kind |-> "prepared", stmt |-> s, query |-> stmts[s].query, run |-> runs + 1, rows |-> rows,
     cur |-> 0, calm |-> TRUE]

\* PreparedResult's constructor; count is Len(rows).
NewPrepared(s, rows) ==
    [kind |-> "prepared", stmt |-> s, query |-> stmts[s].query, run |-> runs + 1, rows |-> rows,
     cur |-> 1, calm |-> TRUE]

\* The server runs the statement: an earlier result of it is discarded.
ServerRuns(s, rows) ==
    /\ runs < MaxRuns
    /\ runs' = runs + 1
    /\ prepared' = [prepared EXCEPT ![stmts[s].handle].run = runs + 1,
                                    ![stmts[s].handle].rows = rows,
                                    ![stmts[s].handle].pos = 0]

\* r = s.executeQuery().  mysql_stmt_bind_result reads one MYSQL_BIND for every
\* column; without columns it fails, as any of the calls may.
ExecuteQuery(s, r, rows) ==
    /\ stmts[s].live
    /\ \/ stmts[s].handle = 0 /\ Fault("null statement")
       \/ /\ stmts[s].handle # 0
          /\ \E c \in DOMAIN stmts[s].query : ~Bound(stmts[s].query[c].type)
          /\ Fault("no buffer")
       \/ /\ stmts[s].handle # 0
          /\ \A c \in DOMAIN stmts[s].query : Bound(stmts[s].query[c].type)
          /\ ServerRuns(s, rows)
          /\ \/ stmts[s].query # << >> /\ sets' = [Disturbed({s}) EXCEPT ![r] = NewPrepared(s, rows)]
             \/ sets' = [Disturbed({s}) EXCEPT ![r] = NoResult]
          /\ UNCHANGED <<stmts, fault>>

\* executeUpdate() on a statement that may still have a result.
ExecuteUpdate(s, rows) ==
    /\ stmts[s].live
    /\ \/ stmts[s].handle = 0 /\ Fault("null statement")
       \/ /\ stmts[s].handle # 0
          /\ ServerRuns(s, rows)
          /\ sets' = Disturbed({s})
          /\ UNCHANGED <<stmts, fault>>

-----------------------------------------------------------------------------
(* SqlConn::executeQuery and SqlResult *)

NewSqlResult(q, rows) ==
    [kind |-> "sql", stmt |-> "none", query |-> q, run |-> runs + 1, rows |-> rows, cur |-> 1,
     calm |-> TRUE]

\* Faulty variant of Query: a failed query's null MYSQL_RES gets a SqlResult
\* all the same, whose numRows is never set.
QueryUnchecked(r, q, rows) ==
    /\ runs < MaxRuns
    /\ runs' = runs + 1
    /\ \/ sets' = [sets EXCEPT ![r] = NewSqlResult(q, rows)]
       \/ \E n \in 0..3 : sets' = [sets EXCEPT ![r] = NewSqlResult(<< >>, [i \in 1..n |-> {}])]
    /\ UNCHANGED <<stmts, prepared, fault>>

Query(r, q, rows) ==
    /\ runs < MaxRuns
    /\ runs' = runs + 1
    /\ sets' \in {[sets EXCEPT ![r] = NewSqlResult(q, rows)], [sets EXCEPT ![r] = NoResult]}
    /\ UNCHANGED <<stmts, prepared, fault>>

-----------------------------------------------------------------------------
(* ResultSet *)

\* Move construction and assignment: the old result of r is deleted.
MoveSet(r, q) ==
    /\ r # q
    /\ sets' = [sets EXCEPT ![r] = sets[q], ![q] = NoResult]
    /\ UNCHANGED <<stmts, prepared, runs, fault>>

HasNext(r) == sets[r].cur <= Len(sets[r].rows)

\* mysql_stmt_fetch: the columns that are not NULL are stored, a NULL one leaves
\* its buffer as it is; past the last row nothing is.
Fetched(n) ==
    LET p == prepared[n]
    IN  IF p.pos = Len(p.rows) THEN p
        ELSE [p EXCEPT !.pos = @ + 1,
                       !.data = [c \in DOMAIN @ |->
                           IF c \in p.rows[p.pos + 1] THEN @[c] ELSE <<p.run, p.pos + 1, c>>]]

\* next(); called once past the end at most.
Advance(r) ==
    LET x == sets[r] IN
    \/ x.kind = "null" /\ Fault("null result")
    \/ /\ x.kind = "prepared"
       /\ \/ ~stmts[x.stmt].live /\ Fault("dangling statement")
          \/ stmts[x.stmt].live /\ stmts[x.stmt].handle = 0 /\ Fault("null statement")
          \/ /\ stmts[x.stmt].live /\ stmts[x.stmt].handle # 0
             /\ x.cur <= Len(x.rows) + 1
             /\ prepared' = [prepared EXCEPT ![stmts[x.stmt].handle] = Fetched(stmts[x.stmt].handle)]
             /\ sets' = [Disturbed({x.stmt}) EXCEPT ![r] = [x EXCEPT !.cur = @ + 1]]
             /\ UNCHANGED <<stmts, runs, fault>>
    \/ /\ x.kind = "sql"
       /\ x.cur <= Len(x.rows) + 1
       /\ sets' = [sets EXCEPT ![r].cur = @ + 1]
       /\ UNCHANGED <<stmts, prepared, runs, fault>>

\* The getters, and the types each returns the column's value for.
PreparedGetter == [getInt |-> {"int"}, getLong |-> {"bigint"}, getDouble |-> {"double"},
                   getString |-> {"text"}, getTime |-> {"time"}]
SqlGetter == [PreparedGetter EXCEPT !.getInt = {"tiny", "int"}]

\* Faulty variant of Index: the caller's index, which counts from 1, is not
\* converted, and the next column is read.
IndexUnconverted(query, c, byName) == IF c < Len(query) THEN c + 1 ELSE c

\* The column found: nameToIndex has the last column of a name.
Index(query, c, byName) ==
    IF byName THEN CHOOSE d \in DOMAIN query :
                       /\ query[d].name = query[c].name
                       /\ \A b \in DOMAIN query : query[b].name = query[c].name => b <= d
    ELSE c

Unique(query, c) == \A d \in DOMAIN query : query[d].name = query[c].name => d = c

\* Statement::getRes and the getters of PreparedResult, which do not look at the
\* type: a narrower buffer is read past its end, a wider one in part.
PreparedValue(s, i, g) ==
    IF stmts[s].query[i].type \in PreparedGetter[g] THEN prepared[stmts[s].block].data[i] ELSE Other

SqlValue(x, i, g) ==
    CASE x.query[i].type \notin SqlGetter[g] -> Zero
      [] i \in x.rows[x.cur - 1] -> Zero
      [] OTHER -> <<x.run, x.cur - 1, i>>

\* A getter that finds nothing to read.  Otherwise it changes nothing: what it
\* returns is PreparedValue or SqlValue.
GetPrepared(r, c, byName) ==
    LET s == sets[r].stmt IN
    /\ sets[r].kind = "prepared"
    /\ c \in DOMAIN sets[r].query
    /\ \/ ~stmts[s].live /\ Fault("dangling statement")
       \/ /\ stmts[s].live /\ ~byName
          /\ c \in (1..stmts[s].numField) \ DOMAIN stmts[s].query
          /\ Fault("no buffer")

\* Only getString tests for NULL; without a current row every getter that gets
\* past the type reads through a null or unset row.
GetSql(r, c, byName, g) ==
    LET x == sets[r]
        i == Index(x.query, c, byName)
    IN  /\ x.kind = "sql"
        /\ c \in DOMAIN x.query
        /\ x.query[i].type \in SqlGetter[g]
        /\ \/ x.cur - 1 \notin DOMAIN x.rows
           \/ x.cur - 1 \in DOMAIN x.rows /\ i \in x.rows[x.cur - 1] /\ g # "getString"
        /\ Fault("null row")

Halted == fault # "none" /\ UNCHANGED vars

Next ==
    \/ /\ fault = "none"
       /\ \/ \E s \in Stmts, q \in Queries : Prepare(s, q)
          \/ \E s \in Stmts : Destroy(s)
          \/ \E d, s \in Stmts : MoveConstruct(d, s) \/ MoveAssign(d, s)
          \/ \E s \in Stmts, r \in Sets, rows \in Tables : ExecuteQuery(s, r, rows)
          \/ \E s \in Stmts, rows \in Tables : ExecuteUpdate(s, rows)
          \/ \E r \in Sets, q \in Queries, rows \in Tables : Query(r, q, rows)
          \/ \E r, q \in Sets : MoveSet(r, q)
          \/ \E r \in Sets : Advance(r)
          \/ \E r \in Sets, byName \in BOOLEAN : \E c \in DOMAIN sets[r].query :
                 GetPrepared(r, c, byName) \/ \E g \in DOMAIN SqlGetter : GetSql(r, c, byName, g)
    \/ Halted

Spec == Init /\ [][Next]_vars

-----------------------------------------------------------------------------
(* Properties *)

TypeOK ==
    /\ Len(prepared) <= MaxPrepared /\ runs <= MaxRuns
    /\ \A s \in Stmts : {stmts[s].handle, stmts[s].block} \subseteq 0..Len(prepared)
    /\ \A n \in DOMAIN prepared : prepared[n].pos <= Len(prepared[n].rows)
    /\ \A r \in Sets : sets[r].rows \in Tables \cup {<< >>}

\* However Statements are moved, every MYSQL_STMT and every set of buffers has
\* exactly one owner until it is closed or freed, and a Statement with a handle
\* has the buffers that handle was prepared with: nothing is freed twice, used
\* after it was freed, or leaked, and no fetch writes into another's buffers.
BuffersHaveOneOwner ==
    /\ \A n \in DOMAIN prepared :
          /\ prepared[n].allocated <=> \E s \in Stmts : stmts[s].block = n
          /\ prepared[n].open <=> \E s \in Stmts : stmts[s].handle = n
    /\ \A s \in Stmts : stmts[s].handle # 0 => stmts[s].block = stmts[s].handle
    /\ \A s, t \in Stmts : stmts[s].block = stmts[t].block /\ stmts[s].block # 0 => s = t

\* While the Statement behind a prepared result is left alone, the result's own
\* counter agrees with the server's cursor: hasNext() says whether a row is left,
\* so that a hasNext()/next() loop sees every row of its query once and in order,
\* and ends; and the pointer it reads through is good.
CounterFollowsCursor ==
    \A r \in Sets :
        LET x == sets[r] IN
        x.kind = "prepared" /\ x.calm =>
            /\ stmts[x.stmt].live /\ stmts[x.stmt].handle # 0
            /\ LET p == prepared[stmts[x.stmt].handle]
               IN  p.run = x.run /\ p.rows = x.rows /\ (HasNext(r) <=> p.pos < Len(p.rows))

\* v is what the buffer of column c has after pos rows of a run: the column's value
\* in the last of them in which it was not NULL or, if there is none, what an earlier
\* run of the Statement left there.
LastStored(v, rows, pos, run, c) ==
    \/ \E k \in 1..pos : /\ c \notin rows[k] /\ v = <<run, k, c>>
                         /\ \A j \in (k + 1)..pos : c \in rows[j]
    \/ /\ \A k \in 1..pos : c \in rows[k]
       /\ v = Unset \/ (Len(v) = 3 /\ v[1] < run /\ v[3] = c)

\* What a getter made for the type of the column returns, by index or by a name no
\* other column has.  A SqlResult gives the value in its current row, and getString
\* an empty string for NULL.  A PreparedResult does not look at is_null: the value is
\* that of the current row when it is not NULL there, and otherwise the one that the
\* same column had in an earlier row or an earlier run of the Statement, never another
\* column's or another Statement's.
ReadsLastStored ==
    \A r \in Sets :
        LET x == sets[r]
            row == x.cur - 1
        IN  x.calm /\ row \in DOMAIN x.rows =>
            \A c \in DOMAIN x.query, byName \in BOOLEAN, g \in DOMAIN SqlGetter :
                (byName => Unique(x.query, c)) =>
                    /\ x.kind = "prepared" /\ x.query[c].type \in PreparedGetter[g] =>
                          LastStored(PreparedValue(x.stmt, Index(x.query, c, byName), g),
                                     x.rows, row, x.run, c)
                    /\ x.kind = "sql" /\ x.query[c].type \in SqlGetter[g] =>
                          SqlValue(x, Index(x.query, c, byName), g) =
                              IF c \in x.rows[row] THEN Zero ELSE <<x.run, row, c>>

-----------------------------------------------------------------------------
(* The inductive invariant behind the properties *)

Statements == [live : BOOLEAN, handle : Nat, block : Nat, query : Queries \cup {<< >>},
               numField : Nat]
Handles == [open : BOOLEAN, allocated : BOOLEAN, run : Nat, rows : Tables \cup {<< >>},
            pos : Nat, data : Seq(Seq(Nat))]
ResultSets ==
    {x \in [kind : {"null", "prepared", "sql"}, stmt : Stmts \cup {"none"},
            query : Queries \cup {<< >>}, run : Nat, rows : Tables \cup {<< >>},
            cur : Nat, calm : BOOLEAN] : x.kind = "prepared" => x.stmt \in Stmts}

ShapeInv ==
    /\ stmts \in [Stmts -> Statements]
    /\ prepared \in Seq(Handles)
    /\ sets \in [Sets -> ResultSets]
    /\ runs \in Nat

\* A Statement that is gone owns nothing; the buffers of one that lives are
\* those of its columns.
FitInv ==
    \A s \in Stmts :
        /\ ~stmts[s].live => stmts[s].handle = 0 /\ stmts[s].block = 0
        /\ stmts[s].block # 0 => DOMAIN prepared[stmts[s].block].data = DOMAIN stmts[s].query

\* What holds of a result x whose Statement has been left alone: it is one row
\* ahead of the server's cursor until it runs past the end.
InStep(x) ==
    /\ x.stmt \in Stmts
    /\ stmts[x.stmt].live /\ stmts[x.stmt].handle # 0
    /\ stmts[x.stmt].query = x.query
    /\ prepared[stmts[x.stmt].handle].run = x.run
    /\ prepared[stmts[x.stmt].handle].rows = x.rows
    /\ x.cur \in 1..(Len(x.rows) + 2)
    /\ prepared[stmts[x.stmt].handle].pos = IF x.cur <= Len(x.rows) THEN x.cur - 1 ELSE Len(x.rows)

CalmInv == \A r \in Sets : sets[r].kind = "prepared" /\ sets[r].calm => InStep(sets[r])

\* The buffers hold what the rows fetched so far have put there.
BufferInv ==
    \A n \in DOMAIN prepared :
        /\ prepared[n].run <= runs
        /\ \A c \in DOMAIN prepared[n].data :
              LastStored(prepared[n].data[c], prepared[n].rows, prepared[n].pos, prepared[n].run, c)

IndInv == ShapeInv /\ TypeOK /\ BuffersHaveOneOwner /\ FitInv /\ CalmInv

=============================================================================
