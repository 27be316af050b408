---------------------------- MODULE QueryBuilder ----------------------------
(***************************************************************************)
(* Model<T> (model.h) as a builder of statements: a client calls Select,   *)
(* Where, Or, Page, Raw in any order and ends a statement with First, All, *)
(* Update, Delete, Create, Exec or Fetch, on one Model object after        *)
(* another.  Bind values live on the heap and are freed by reset().        *)
(*                                                                         *)
(* Of a statement only what decides its fate is kept: whether its text is  *)
(* valid SQL, the values its placeholders stand for, and the values bound  *)
(* to them.  A statement that cannot be prepared leaves a null MYSQL_STMT, *)
(* which execute dereferences; so does one prepared on a connection that   *)
(* was given back.                                                         *)
(***************************************************************************)
EXTENDS Integers, Sequences, FiniteSets, SequencesExt

CONSTANTS
    Operations,     \* the member functions the client calls
    ArgLists,       \* the argument lists it calls them with: kinds of values
    FieldKinds,     \* the kinds of the class's columns, in order
    MaxRows,        \* bound: objects inserted by one Create
    MaxConstraints, \* bound: pending constraints
    Addresses       \* bound: heap addresses

\* The C++ types with a bindVal overload.
Kinds == {"int", "float", "double", "long_long", "string", "const_str", "timestamp"}

ASSUME ArgAssumption == ArgLists \subseteq Seq(Kinds)
ASSUME AddressAssumption == IsFiniteSet(Addresses) /\ Addresses \subseteq Nat \ {0}
ASSUME FieldAssumption == FieldKinds \in Seq(Kinds)

VARIABLES
    exists,       \* a Model object is alive
    open,         \* its connection has not been given back
    constraints,  \* the conj of the pending Constraint objects
    bindValues,   \* the bind values of those objects, one list after the other
    selected,     \* selectedColumns is not empty
    status,       \* INIT, QUERY or UPDATE
    rawSql,       \* the values rawSql's placeholders stand for
    heap,         \* allocated bind values
    executed,     \* the statement executed last
    alive         \* FALSE once the process has died

vars == <<exists, open, constraints, bindValues, selected, status, rawSql, heap,
          executed, alive>>

\* mixed: a statement built while Raw()'s constraint was pending, or Raw()'s own
\* when it no longer was.
NoStatement == [mixed |-> FALSE, valid |-> TRUE, params |-> << >>, bound |-> << >>]

-----------------------------------------------------------------------------
(* Bind values *)

\* bindVal: one allocation per argument, at whatever addresses are free.
Alloc(args) ==
    LET free == SetToSeq(Addresses \ heap)
    IN  [k \in DOMAIN args |-> [addr |-> free[k], kind |-> args[k]]]

CanAlloc(args) == Len(args) <= Cardinality(Addresses \ heap)

Addrs(values) == {values[k].addr : k \in DOMAIN values}

\* What bindParams has a branch for; any other value is skipped and does not
\* advance the parameter index.
Bindable == {"int", "float", "string", "const_str", "timestamp"}

\* The parameter index once the i-th value has been bound or skipped.
Index(values, i) == Cardinality({j \in 1..i : values[j].kind \in Bindable})

\* The value bound to parameter k, 0 if there is none.
BoundTo(values, k) ==
    LET at == {i \in DOMAIN values : values[i].kind \in Bindable /\ Index(values, i) = k}
    IN  IF at = {} THEN 0 ELSE values[CHOOSE i \in at : TRUE].addr

\* Faulty variant of BindParams: isValidParamIndex is not consulted.
BindParamsUnchecked(values, paramCount) ==
    [k \in 1..Index(values, Len(values)) |-> BoundTo(values, k)]

\* The value bound to each placeholder.  Indices beyond paramCount are ignored
\* by setInt and its siblings.
BindParams(values, paramCount) == [k \in 1..paramCount |-> BoundTo(values, k)]

\* reset() has no branch that deletes a long long.
Freed(values) == {v.addr : v \in {w \in Range(values) : w.kind # "long_long"}}

-----------------------------------------------------------------------------
(* The text of a statement *)

\* The constraint of Raw() has an empty condition; it is the first one.
RawPending == constraints # << >> /\ constraints[1] = ""

Conditions(cs) == {i \in DOMAIN cs : cs[i] \in {"AND", "OR"}}

\* SELECT ... WHERE (...): the conditions are joined from the second on; LIMIT
\* clauses are appended where they stand in the list; () is no condition.
QueryValid(cs, limit) ==
    LET limits == {i \in DOMAIN cs : cs[i] = "LIMIT"}
    IN  /\ DOMAIN cs = Conditions(cs) \cup limits
        /\ limits = {} \/ (limits = {Len(cs)} /\ Len(cs) > 1)
        /\ limit > 0 => limits = {}

\* UPDATE ... SET ... WHERE: joined from the second condition on.
UpdateValid(cs) == DOMAIN cs = Conditions(cs)

\* DELETE ... WHERE: joined from the third condition on only, so that a second
\* condition runs into the first, unless that is Raw()'s empty one.
DeleteValid(cs) ==
    \/ DOMAIN cs = Conditions(cs) /\ Len(cs) < 2
    \/ DOMAIN cs \ {1} = Conditions(cs) /\ Len(cs) > 1 /\ cs[1] = ""

Statement(valid, mixed, params, bound) ==
    [mixed |-> mixed, valid |-> valid, params |-> params, bound |-> bound]

\* The bind values of the conditions, without Raw()'s.
Written ==
    IF RawPending THEN SubSeq(bindValues, Len(rawSql) + 1, Len(bindValues)) ELSE bindValues

\* A statement over the pending constraints: its placeholders stand for the values
\* written, and all of the pending values are bound in order.
Built(valid, values, written) ==
    Statement(valid, RawPending, [k \in DOMAIN written |-> written[k].addr],
              BindParams(values, IF valid THEN Len(written) ELSE 0))

\* Prepare and execute: the process survives if there is a connection and the
\* text could be prepared.
Run(stmt) ==
    /\ executed' = stmt
    /\ alive' = (open /\ stmt.valid)

Reset(values) ==
    /\ heap' = heap \ Freed(values)
    /\ constraints' = << >>
    /\ bindValues' = << >>
    /\ selected' = FALSE

-----------------------------------------------------------------------------
Init ==
    /\ exists = FALSE
    /\ open = FALSE
    /\ constraints = << >>
    /\ bindValues = << >>
    /\ selected = FALSE
    /\ status = "INIT"
    /\ rawSql = << >>
    /\ heap = {}
    /\ executed = NoStatement
    /\ alive = TRUE

Can(op) == exists /\ op \in Operations

\* DB::model(): the constructor calls setAutocommit on the connection it got,
\* which is null when the pool is exhausted or the server refuses.
Construct ==
    /\ ~exists
    /\ exists' = TRUE
    /\ \/ open' = TRUE /\ alive' = TRUE
       \/ open' = FALSE /\ alive' = FALSE
    /\ UNCHANGED <<constraints, bindValues, selected, status, rawSql, heap, executed>>

\* ~Model: the connection goes back; bind values still pending are not freed.
Destruct ==
    /\ exists
    /\ exists' = FALSE
    /\ open' = FALSE
    /\ constraints' = << >> /\ bindValues' = << >> /\ selected' = FALSE
    /\ status' = "INIT" /\ rawSql' = << >>
    /\ executed' = NoStatement
    /\ UNCHANGED <<heap, alive>>

Select ==
    /\ Can("Select")
    /\ selected' = TRUE
    /\ UNCHANGED <<exists, open, constraints, bindValues, status, rawSql, heap, executed,
                   alive>>

Push(conj, args) ==
    /\ Len(constraints) < MaxConstraints
    /\ CanAlloc(args)
    /\ constraints' = Append(constraints, conj)
    /\ bindValues' = bindValues \o Alloc(args)
    /\ heap' = heap \cup Addrs(Alloc(args))
    /\ UNCHANGED <<exists, open, selected, status, rawSql, executed, alive>>

Where(args) == Can("Where") /\ Push("AND", args)

Or(args) == Can("Or") /\ Push("OR", args)

\* With a page number or size that is not positive nothing happens.
Page == Can("Page") /\ Push("LIMIT", << >>)

\* Raw(): the pending constraints are cleared without being freed.
Raw(args) ==
    /\ Can("Raw")
    /\ CanAlloc(args)
    /\ status' \in {"QUERY", "UPDATE"}
    /\ rawSql' = [k \in DOMAIN args |-> Alloc(args)[k].addr]
    /\ constraints' = <<"">>
    /\ bindValues' = Alloc(args)
    /\ heap' = heap \cup Addrs(Alloc(args))
    /\ UNCHANGED <<exists, open, selected, executed, alive>>

\* First(): without a row, or with an invalid result, it returns before reset().
First ==
    /\ Can("First")
    /\ Run(Built(QueryValid(constraints, 1), bindValues, Written))
    /\ \/ Reset(bindValues)
       \/ UNCHANGED <<heap, constraints, bindValues, selected>>
    /\ UNCHANGED <<exists, open, status, rawSql>>

\* All(): an invalid result returns before reset().
All ==
    /\ Can("All")
    /\ Run(Built(QueryValid(constraints, -1), bindValues, Written))
    /\ \/ Reset(bindValues)
       \/ UNCHANGED <<heap, constraints, bindValues, selected>>
    /\ UNCHANGED <<exists, open, status, rawSql>>

\* Faulty variant of Update: the new values are put behind the conditions'.
UpdateAppending(args) ==
    /\ Can("Update")
    /\ args # << >>
    /\ CanAlloc(args)
    /\ Run(Built(UpdateValid(constraints), bindValues \o Alloc(args), Alloc(args) \o Written))
    /\ Reset(Alloc(args) \o bindValues)
    /\ UNCHANGED <<exists, open, status, rawSql>>

\* Update(): the new values are put before the pending constraints.
Update(args) ==
    /\ Can("Update")
    /\ args # << >>
    /\ CanAlloc(args)
    /\ Run(Built(UpdateValid(constraints), Alloc(args) \o bindValues, Alloc(args) \o Written))
    /\ Reset(Alloc(args) \o bindValues)
    /\ UNCHANGED <<exists, open, status, rawSql>>

\* Faulty variant of Delete: reset() frees, but the vector is not swapped out.
DeleteKeepingConstraints ==
    /\ Can("Delete")
    /\ Run(Built(DeleteValid(constraints), bindValues, Written))
    /\ heap' = heap \ Freed(bindValues)
    /\ UNCHANGED <<exists, open, constraints, bindValues, selected, status, rawSql>>

Delete ==
    /\ Can("Delete")
    /\ Run(Built(DeleteValid(constraints), bindValues, Written))
    /\ Reset(bindValues)
    /\ UNCHANGED <<exists, open, status, rawSql>>

\* Create() with n objects: the parameters are the objects' fields, numbered
\* here; fields of other kinds keep their place but are not bound.
Creatable == {"int", "string", "timestamp"}

Inserted(n) ==
    LET width == Len(FieldKinds)
        params == [k \in 1..(n * width) |-> k]
        bound == [k \in 1..(n * width) |->
                    IF FieldKinds[((k - 1) % width) + 1] \in Creatable THEN k ELSE 0]
    IN  Statement(n > 0, FALSE, params, IF n > 0 THEN bound ELSE << >>)

Create(n) ==
    /\ Can("Create")
    /\ Run(Inserted(n))
    /\ Reset(bindValues)
    /\ UNCHANGED <<exists, open, status, rawSql>>

RawStatement ==
    Statement(TRUE, ~RawPending, rawSql, BindParams(bindValues, Len(rawSql)))

\* Exec(): the connection is given back, the constraints stay.
Exec ==
    /\ Can("Exec")
    /\ status = "UPDATE"
    /\ Run(RawStatement)
    /\ open' = FALSE
    /\ UNCHANGED <<exists, constraints, bindValues, selected, status, rawSql, heap>>

\* Fetch(): rawSql and status outlive the constraints.
Fetch ==
    /\ Can("Fetch")
    /\ status = "QUERY"
    /\ Run(RawStatement)
    /\ \/ Reset(bindValues)
       \/ UNCHANGED <<heap, constraints, bindValues, selected>>
    /\ UNCHANGED <<exists, open, status, rawSql>>

Halted == ~alive /\ UNCHANGED vars

Next ==
    \/ /\ alive
       /\ \/ Construct \/ Destruct \/ Select \/ Page
          \/ \E args \in ArgLists : Where(args) \/ Or(args) \/ Raw(args) \/ Update(args)
          \/ First \/ All \/ Delete \/ Exec \/ Fetch
          \/ \E n \in 0..MaxRows : Create(n)
    \/ Halted

Spec == Init /\ [][Next]_vars

-----------------------------------------------------------------------------
(* Properties *)

Conjunctions == {"AND", "OR", "LIMIT", ""}
BindVals == [addr : Addresses, kind : Kinds]
Statements == [mixed : BOOLEAN, valid : BOOLEAN, params : Seq(Nat), bound : Seq(Nat)]

TypeOK ==
    /\ exists \in BOOLEAN /\ open \in BOOLEAN /\ selected \in BOOLEAN /\ alive \in BOOLEAN
    /\ status \in {"INIT", "QUERY", "UPDATE"}
    /\ heap \subseteq Addresses
    /\ constraints \in Seq(Conjunctions)
    /\ bindValues \in Seq(BindVals)
    /\ rawSql \in Seq(Addresses)
    /\ executed \in Statements
    /\ Len(executed.bound) <= Len(executed.params)

\* Neither a use after free nor a double free: every pending bind value is
\* allocated, and no two share an allocation, whatever order the member
\* functions are called in and whichever of them return before reset().
BindValuesLive ==
    /\ \A k \in DOMAIN bindValues : bindValues[k].addr \in heap
    /\ \A k, l \in DOMAIN bindValues : bindValues[k].addr = bindValues[l].addr => k = l

\* Every placeholder is bound to the value the client passed for it: of a statement
\* the builder wrote (Where, Or, Page, First, All, Update, Delete, Create), also when
\* constraints of an earlier one are still pending, and of a Raw() text executed with
\* its own constraint.  The two are claimed apart: a Delete() that finds Raw()'s
\* constraint pending binds Raw()'s values to the placeholders of its conditions, and
\* a second Fetch() binds what Where() has left to those of Raw()'s text.
BoundAsWritten == executed.valid /\ ~executed.mixed => executed.bound = executed.params

-----------------------------------------------------------------------------
(* What the proofs rest on *)

IndInv == TypeOK /\ BindValuesLive

\* Only kinds bindParams and Create have a branch for: what BoundAsWritten needs
\* of the client's arguments and of the class's columns.
SupportedKinds ==
    /\ \A args \in ArgLists : \A k \in DOMAIN args : args[k] \in Bindable
    /\ \A k \in DOMAIN FieldKinds : FieldKinds[k] \in Creatable

\* Raw()'s values are the first ones while its constraint is pending.
RawFirst ==
    RawPending => /\ Len(rawSql) <= Len(bindValues)
                  /\ \A k \in DOMAIN rawSql : rawSql[k] = bindValues[k].addr

\* Under SupportedKinds, the inductive invariant of BoundAsWritten.
BoundInv ==
    /\ IndInv
    /\ \A k \in DOMAIN bindValues : bindValues[k].kind \in Bindable
    /\ RawFirst
    /\ BoundAsWritten

=============================================================================
