----------------------------- MODULE Migration -----------------------------
(***************************************************************************)
(* DB::AutoMigrate (db.h), Model<T>::AutoMigrate and MysqlMigrator         *)
(* (model.h), with the data file of DataLoader (dataloader.h) and the      *)
(* MySQL schema as the two stores that survive a process.                  *)
(*                                                                         *)
(* A program is a version of the source: one model per class.  A process   *)
(* runs AutoMigrate for the classes of each call in turn: it compares the  *)
(* model with the previous one (from the data file, else from the          *)
(* database), executes the resulting DDL ignoring errors, truncates the    *)
(* data file and appends one record per class.  It may die between any two *)
(* of these steps and is then started again, and any statement may fail.   *)
(*                                                                         *)
(* A column's data is named by the class and field the column was created  *)
(* for and by how many columns the table had for that field already, so    *)
(* that a renamed column can be told from a second, empty one.  Column     *)
(* order inside a table is not modelled; a model's fields are a set.  The  *)
(* type of a column stands for its SQL type and NOT NULL, its extra for    *)
(* the words of the tag that the parser does not know.  AUTO_INCREMENT is  *)
(* compared by nobody and left out.                                        *)
(***************************************************************************)
EXTENDS Naturals, Sequences, FiniteSets, Functions

CONSTANTS
    Programs,      \* the versions of the client program: class -> model
    Evolutions,    \* pairs of versions: the second may be deployed after the first
    FirstPrograms, \* versions that may be deployed on an empty database
    Calls,         \* the AutoMigrate calls a process makes: sequences of classes
    DefaultTable,  \* class -> cppToDb(class name)
    FieldOfColumn, \* column name -> dbToCpp(column name)
    ColumnsIn,     \* a list "a, b" given to add_index -> the columns in it
    Respelled,     \* a type, default or extra -> how information_schema spells it
    GeneratedName, \* the name MySQL gives an index without a name
    MaxFailed      \* bound: no statement fails once this many classes are in failed or wrong

VARIABLES
    schema,   \* the database: table -> [cols, idx]
    file,     \* the data file: class -> the record saved for it
    program,  \* the version deployed
    pc,       \* what the process is doing
    call,     \* the AutoMigrate call being executed
    pos,      \* the class of that call being migrated or saved
    cmds,     \* the migrator's commands not yet executed
    failed,   \* history: the classes of which a statement failed in this process
    wrong     \* history: the classes whose record was written after such a failure

vars == <<schema, file, program, pc, call, pos, cmds, failed, wrong>>

Classes == DOMAIN DefaultTable

\* No text: the name of an index of primary_key, the extra of most fields.
Empty == ""

\* The columns of an index.  add_index makes one string of its whole list;
\* add_unique, primary_key and the tags have a string for each column.
Indexed(i) == IF i.columns[1] \in DOMAIN ColumnsIn THEN ColumnsIn[i.columns[1]] ELSE i.columns

\* What C++ accepts as a class and MySQL as a table: no two members and no two
\* columns of one name, at least one of them, and indices over columns of the
\* table, each once.  A key is named PRIMARY when it comes from a tag and has no
\* name when it comes from primary_key.
WellFormed(m) ==
    /\ m.fields # {}
    /\ \A f, g \in m.fields : f.field = g.field => f = g
    /\ \A f, g \in m.fields : f.col = g.col => f = g
    /\ \A f \in m.fields : f.def = [type |-> f.def.type, extra |-> f.def.extra]
    /\ m.idx = [n \in DOMAIN m.idx |-> m.idx[n]]
    /\ \A n \in DOMAIN m.idx :
          /\ m.idx[n] \in [type : STRING, columns : Seq(STRING)]
          /\ IsInjective(m.idx[n].columns)
          /\ Indexed(m.idx[n]) \in Seq(STRING)
          /\ Range(Indexed(m.idx[n])) \subseteq {f.col : f \in m.fields}
          /\ m.idx[n].type = "pri" <=> n \in {"PRIMARY", Empty}
          /\ m.idx[n].type = "pri" => Indexed(m.idx[n]) = m.idx[n].columns

ASSUME ProgramAssumption ==
    /\ FirstPrograms \subseteq Programs
    /\ \A p \in Programs : \A c \in Classes : WellFormed(p[c])
ASSUME CallAssumption ==
    /\ Calls \in Seq(Seq(Classes) \ {<< >>}) /\ Calls # << >>
ASSUME ServerAssumption ==
    /\ "current_timestamp" \notin DOMAIN Respelled
    /\ GeneratedName # Empty /\ \A p \in Programs : \A c \in Classes : GeneratedName \notin DOMAIN p[c].idx

Class == Calls[call][pos]
Model == program[Class]

-----------------------------------------------------------------------------
(* Comparing metadata *)

\* FieldMeta::operator== compares the default values with isSame, which runs
\* off its end without a return when they differ and neither is now(): the
\* answer is then arbitrary.
DefaultsSame(a, b) ==
    \/ a = b
    \/ a = "now()" /\ b = "current_timestamp"
    \/ b = "now()" /\ a = "current_timestamp"

DefaultsUnknown(a, b) == a # b /\ a # "now()" /\ b # "now()"

\* The answers f == g can give.
FieldEqual(f, g) ==
    IF f.def # g.def THEN {FALSE}
    ELSE IF DefaultsUnknown(f.dflt, g.dflt) THEN BOOLEAN
    ELSE {DefaultsSame(f.dflt, g.dflt)}

\* Faulty variant of IndexEqual: one column too many is expected.
IndexEqualOffByOne(i, j) ==
    /\ i.type = j.type
    /\ Cardinality(Range(i.columns) \cup Range(j.columns)) > Len(i.columns)

\* Index::operator==: the columns are compared as sets.
IndexEqual(i, j) ==
    /\ i.type = j.type
    /\ LET s == Range(i.columns) \cup Range(j.columns)
       IN  Cardinality(s) = Len(i.columns) /\ Cardinality(s) = Len(j.columns)

-----------------------------------------------------------------------------
(* The previous version of a model *)

NoRecord == [table |-> "", fields |-> {}, idx |-> << >>]

\* How MySQL reports what a statement said: now() is current_timestamp, and a
\* quoted default comes without its quotes.
InDB(text) ==
    IF text = "now()" THEN "current_timestamp"
    ELSE IF text \in DOMAIN Respelled THEN Respelled[text]
    ELSE text

\* loadFromDB: the field names are guessed from the column names, the columns
\* are as information_schema spells them, and an index has a string per column.
FromDB(t) ==
    IF t \notin DOMAIN schema THEN NoRecord
    ELSE LET cols == schema[t].cols IN
         [table |-> "",
          fields |-> {[field |-> FieldOfColumn[x], col |-> x,
                       def |-> [type |-> InDB(cols[x].def.type), extra |-> InDB(cols[x].def.extra)],
                       dflt |-> InDB(cols[x].dflt)] : x \in DOMAIN cols},
          idx |-> schema[t].idx]

\* loadFromFile, else the table under its own name, else under its default name.
Previous(c) ==
    IF c \in DOMAIN file THEN file[c]
    ELSE IF program[c].table \in DOMAIN schema THEN FromDB(program[c].table)
    ELSE FromDB(DefaultTable[c])

-----------------------------------------------------------------------------
(* The commands *)

Cmd(action, target, prev) == [action |-> action, target |-> target, prev |-> prev]

\* Faulty variant of Priority: indices are added before they are dropped.
PriorityAddFirst(cmd) ==
    CASE cmd.action \in {"create_table", "change_tablename"} -> 1
      [] cmd.action \in {"add_column", "change_column"} -> 2
      [] cmd.action = "drop_index" -> 4
      [] cmd.action = "add_index" -> 3

Priority(cmd) ==
    CASE cmd.action \in {"create_table", "change_tablename"} -> 1
      [] cmd.action \in {"add_column", "change_column"} -> 2
      [] cmd.action = "drop_index" -> 3
      [] cmd.action = "add_index" -> 4

\* Create or rename the table.  The source of every rename is the default
\* name, also when the data file knows another previous name.
TableCmds(c) ==
    LET m == program[c]
        rename == {Cmd("change_tablename", m.table, DefaultTable[c])}
    IN  IF c \in DOMAIN file
        THEN IF file[c].table # m.table THEN rename ELSE {}
        ELSE IF m.table \in DOMAIN schema THEN {}
        ELSE IF DefaultTable[c] \in DOMAIN schema THEN rename
        ELSE {Cmd("create_table", "", "")}

\* Faulty variant of ByFieldName: no lookup by variable name.
ByFieldNameNever(f, prev) == {}

ByFieldName(f, prev) == {g \in prev.fields : g.field = f.field}

\* The possible sets of column commands: a field is looked up by column name,
\* then by variable name.  The fields whose comparison is arbitrary may or may
\* not be found changed.
ColumnCmds(m, prev) ==
    LET byCol(f) == {g \in prev.fields : g.col = f.col}
        added == {f \in m.fields : byCol(f) = {} /\ ByFieldName(f, prev) = {}}
        renamed == {f \in m.fields : byCol(f) = {} /\ ByFieldName(f, prev) # {}}
        found(answer) == {f \in m.fields : \E g \in byCol(f) : answer \in FieldEqual(f, g)}
    IN  {   {Cmd("add_column", f.col, "") : f \in added}
         \cup {Cmd("change_column", f.col, (CHOOSE g \in ByFieldName(f, prev) : TRUE).col) : f \in renamed}
         \cup {Cmd("change_column", f.col, f.col) : f \in changed} :
            changed \in {s \in SUBSET found(FALSE) : found(FALSE) \ found(TRUE) \subseteq s}}

IndexCmds(m, prev) ==
    LET changed == {n \in DOMAIN prev.idx \cap DOMAIN m.idx : ~IndexEqual(prev.idx[n], m.idx[n])}
    IN     {Cmd("drop_index", n, "") : n \in (DOMAIN prev.idx \ DOMAIN m.idx) \cup changed}
      \cup {Cmd("add_index", n, "") : n \in (DOMAIN m.idx \ DOMAIN prev.idx) \cup changed}

-----------------------------------------------------------------------------
(* MySQL.  A statement that fails changes nothing; executeUpdate ignores it. *)

\* A new column for field f of class c in a table with columns cols.
Column(c, f, cols) ==
    [def |-> f.def, dflt |-> f.dflt,
     data |-> <<c, f.field, Cardinality({x \in DOMAIN cols : cols[x].data[2] = f.field})>>]

FieldOf(m, x) == CHOOSE f \in m.fields : f.col = x

\* An index as the server keeps it, and those that CREATE TABLE makes: PRIMARY
\* from the field that isPk; the index of primary_key is a UNIQUE without a name.
Stored(i) == [type |-> i.type, columns |-> Indexed(i)]

StoredName(n) == IF n = Empty THEN GeneratedName ELSE n

StoredIndex(m, n) ==
    LET i == Stored(m.idx[CHOOSE k \in DOMAIN m.idx : StoredName(k) = n])
    IN  IF i.type = "pri" /\ n # "PRIMARY" THEN [i EXCEPT !.type = "uni"] ELSE i

StoredIndices(m) == [n \in {StoredName(k) : k \in DOMAIN m.idx} |-> StoredIndex(m, n)]

\* CREATE TABLE does not write extra.
TableOf(c) ==
    LET m == program[c] IN
    [cols |-> [x \in {f.col : f \in m.fields} |->
                  [Column(c, FieldOf(m, x), << >>) EXCEPT !.def.extra = Empty]],
     idx |-> StoredIndices(m)]

Put(t, table) == [x \in DOMAIN schema \cup {t} |-> IF x = t THEN table ELSE schema[x]]

\* ALTER TABLE ... CHANGE: the column keeps its data, and the indices over it
\* follow its name.
ChangeColumn(table, old, f) ==
    LET name(x) == IF x = old THEN f.col ELSE x
    IN  [cols |-> [x \in (DOMAIN table.cols \ {old}) \cup {f.col} |->
                      IF x = f.col
                      THEN [def |-> f.def, dflt |-> f.dflt, data |-> table.cols[old].data]
                      ELSE table.cols[x]],
         idx |-> [n \in DOMAIN table.idx |->
                      [table.idx[n] EXCEPT !.columns = [k \in DOMAIN @ |-> name(@[k])]]]]

\* The schema after one command of the migrator that names fit.  ADD PRIMARY KEY
\* is emitted without its opening parenthesis and is a syntax error.
Execute(cmd) ==
    LET m == Model
        t == m.table
        exists == t \in DOMAIN schema
    IN  CASE cmd.action = "create_table" ->
               IF exists THEN schema ELSE Put(t, TableOf(Class))
          [] cmd.action = "change_tablename" ->
               IF cmd.prev \in DOMAIN schema /\ cmd.target \notin DOMAIN schema
               THEN [x \in (DOMAIN schema \ {cmd.prev}) \cup {cmd.target} |->
                        IF x = cmd.target THEN schema[cmd.prev] ELSE schema[x]]
               ELSE schema
          [] cmd.action = "add_column" ->
               IF exists /\ cmd.target \notin DOMAIN schema[t].cols
               THEN [schema EXCEPT ![t].cols =
                        [x \in DOMAIN @ \cup {cmd.target} |->
                            IF x = cmd.target THEN Column(Class, FieldOf(m, x), @) ELSE @[x]]]
               ELSE schema
          [] cmd.action = "change_column" ->
               IF /\ exists /\ cmd.prev \in DOMAIN schema[t].cols
                  /\ cmd.target \notin DOMAIN schema[t].cols \ {cmd.prev}
               THEN [schema EXCEPT ![t] = ChangeColumn(@, cmd.prev, FieldOf(m, cmd.target))]
               ELSE schema
          [] cmd.action = "drop_index" ->
               IF exists /\ cmd.target \in DOMAIN schema[t].idx
               THEN [schema EXCEPT ![t].idx = [n \in DOMAIN @ \ {cmd.target} |-> @[n]]]
               ELSE schema
          [] cmd.action = "add_index" ->
               IF /\ exists /\ cmd.target \notin DOMAIN schema[t].idx
                  /\ m.idx[cmd.target].type # "pri"
                  /\ Range(Indexed(m.idx[cmd.target])) \subseteq DOMAIN schema[t].cols
               THEN [schema EXCEPT ![t].idx =
                        [n \in DOMAIN @ \cup {cmd.target} |->
                            IF n = cmd.target THEN Stored(m.idx[n]) ELSE @[n]]]
               ELSE schema

-----------------------------------------------------------------------------
Init ==
    /\ schema = << >>
    /\ file = << >>
    /\ program \in FirstPrograms
    /\ pc = "down"
    /\ call = 1
    /\ pos = 1
    /\ cmds = {}
    /\ failed = {}
    /\ wrong = {}

\* The process starts and makes its first AutoMigrate call.
Start ==
    /\ pc = "down"
    /\ pc' = "compare"
    /\ call' = 1 /\ pos' = 1 /\ cmds' = {}
    /\ UNCHANGED <<schema, file, program, failed, wrong>>

\* Model<T>::AutoMigrate up to migrator.migrate().
Compare ==
    /\ pc = "compare"
    /\ LET prev == Previous(Class) IN
       \/ /\ prev.fields = {}
          /\ cmds' = TableCmds(Class)
       \/ /\ prev.fields # {}
          /\ \E columnCmds \in ColumnCmds(Model, prev) :
                cmds' = TableCmds(Class) \cup columnCmds \cup IndexCmds(Model, prev)
    /\ pc' = "migrate"
    /\ UNCHANGED <<schema, file, program, call, pos, failed, wrong>>

\* One iteration of MysqlMigrator::migrate.  std::sort orders by priority only.
\* The statement may also fail for what is not in this model: the session is
\* lost, the rows do not fit a new type or a unique index, or extra, which ADD
\* and CHANGE write without a space before it, is not SQL.
Migrate ==
    /\ pc = "migrate"
    /\ \E cmd \in cmds :
          /\ \A other \in cmds : Priority(cmd) <= Priority(other)
          /\ cmds' = cmds \ {cmd}
          /\ \/ schema' = Execute(cmd) /\ UNCHANGED failed
             \/ /\ Cardinality(failed \cup wrong) < MaxFailed
                /\ failed' = failed \cup {Class} /\ UNCHANGED schema
    /\ UNCHANGED <<file, program, pc, call, pos, wrong>>

\* doMigrate is done with a class; after the last one comes the data file.
NextClass ==
    /\ pc = "migrate"
    /\ cmds = {}
    /\ \/ pos < Len(Calls[call]) /\ pos' = pos + 1 /\ pc' = "compare"
       \/ pos = Len(Calls[call]) /\ pos' = 1 /\ pc' = "truncate"
    /\ UNCHANGED <<schema, file, program, call, cmds, failed, wrong>>

\* Faulty variant of Truncate: the data file is opened without trunc.
TruncateMissing ==
    /\ pc = "truncate"
    /\ pc' = "save"
    /\ wrong' = wrong \cup failed
    /\ failed' = {}
    /\ UNCHANGED <<schema, file, program, call, pos, cmds>>

\* From here on no record tells the next process what a failed statement left
\* undone.
Truncate ==
    /\ pc = "truncate"
    /\ file' = << >>
    /\ pc' = "save"
    /\ wrong' = wrong \cup failed
    /\ failed' = {}
    /\ UNCHANGED <<schema, program, call, pos, cmds>>

\* Faulty variant of Save: the fields are moved out before they are written.
SaveMoved ==
    /\ pc = "save"
    /\ file' = [c \in DOMAIN file \cup {Class} |->
                   IF c \in DOMAIN file THEN file[c] ELSE [Model EXCEPT !.fields = {}]]
    /\ \/ pos < Len(Calls[call]) /\ pos' = pos + 1 /\ UNCHANGED <<pc, call>>
       \/ /\ pos = Len(Calls[call]) /\ pos' = 1
          /\ IF call < Len(Calls) THEN call' = call + 1 /\ pc' = "compare"
                                  ELSE call' = 1 /\ pc' = "up"
    /\ UNCHANGED <<schema, program, cmds, failed, wrong>>

\* saveModel appends the record of one class in a single flush (loadFromFile
\* stops after the first record of a class, so an older one would win); then
\* the next class, the next AutoMigrate call, or the program proper.
Save ==
    /\ pc = "save"
    /\ file' = [c \in DOMAIN file \cup {Class} |->
                   IF c \in DOMAIN file THEN file[c] ELSE Model]
    /\ \/ pos < Len(Calls[call]) /\ pos' = pos + 1 /\ UNCHANGED <<pc, call>>
       \/ /\ pos = Len(Calls[call]) /\ pos' = 1
          /\ IF call < Len(Calls) THEN call' = call + 1 /\ pc' = "compare"
                                  ELSE call' = 1 /\ pc' = "up"
    /\ UNCHANGED <<schema, program, cmds, failed, wrong>>

\* The process dies during the migration and loses its memory.
Crash ==
    /\ pc \notin {"down", "up"}
    /\ pc' = "down"
    /\ call' = 1 /\ pos' = 1 /\ cmds' = {} /\ failed' = {}
    /\ UNCHANGED <<schema, file, program, wrong>>

\* The program ends and is started again, as it is or in a newer version.
Deploy ==
    /\ pc = "up"
    /\ pc' = "down"
    /\ \/ UNCHANGED program
       \/ \E p \in Programs : <<program, p>> \in Evolutions /\ program' = p
    /\ UNCHANGED <<schema, file, call, pos, cmds, failed, wrong>>

Next == Start \/ Compare \/ Migrate \/ NextClass \/ Truncate \/ Save \/ Crash \/ Deploy

Spec == Init /\ [][Next]_vars

-----------------------------------------------------------------------------
(* Properties *)

TypeOK ==
    /\ program \in Programs
    /\ pc \in {"down", "compare", "migrate", "truncate", "save", "up"}
    /\ call \in 1..Len(Calls)
    /\ pos \in 1..Len(Calls[call])
    /\ \A c \in DOMAIN file : c \in Classes /\ \E p \in Programs : file[c] = p[c]
    /\ \A t \in DOMAIN schema : \A n \in DOMAIN schema[t].idx :
          Range(schema[t].idx[n].columns) \subseteq DOMAIN schema[t].cols
    /\ failed \subseteq Classes /\ wrong \subseteq Classes

\* The table of class c is as its model describes it: every field has its
\* column with its type, extra and default, every index its definition, and no
\* index is left over.
TableMatches(c) ==
    LET m == program[c] IN
    /\ m.table \in DOMAIN schema
    /\ \A f \in m.fields :
          /\ f.col \in DOMAIN schema[m.table].cols
          /\ schema[m.table].cols[f.col].def = f.def
          /\ DefaultsSame(schema[m.table].cols[f.col].dflt, f.dflt)
    /\ schema[m.table].idx = [n \in DOMAIN m.idx |-> Stored(m.idx[n])]

\* AutoMigrate brings every table to its model ("first compare the new and the
\* old metadata, migrate the changes"), also when earlier attempts died between
\* any two statements, or between truncating and rewriting the data file.  A
\* failed statement, whose error is ignored, is made up for by the next attempt
\* if the process died before it truncated the data file; else its class is
\* recorded as migrated and is wrong from then on, and no other class with it.
Migrated == pc = "up" => \A c \in Classes \ wrong : TableMatches(c)

\* A field keeps its data when its column or its table is renamed, also across
\* crashes: its column is the first one created for it, not an empty or foreign
\* one.  Classes recorded after a failed statement are excepted again.
FieldKeepsData ==
    pc = "up" =>
        \A c \in Classes \ wrong : \A f \in program[c].fields :
            LET t == program[c].table IN
            /\ t \in DOMAIN schema
            /\ f.col \in DOMAIN schema[t].cols
            /\ schema[t].cols[f.col].data = <<c, f.field, 0>>

\* After AutoMigrate the data file describes every class of the program, so
\* that the next version is compared with what was deployed.
RecordsCurrent ==
    pc = "up" => \A c \in Classes : c \in DOMAIN file /\ file[c] = program[c]

\* information_schema describes the table of model m as the model does.
ReadsBack(m) ==
    /\ \A f \in m.fields :
          /\ InDB(f.def.type) = f.def.type /\ InDB(f.def.extra) = f.def.extra
          /\ DefaultsSame(f.dflt, InDB(f.dflt))
    /\ \A n \in DOMAIN m.idx : Indexed(m.idx[n]) = m.idx[n].columns

\* When the tables match the program already, and its record agrees or is lost
\* and information_schema reads back as the model, AutoMigrate leaves the schema
\* alone: no index is dropped and built again, no column rewritten.  It does
\* rewrite what does not read back, once the record is lost: an index that
\* add_index gave several columns, and, if isSame so returns, a quoted default.
RerunLeavesSchemaAlone ==
    [][/\ \A c \in Classes : TableMatches(c)
       /\ \A c \in DOMAIN file : file[c] = program[c]
       /\ pc = "compare" /\ (Class \in DOMAIN file \/ ReadsBack(Model))
       => cmds' = {}]_vars

-----------------------------------------------------------------------------
(* The histories the migrator supports: what Migrated and FieldKeepsData need *)

\* Two indices of one kind over the same columns, in whatever order.
SameColumns(i, j) == i.type = j.type /\ Range(i.columns) = Range(j.columns)

\* From model r of class c to model m.  The table keeps its name or had the
\* default one; no field is removed, and no column name passes from one field
\* to another; defaults stay (isSame has no answer for others); an index does
\* not only reorder its columns, and a primary key stays as it is.
SupportedChange(c, r, m) ==
    /\ r.table \in {m.table, DefaultTable[c]}
    /\ \A g \in r.fields : \E f \in m.fields : f.field = g.field
    /\ \A f \in m.fields, g \in r.fields :
          /\ f.col = g.col => f.field = g.field
          /\ f.field = g.field => DefaultsSame(g.dflt, f.dflt)
    /\ \A n \in DOMAIN m.idx :
          /\ n \in DOMAIN r.idx /\ SameColumns(r.idx[n], m.idx[n]) => r.idx[n] = m.idx[n]
          /\ m.idx[n].type = "pri" => n \in DOMAIN r.idx /\ r.idx[n] = m.idx[n]

\* What CREATE TABLE can make of a model: it writes no extra.
Creatable(m) == \A f \in m.fields : f.def.extra = Empty

\* The names the table of a class has in some version.
TableNames(c) == {p[c].table : p \in Programs} \cup {DefaultTable[c]}

\* Every deployment is such a change, no class has a table name of another or
\* uses primary_key, and every AutoMigrate call names all of them.
SupportedHistory ==
    /\ \A p, q \in Programs : <<p, q>> \in Evolutions =>
          \A c \in Classes : SupportedChange(c, p[c], q[c])
    /\ \A p \in FirstPrograms : \A c \in Classes : Creatable(p[c])
    /\ \A p \in Programs : \A c \in Classes : Empty \notin DOMAIN p[c].idx
    /\ \A c, d \in Classes : c # d => TableNames(c) \cap TableNames(d) = {}
    /\ \A k \in DOMAIN Calls : Classes \subseteq Range(Calls[k])

-----------------------------------------------------------------------------
(* The inductive invariant behind TypeOK and RecordsCurrent *)

Actions == {"create_table", "change_tablename", "add_column", "change_column", "drop_index",
            "add_index"}

\* The classes of the call saved so far, and all of the last call.
Saved == {Calls[call][i] : i \in 1..(pos - 1)}
LastCall == Calls[Len(Calls)]

\* A table and its indices are what the statements of MySQL make of them.
TableInv(table) ==
    /\ table = [cols |-> table.cols, idx |-> table.idx]
    /\ table.idx = [n \in DOMAIN table.idx |-> table.idx[n]]
    /\ \A n \in DOMAIN table.idx :
          table.idx[n] = [type |-> table.idx[n].type, columns |-> table.idx[n].columns]

SchemaInv ==
    /\ schema = [t \in DOMAIN schema |-> schema[t]]
    /\ \A t \in DOMAIN schema : TableInv(schema[t])

\* The commands are about the model being migrated.
CmdsInv ==
    /\ pc # "migrate" => cmds = {}
    /\ \A cmd \in cmds :
          /\ cmd.action \in Actions
          /\ cmd.action = "add_index" => cmd.target \in DOMAIN Model.idx
          /\ cmd.action = "change_tablename" =>
                cmd.target = Model.table /\ cmd.prev = DefaultTable[Class]

\* While a call is being saved, and after the last one, the data file has the
\* records of that call's classes, as this program defines them, and no others.
FileInv ==
    /\ pc = "truncate" => pos = 1
    /\ pc = "save" => DOMAIN file = Saved
    /\ pc = "up" => DOMAIN file = Range(LastCall)
    /\ pc \in {"save", "up"} => \A c \in DOMAIN file : file[c] = program[c]
    /\ pc \in {"down", "save", "up"} => failed = {}

IndInv == TypeOK /\ SchemaInv /\ CmdsInv /\ FileInv

=============================================================================
