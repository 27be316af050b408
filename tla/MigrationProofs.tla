--------------------------- MODULE MigrationProofs ---------------------------
(***************************************************************************)
(* Proofs about Migration, for any programs, evolutions and AutoMigrate    *)
(* calls, with crashes between any two steps.                              *)
(***************************************************************************)
EXTENDS Migration, TLAPS, SequenceTheorems, FiniteSetTheorems

-----------------------------------------------------------------------------
(* Tables *)

GoodTable(table) ==
    /\ TableInv(table)
    /\ \A n \in DOMAIN table.idx : Range(table.idx[n].columns) \subseteq DOMAIN table.cols

GoodSchema(s) == s = [t \in DOMAIN s |-> s[t]] /\ \A t \in DOMAIN s : GoodTable(s[t])

LEMMA SchemaIsGood ==
  ASSUME IndInv
  PROVE  GoodSchema(schema)
  BY DEF IndInv, TypeOK, SchemaInv, GoodSchema, GoodTable

LEMMA ReplaceTable ==
  ASSUME NEW s, GoodSchema(s), NEW t \in DOMAIN s, NEW table, GoodTable(table)
  PROVE  GoodSchema([s EXCEPT ![t] = table])
<1> DEFINE r == [s EXCEPT ![t] = table]
<1>1. /\ DOMAIN r = DOMAIN s /\ r[t] = table /\ \A u \in DOMAIN s : u # t => r[u] = s[u]
      /\ r = [u \in DOMAIN r |-> r[u]]
  BY DEF GoodSchema
<1> HIDE DEF r
<1>2. GoodSchema(r)
  BY <1>1 DEF GoodSchema
<1> QED BY <1>2 DEF r

\* CREATE TABLE.
LEMMA PutTable ==
  ASSUME GoodSchema(schema), NEW t, NEW table, GoodTable(table)
  PROVE  GoodSchema(Put(t, table))
<1> DEFINE r == Put(t, table)
<1>1. /\ DOMAIN r = DOMAIN schema \cup {t} /\ r[t] = table
      /\ \A u \in DOMAIN schema : u # t => r[u] = schema[u]
      /\ r = [u \in DOMAIN r |-> r[u]]
  BY DEF Put
<1> HIDE DEF r
<1>2. GoodSchema(r)
  BY <1>1 DEF GoodSchema
<1> QED BY <1>2 DEF r

\* RENAME TABLE.
LEMMA RenameTable ==
  ASSUME NEW s, GoodSchema(s), NEW old \in DOMAIN s, NEW new
  PROVE  GoodSchema([x \in (DOMAIN s \ {old}) \cup {new} |-> IF x = new THEN s[old] ELSE s[x]])
<1> DEFINE r == [x \in (DOMAIN s \ {old}) \cup {new} |-> IF x = new THEN s[old] ELSE s[x]]
<1>1. /\ DOMAIN r = (DOMAIN s \ {old}) \cup {new} /\ r[new] = s[old]
      /\ \A u \in DOMAIN s \ {old} : u # new => r[u] = s[u]
      /\ r = [u \in DOMAIN r |-> r[u]]
  OBVIOUS
<1> HIDE DEF r
<1>2. GoodSchema(r)
  BY <1>1 DEF GoodSchema
<1> QED BY <1>2 DEF r

\* The table made for a model.
LEMMA NewTable ==
  ASSUME NEW c, WellFormed(program[c])
  PROVE  GoodTable(TableOf(c))
<1>1. PICK m, idx : m = program[c] /\ idx = StoredIndices(m)
  OBVIOUS
<1>2. /\ TableOf(c) = [cols |-> TableOf(c).cols, idx |-> TableOf(c).idx]
      /\ TableOf(c).idx = idx
      /\ DOMAIN TableOf(c).cols = {f.col : f \in m.fields}
  BY <1>1 DEF TableOf
<1>3. idx = [n \in DOMAIN idx |-> idx[n]]
  BY <1>1 DEF StoredIndices
<1>4. ASSUME NEW x \in DOMAIN idx
      PROVE  /\ idx[x] = [type |-> idx[x].type, columns |-> idx[x].columns]
             /\ Range(idx[x].columns) \subseteq {f.col : f \in m.fields}
  <2>1. DOMAIN idx = {StoredName(k) : k \in DOMAIN m.idx} /\ idx[x] = StoredIndex(m, x)
    BY <1>1, <1>4 DEF StoredIndices
  <2>2. PICK k \in DOMAIN m.idx : k = CHOOSE n \in DOMAIN m.idx : StoredName(n) = x
    BY <1>4, <2>1
  <2>3. PICK type, columns : type = m.idx[k].type /\ columns = Indexed(m.idx[k])
    OBVIOUS
  <2>4. Range(columns) \subseteq {f.col : f \in m.fields}
    BY <1>1, <2>3 DEF WellFormed
  <2>5. PICK i : i = Stored(m.idx[k]) /\ i = [type |-> type, columns |-> columns]
    BY <2>3 DEF Stored
  <2>6. idx[x] = IF i.type = "pri" /\ x # "PRIMARY" THEN [i EXCEPT !.type = "uni"] ELSE i
    BY <2>1, <2>2, <2>5 DEF StoredIndex
  <2>7. idx[x] = [type |-> idx[x].type, columns |-> idx[x].columns] /\ idx[x].columns = columns
    BY <2>5, <2>6
  <2> QED BY <2>4, <2>7
<1> QED BY <1>2, <1>3, <1>4 DEF GoodTable, TableInv

\* ALTER TABLE ADD: a column more.
LEMMA MoreColumns ==
  ASSUME NEW table, GoodTable(table), NEW cols, DOMAIN table.cols \subseteq DOMAIN cols
  PROVE  GoodTable([table EXCEPT !.cols = cols])
<1> DEFINE r == [table EXCEPT !.cols = cols]
<1>1. r = [cols |-> r.cols, idx |-> r.idx] /\ r.cols = cols /\ r.idx = table.idx
  BY DEF GoodTable, TableInv
<1> HIDE DEF r
<1>2. GoodTable(r)
  BY <1>1 DEF GoodTable, TableInv
<1> QED BY <1>2 DEF r

\* ALTER TABLE ... CHANGE: the indices follow the column's new name.
LEMMA ChangedColumn ==
  ASSUME NEW table, GoodTable(table), NEW old, NEW f
  PROVE  GoodTable(ChangeColumn(table, old, f))
<1> DEFINE r == ChangeColumn(table, old, f)
           name(x) == IF x = old THEN f.col ELSE x
<1>1. /\ r = [cols |-> r.cols, idx |-> r.idx]
      /\ DOMAIN r.cols = (DOMAIN table.cols \ {old}) \cup {f.col}
      /\ r.idx = [n \in DOMAIN table.idx |->
                     [table.idx[n] EXCEPT !.columns = [k \in DOMAIN @ |-> name(@[k])]]]
  BY DEF ChangeColumn
<1> HIDE DEF r
<1>2. DOMAIN r.idx = DOMAIN table.idx /\ r.idx = [n \in DOMAIN r.idx |-> r.idx[n]]
  BY <1>1
<1>3. ASSUME NEW n \in DOMAIN table.idx
      PROVE  /\ r.idx[n] = [type |-> r.idx[n].type, columns |-> r.idx[n].columns]
             /\ Range(r.idx[n].columns) \subseteq DOMAIN r.cols
  <2>1. PICK i : i = table.idx[n] /\ i = [type |-> i.type, columns |-> i.columns]
    BY <1>3 DEF GoodTable, TableInv
  <2> DEFINE new == [k \in DOMAIN i.columns |-> name(i.columns[k])]
  <2>2. r.idx[n] = [i EXCEPT !.columns = new]
    BY <1>1, <1>3, <2>1
  <2>3. r.idx[n] = [type |-> r.idx[n].type, columns |-> r.idx[n].columns] /\ r.idx[n].columns = new
    BY <2>1, <2>2
  <2>4. \A k \in DOMAIN i.columns : i.columns[k] \in DOMAIN table.cols
    BY <1>3, <2>1 DEF GoodTable, Range
  <2>5. \A k \in DOMAIN new : new[k] \in DOMAIN r.cols
    BY <1>1, <2>4
  <2> HIDE DEF new
  <2>6. Range(new) \subseteq DOMAIN r.cols
    BY <2>5 DEF Range
  <2> QED BY <2>3, <2>6
<1>4. GoodTable(r)
  BY <1>1, <1>2, <1>3 DEF GoodTable, TableInv
<1> QED BY <1>4 DEF r

\* ALTER TABLE DROP INDEX and ADD INDEX.
LEMMA DroppedIndex ==
  ASSUME NEW table, GoodTable(table), NEW x
  PROVE  GoodTable([table EXCEPT !.idx = [n \in DOMAIN @ \ {x} |-> @[n]]])
<1> DEFINE idx == [n \in DOMAIN table.idx \ {x} |-> table.idx[n]]
           r == [table EXCEPT !.idx = idx]
<1>1. r = [cols |-> r.cols, idx |-> r.idx] /\ r.cols = table.cols /\ r.idx = idx
  BY DEF GoodTable, TableInv
<1>2. /\ DOMAIN idx = DOMAIN table.idx \ {x} /\ idx = [n \in DOMAIN idx |-> idx[n]]
      /\ \A n \in DOMAIN idx : idx[n] = table.idx[n]
  OBVIOUS
<1>3. r = [table EXCEPT !.idx = [n \in DOMAIN @ \ {x} |-> @[n]]]
  OBVIOUS
<1> HIDE DEF r, idx
<1>4. GoodTable(r)
  BY <1>1, <1>2 DEF GoodTable, TableInv
<1> QED BY <1>3, <1>4

LEMMA AddedIndex ==
  ASSUME NEW table, GoodTable(table), NEW x, NEW i, i = [type |-> i.type, columns |-> i.columns],
         Range(i.columns) \subseteq DOMAIN table.cols
  PROVE  GoodTable([table EXCEPT !.idx = [n \in DOMAIN @ \cup {x} |-> IF n = x THEN i ELSE @[n]]])
<1> DEFINE idx == [n \in DOMAIN table.idx \cup {x} |-> IF n = x THEN i ELSE table.idx[n]]
           r == [table EXCEPT !.idx = idx]
<1>1. r = [cols |-> r.cols, idx |-> r.idx] /\ r.cols = table.cols /\ r.idx = idx
  BY DEF GoodTable, TableInv
<1>2. /\ DOMAIN idx = DOMAIN table.idx \cup {x} /\ idx = [n \in DOMAIN idx |-> idx[n]]
      /\ idx[x] = i /\ \A n \in DOMAIN table.idx : n # x => idx[n] = table.idx[n]
  OBVIOUS
<1>3. r = [table EXCEPT !.idx = [n \in DOMAIN @ \cup {x} |-> IF n = x THEN i ELSE @[n]]]
  OBVIOUS
<1> HIDE DEF r, idx
<1>4. GoodTable(r)
  BY <1>1, <1>2 DEF GoodTable, TableInv
<1> QED BY <1>3, <1>4

-----------------------------------------------------------------------------
(* The steps *)

\* The constants: there is a call, no call is empty.
LEMMA CallTypes ==
  /\ Len(Calls) \in Nat \ {0} /\ DOMAIN Calls = 1..Len(Calls)
  /\ \A k \in 1..Len(Calls) :
        /\ Calls[k] \in Seq(Classes) /\ Len(Calls[k]) \in Nat \ {0}
        /\ DOMAIN Calls[k] = 1..Len(Calls[k])
        /\ \A i \in 1..Len(Calls[k]) : Calls[k][i] \in Classes
<1>1. Len(Calls) \in Nat /\ DOMAIN Calls = 1..Len(Calls) /\ Calls \in [1..Len(Calls) -> Seq(Classes) \ {<< >>}]
  BY CallAssumption, LenProperties
<1>2. Len(Calls) # 0
  BY CallAssumption, EmptySeq
<1>3. ASSUME NEW k \in 1..Len(Calls)
      PROVE  /\ Calls[k] \in Seq(Classes) /\ Len(Calls[k]) \in Nat \ {0}
             /\ DOMAIN Calls[k] = 1..Len(Calls[k])
             /\ \A i \in 1..Len(Calls[k]) : Calls[k][i] \in Classes
  <2>1. Calls[k] \in Seq(Classes) /\ Calls[k] # << >>
    BY <1>1
  <2>2. Len(Calls[k]) \in Nat /\ DOMAIN Calls[k] = 1..Len(Calls[k]) /\ Calls[k] \in [1..Len(Calls[k]) -> Classes]
    BY <2>1, LenProperties
  <2>3. Len(Calls[k]) # 0
    BY <2>1, EmptySeq
  <2> QED BY <2>1, <2>2, <2>3
<1> QED BY <1>1, <1>2, <1>3

LEMMA Typing ==
  ASSUME IndInv
  PROVE  /\ call \in 1..Len(Calls) /\ pos \in 1..Len(Calls[call])
         /\ Class \in Classes /\ Class = Calls[call][pos]
         /\ program \in Programs /\ \A c \in Classes : WellFormed(program[c])
         /\ GoodSchema(schema)
<1>1. call \in 1..Len(Calls) /\ pos \in 1..Len(Calls[call]) /\ program \in Programs
  BY DEF IndInv, TypeOK
<1>2. Class \in Classes /\ Class = Calls[call][pos]
  BY <1>1, CallTypes DEF Class
<1> QED BY <1>1, <1>2, ProgramAssumption, SchemaIsGood

\* No command of the migrator leaves an index over a column that is gone.
LEMMA ExecuteGood ==
  ASSUME IndInv, NEW cmd \in cmds
  PROVE  GoodSchema(Execute(cmd))
<1> DEFINE t == Model.table
<1>1. /\ cmd.action \in Actions /\ (cmd.action = "add_index" => cmd.target \in DOMAIN Model.idx)
      /\ GoodSchema(schema) /\ WellFormed(Model) /\ WellFormed(program[Class])
  BY Typing DEF IndInv, CmdsInv, Model
<1>2. CASE cmd.action = "create_table"
  <2>1. Execute(cmd) \in {schema, Put(t, TableOf(Class))}
    BY <1>2 DEF Execute
  <2> HIDE DEF t
  <2>2. GoodSchema(Put(t, TableOf(Class)))
    BY <1>1, NewTable, PutTable
  <2> QED BY <1>1, <2>1, <2>2
<1>3. CASE cmd.action = "change_tablename"
  <2>1. \/ Execute(cmd) = schema
        \/ /\ cmd.prev \in DOMAIN schema
           /\ Execute(cmd) = [x \in (DOMAIN schema \ {cmd.prev}) \cup {cmd.target} |->
                                 IF x = cmd.target THEN schema[cmd.prev] ELSE schema[x]]
    BY <1>3 DEF Execute
  <2> QED BY <1>1, <2>1, RenameTable
<1>4. CASE cmd.action = "add_column"
  <2> DEFINE cols == [x \in DOMAIN schema[t].cols \cup {cmd.target} |->
                         IF x = cmd.target THEN Column(Class, FieldOf(Model, x), schema[t].cols)
                         ELSE schema[t].cols[x]]
             table == [schema[t] EXCEPT !.cols = cols]
  <2>1. \/ Execute(cmd) = schema
        \/ t \in DOMAIN schema /\ Execute(cmd) = [schema EXCEPT ![t] = table]
    BY <1>4 DEF Execute
  <2>2. DOMAIN schema[t].cols \subseteq DOMAIN cols
    OBVIOUS
  <2> HIDE DEF cols
  <2>3. t \in DOMAIN schema => GoodTable(table)
    BY <1>1, <2>2, MoreColumns DEF GoodSchema
  <2> HIDE DEF table, t
  <2> QED BY <1>1, <2>1, <2>3, ReplaceTable
<1>5. CASE cmd.action = "change_column"
  <2> DEFINE table == ChangeColumn(schema[t], cmd.prev, FieldOf(Model, cmd.target))
  <2>1. \/ Execute(cmd) = schema
        \/ t \in DOMAIN schema /\ Execute(cmd) = [schema EXCEPT ![t] = table]
    BY <1>5 DEF Execute
  <2>2. t \in DOMAIN schema => GoodTable(table)
    BY <1>1, ChangedColumn DEF GoodSchema
  <2> HIDE DEF table, t
  <2> QED BY <1>1, <2>1, <2>2, ReplaceTable
<1>6. CASE cmd.action = "drop_index"
  <2> DEFINE table == [schema[t] EXCEPT !.idx = [n \in DOMAIN @ \ {cmd.target} |-> @[n]]]
  <2>1. \/ Execute(cmd) = schema
        \/ t \in DOMAIN schema /\ Execute(cmd) = [schema EXCEPT ![t] = table]
    BY <1>6 DEF Execute
  <2>2. t \in DOMAIN schema => GoodTable(table)
    BY <1>1, DroppedIndex DEF GoodSchema
  <2> HIDE DEF table, t
  <2> QED BY <1>1, <2>1, <2>2, ReplaceTable
<1>7. CASE cmd.action = "add_index"
  <2> DEFINE i == Stored(Model.idx[cmd.target])
             table == [schema[t] EXCEPT !.idx =
                          [n \in DOMAIN @ \cup {cmd.target} |-> IF n = cmd.target THEN i ELSE @[n]]]
  <2>1. \/ Execute(cmd) = schema
        \/ /\ t \in DOMAIN schema /\ Range(i.columns) \subseteq DOMAIN schema[t].cols
           /\ Execute(cmd) = [schema EXCEPT ![t] = table]
    BY <1>7 DEF Execute, Stored
  <2>2. i = [type |-> i.type, columns |-> i.columns]
    BY DEF Stored
  <2> HIDE DEF i
  <2>3. t \in DOMAIN schema /\ Range(i.columns) \subseteq DOMAIN schema[t].cols => GoodTable(table)
    <3> SUFFICES ASSUME t \in DOMAIN schema, Range(i.columns) \subseteq DOMAIN schema[t].cols
                 PROVE  GoodTable(table)
      OBVIOUS
    <3>1. GoodTable(schema[t])
      BY <1>1 DEF GoodSchema
    <3> HIDE DEF t
    <3> QED BY <3>1, <2>2, AddedIndex
  <2> HIDE DEF table, t
  <2> QED BY <1>1, <2>1, <2>3, ReplaceTable
<1> QED BY <1>1, <1>2, <1>3, <1>4, <1>5, <1>6, <1>7 DEF Actions

LEMMA InitInd == Init => IndInv
<1> SUFFICES ASSUME Init PROVE IndInv
  OBVIOUS
<1>1. /\ schema = << >> /\ file = << >> /\ program \in Programs /\ pc = "down"
      /\ call = 1 /\ pos = 1 /\ cmds = {} /\ failed = {} /\ wrong = {}
  BY ProgramAssumption DEF Init
<1>2. DOMAIN schema = {} /\ DOMAIN file = {} /\ schema = [t \in DOMAIN schema |-> schema[t]]
  BY <1>1
<1>3. call \in 1..Len(Calls) /\ pos \in 1..Len(Calls[call])
  BY <1>1, CallTypes
<1>4. TypeOK
  BY <1>1, <1>2, <1>3 DEF TypeOK
<1> QED BY <1>1, <1>2, <1>4 DEF IndInv, SchemaInv, CmdsInv, FileInv

\* What a step that leaves the tables and the data file alone has to show.
LEMMA StoresKept ==
  ASSUME IndInv, UNCHANGED <<schema, file, wrong>>, failed' \in {failed, {}}, program' \in Programs,
         pc' \in {"down", "compare", "migrate", "truncate"},
         call' \in 1..Len(Calls), pos' \in 1..Len(Calls[call']), CmdsInv', pc' = "truncate" => pos' = 1,
         pc' = "down" => failed' = {}
  PROVE  IndInv'
<1>1. TypeOK'
  BY DEF IndInv, TypeOK
<1>2. SchemaInv'
  BY DEF IndInv, SchemaInv
<1>3. FileInv'
  BY DEF FileInv
<1> QED BY <1>1, <1>2, <1>3 DEF IndInv

\* Starting, crashing, deploying, and going on to the next class or to the data
\* file: no command is left.
LEMMA ControlInd ==
  ASSUME IndInv, Start \/ Crash \/ Deploy \/ NextClass
  PROVE  IndInv'
<1>1. CASE Start \/ Crash
  <2>1. /\ UNCHANGED <<schema, file, program, wrong>> /\ pc' \in {"down", "compare"}
        /\ call' = 1 /\ pos' = 1 /\ cmds' = {} /\ failed' = {}
    BY <1>1 DEF Start, Crash, IndInv, FileInv
  <2>2. call' \in 1..Len(Calls) /\ pos' \in 1..Len(Calls[call'])
    BY <2>1, CallTypes
  <2> QED BY <2>1, <2>2, Typing, StoresKept DEF CmdsInv
<1>2. CASE Deploy
  <2>1. /\ UNCHANGED <<schema, file, call, pos, cmds, wrong>> /\ pc = "up" /\ pc' = "down"
        /\ program' \in Programs /\ failed' = {}
    BY <1>2, Typing DEF Deploy, IndInv, FileInv
  <2>2. CmdsInv'
    BY <2>1 DEF IndInv, CmdsInv
  <2> QED BY <2>1, <2>2, Typing, StoresKept
<1>3. CASE NextClass
  <2>1. /\ UNCHANGED <<schema, file, program, call, failed, wrong>> /\ pc' \in {"compare", "truncate"}
        /\ cmds' = {}
        /\ \/ pos < Len(Calls[call]) /\ pos' = pos + 1 /\ pc' = "compare"
           \/ pos' = 1
    BY <1>3 DEF NextClass
  <2>2. call' \in 1..Len(Calls) /\ pos' \in 1..Len(Calls[call'])
    BY <2>1, Typing, CallTypes
  <2> QED BY <2>1, <2>2, Typing, StoresKept DEF CmdsInv
<1> QED BY <1>1, <1>2, <1>3

\* The commands found by a comparison are about the table and the indices of the
\* model.
AboutModel(cmd, m, c) ==
    /\ cmd.action \in Actions
    /\ cmd.action = "add_index" => cmd.target \in DOMAIN m.idx
    /\ cmd.action = "change_tablename" => cmd.target = m.table /\ cmd.prev = DefaultTable[c]

LEMMA CmdFields ==
  \A a, t, p : Cmd(a, t, p).action = a /\ Cmd(a, t, p).target = t /\ Cmd(a, t, p).prev = p
  BY DEF Cmd

LEMMA TableCommands ==
  ASSUME NEW c, NEW m, m = program[c], NEW cmd \in TableCmds(c)
  PROVE  AboutModel(cmd, m, c)
<1>1. \/ cmd = Cmd("change_tablename", m.table, DefaultTable[c])
      \/ cmd = Cmd("create_table", "", "")
  BY Zenon DEF TableCmds
<1>2. CASE cmd = Cmd("change_tablename", m.table, DefaultTable[c])
  <2>1. cmd.action = "change_tablename" /\ cmd.target = m.table /\ cmd.prev = DefaultTable[c]
    BY <1>2, CmdFields
  <2> QED BY <2>1 DEF AboutModel, Actions
<1>3. CASE cmd = Cmd("create_table", "", "")
  <2>1. cmd.action = "create_table"
    BY <1>3, CmdFields
  <2> QED BY <2>1 DEF AboutModel, Actions
<1> QED BY <1>1, <1>2, <1>3

LEMMA ColumnCommands ==
  ASSUME NEW c, NEW m, NEW prev, NEW columnCmds \in ColumnCmds(m, prev), NEW cmd \in columnCmds
  PROVE  AboutModel(cmd, m, c)
<1>1. PICK A, B, C :
         /\ columnCmds = {Cmd("add_column", f.col, "") : f \in A}
              \cup {Cmd("change_column", f.col, (CHOOSE g \in ByFieldName(f, prev) : TRUE).col) : f \in B}
              \cup {Cmd("change_column", f.col, f.col) : f \in C}
  BY Zenon DEF ColumnCmds
<1>2. \/ \E f \in A : cmd = Cmd("add_column", f.col, "")
      \/ \E f \in B : cmd = Cmd("change_column", f.col, (CHOOSE g \in ByFieldName(f, prev) : TRUE).col)
      \/ \E f \in C : cmd = Cmd("change_column", f.col, f.col)
  BY <1>1, Zenon
<1>3. cmd.action \in {"add_column", "change_column"}
  <2>1. \E a, t, p : cmd = Cmd(a, t, p) /\ a \in {"add_column", "change_column"}
    BY <1>2, Zenon
  <2> QED BY <2>1, CmdFields
<1> QED BY <1>3 DEF AboutModel, Actions

LEMMA IndexCommands ==
  ASSUME NEW c, NEW m, NEW prev, NEW cmd \in IndexCmds(m, prev)
  PROVE  AboutModel(cmd, m, c)
<1>1. \/ \E t : cmd = Cmd("drop_index", t, "")
      \/ \E t \in DOMAIN m.idx : cmd = Cmd("add_index", t, "")
  <2>1. PICK changed :
           /\ changed \subseteq DOMAIN m.idx
           /\ IndexCmds(m, prev) =
                     {Cmd("drop_index", n, "") : n \in (DOMAIN prev.idx \ DOMAIN m.idx) \cup changed}
                \cup {Cmd("add_index", n, "") : n \in (DOMAIN m.idx \ DOMAIN prev.idx) \cup changed}
    <3> DEFINE changed == {n \in DOMAIN prev.idx \cap DOMAIN m.idx : ~IndexEqual(prev.idx[n], m.idx[n])}
    <3>1. changed \subseteq DOMAIN m.idx
      OBVIOUS
    <3> QED BY <3>1, Zenon DEF IndexCmds
  <2>2. \/ \E n \in (DOMAIN prev.idx \ DOMAIN m.idx) \cup changed : cmd = Cmd("drop_index", n, "")
        \/ \E n \in (DOMAIN m.idx \ DOMAIN prev.idx) \cup changed : cmd = Cmd("add_index", n, "")
    BY <2>1, Zenon
  <2> QED BY <2>1, <2>2, Zenon
<1>2. CASE \E t : cmd = Cmd("drop_index", t, "")
  <2>1. PICK t : cmd = Cmd("drop_index", t, "")
    BY <1>2
  <2>2. cmd.action = "drop_index"
    BY <2>1, CmdFields
  <2> QED BY <2>2 DEF AboutModel, Actions
<1>3. CASE \E t \in DOMAIN m.idx : cmd = Cmd("add_index", t, "")
  <2>1. PICK t \in DOMAIN m.idx : cmd = Cmd("add_index", t, "")
    BY <1>3
  <2>2. cmd.action = "add_index" /\ cmd.target = t
    BY <2>1, CmdFields
  <2> QED BY <2>2 DEF AboutModel, Actions
<1> QED BY <1>1, <1>2, <1>3

LEMMA CompareInd ==
  ASSUME IndInv, Compare
  PROVE  IndInv'
<1>1. /\ pc = "compare" /\ pc' = "migrate"
      /\ UNCHANGED <<schema, file, program, call, pos, failed, wrong>>
  BY DEF Compare
<1>2. \A cmd \in cmds' : AboutModel(cmd, Model, Class)
  <2>1. CASE cmds' = TableCmds(Class)
    BY <2>1, TableCommands DEF Model
  <2>2. ASSUME NEW columnCmds \in ColumnCmds(Model, Previous(Class)),
               cmds' = TableCmds(Class) \cup columnCmds \cup IndexCmds(Model, Previous(Class))
        PROVE  \A cmd \in cmds' : AboutModel(cmd, Model, Class)
    <3>1. \A cmd \in TableCmds(Class) : AboutModel(cmd, Model, Class)
      BY TableCommands DEF Model
    <3> QED BY <2>2, <3>1, ColumnCommands, IndexCommands
  <2> QED BY <2>1, <2>2 DEF Compare
<1>3. Model' = Model /\ Class' = Class
  BY <1>1 DEF Model, Class
<1>4. CmdsInv'
  BY <1>1, <1>2, <1>3 DEF CmdsInv, AboutModel
<1> QED BY <1>1, <1>4, Typing, StoresKept

LEMMA MigrateInd ==
  ASSUME IndInv, Migrate
  PROVE  IndInv'
<1>1. PICK cmd \in cmds : schema' \in {Execute(cmd), schema} /\ cmds' = cmds \ {cmd}
  BY DEF Migrate
<1>2. /\ pc = "migrate" /\ UNCHANGED <<file, program, pc, call, pos, wrong>>
      /\ failed' \in {failed, failed \cup {Class}}
  BY DEF Migrate
<1>3. GoodSchema(schema')
  BY <1>1, ExecuteGood, SchemaIsGood
<1>4. TypeOK' /\ SchemaInv'
  BY <1>2, <1>3, Typing DEF IndInv, TypeOK, SchemaInv, GoodSchema, GoodTable
<1>5. CmdsInv' /\ FileInv'
  <2>1. Model' = Model /\ Class' = Class
    BY <1>2 DEF Model, Class
  <2> QED BY <1>1, <1>2, <2>1 DEF IndInv, CmdsInv, FileInv
<1> QED BY <1>4, <1>5 DEF IndInv

\* The data file is emptied before the first class is saved.
LEMMA TruncateInd ==
  ASSUME IndInv, Truncate
  PROVE  IndInv'
<1>1. /\ pc = "truncate" /\ pc' = "save" /\ file' = << >> /\ DOMAIN file' = {}
      /\ UNCHANGED <<schema, program, call, pos, cmds>> /\ pos = 1
      /\ wrong' = wrong \cup failed /\ failed' = {}
  BY DEF Truncate, IndInv, FileInv
<1>2. TypeOK'
  BY <1>1 DEF IndInv, TypeOK
<1>3. SchemaInv' /\ CmdsInv'
  BY <1>1 DEF IndInv, SchemaInv, CmdsInv, Model, Class
<1>4. Saved' = {}
  BY <1>1 DEF Saved
<1>5. FileInv'
  BY <1>1, <1>4 DEF FileInv
<1> QED BY <1>2, <1>3, <1>5 DEF IndInv

\* The classes of a call before position i, one more class saved, and all of
\* them at the end.
SavedBefore(k, i) == {Calls[k][j] : j \in 1..(i - 1)}

LEMMA SavedGrows ==
  ASSUME NEW k \in 1..Len(Calls), NEW i \in 1..Len(Calls[k])
  PROVE  /\ SavedBefore(k, i + 1) = SavedBefore(k, i) \cup {Calls[k][i]}
         /\ i = Len(Calls[k]) => SavedBefore(k, i + 1) = Range(Calls[k])
<1>1. Len(Calls[k]) \in Nat /\ DOMAIN Calls[k] = 1..Len(Calls[k])
  BY CallTypes
<1>2. 1..((i + 1) - 1) = (1..(i - 1)) \cup {i}
  BY <1>1
<1>3. SavedBefore(k, i + 1) = SavedBefore(k, i) \cup {Calls[k][i]}
  BY <1>2 DEF SavedBefore
<1>4. ASSUME i = Len(Calls[k])
      PROVE  SavedBefore(k, i + 1) = Range(Calls[k])
  <2>1. 1..((i + 1) - 1) = DOMAIN Calls[k]
    BY <1>1, <1>4
  <2> QED BY <2>1 DEF SavedBefore, Range
<1> QED BY <1>3, <1>4

\* A record more: the classes saved so far are those of the call, each as this
\* program defines it, and a class named twice is not saved twice.
LEMMA SaveInd ==
  ASSUME IndInv, Save
  PROVE  IndInv'
<1>1. /\ pc = "save" /\ UNCHANGED <<schema, program, cmds, wrong>> /\ failed' = {}
      /\ file' = [c \in DOMAIN file \cup {Class} |-> IF c \in DOMAIN file THEN file[c] ELSE Model]
  BY DEF Save, IndInv, FileInv
<1>2. /\ call \in 1..Len(Calls) /\ pos \in 1..Len(Calls[call]) /\ Class \in Classes
      /\ Class = Calls[call][pos] /\ program \in Programs
  BY Typing
<1>3. /\ DOMAIN file = SavedBefore(call, pos) /\ \A c \in DOMAIN file : file[c] = program[c]
      /\ \A c \in DOMAIN file : c \in Classes
  BY <1>1 DEF IndInv, TypeOK, FileInv, Saved, SavedBefore
<1>4. /\ DOMAIN file' = SavedBefore(call, pos + 1)
      /\ \A c \in DOMAIN file' : file'[c] = program[c] /\ c \in Classes
  <2>1. DOMAIN file' = DOMAIN file \cup {Class}
    BY <1>1
  <2>2. ASSUME NEW c \in DOMAIN file' PROVE file'[c] = program[c]
    <3>1. file'[c] = IF c \in DOMAIN file THEN file[c] ELSE Model
      BY <1>1, <2>1
    <3>2. c \notin DOMAIN file => c = Class
      BY <2>1
    <3> QED BY <1>3, <3>1, <3>2 DEF Model
  <2> QED BY <1>2, <1>3, <2>1, <2>2, SavedGrows
<1>5. /\ pc' \in {"save", "compare", "up"}
      /\ pc' = "save" => call' = call /\ pos' = pos + 1
      /\ pc' = "up" => call = Len(Calls) /\ pos = Len(Calls[call])
      /\ call' \in 1..Len(Calls) /\ pos' \in 1..Len(Calls[call'])
  <2>1. CASE pos < Len(Calls[call]) /\ pos' = pos + 1 /\ UNCHANGED <<pc, call>>
    BY <1>1, <1>2, <2>1, CallTypes
  <2>2. CASE pos = Len(Calls[call]) /\ pos' = 1 /\ call < Len(Calls) /\ call' = call + 1 /\ pc' = "compare"
    BY <1>2, <2>2, CallTypes
  <2>3. CASE pos = Len(Calls[call]) /\ pos' = 1 /\ ~(call < Len(Calls)) /\ call' = 1 /\ pc' = "up"
    <3>1. Len(Calls) \in Nat \ {0} /\ Len(Calls[1]) \in Nat \ {0}
      BY CallTypes
    <3>2. call = Len(Calls) /\ pos' \in 1..Len(Calls[call'])
      BY <1>2, <2>3, <3>1
    <3> QED BY <2>3, <3>1, <3>2
  <2> QED BY <2>1, <2>2, <2>3 DEF Save
<1>6. TypeOK'
  <2>1. \A c \in DOMAIN file' : c \in Classes /\ \E p \in Programs : file'[c] = p[c]
    BY <1>2, <1>4
  <2> QED BY <1>1, <1>2, <1>5, <2>1 DEF IndInv, TypeOK
<1>7. SchemaInv' /\ CmdsInv'
  <2>1. cmds' = {}
    BY <1>1 DEF IndInv, CmdsInv
  <2> QED BY <1>1, <2>1 DEF IndInv, SchemaInv, CmdsInv
<1>8. FileInv'
  <2>1. pc' = "save" => DOMAIN file' = Saved'
    BY <1>4, <1>5 DEF Saved, SavedBefore
  <2>2. pc' = "up" => DOMAIN file' = Range(LastCall)
    BY <1>2, <1>4, <1>5, SavedGrows DEF LastCall
  <2> QED BY <1>1, <1>4, <1>5, <2>1, <2>2 DEF FileInv
<1> QED BY <1>6, <1>7, <1>8 DEF IndInv

LEMMA NextInd == IndInv /\ [Next]_vars => IndInv'
<1> SUFFICES ASSUME IndInv, [Next]_vars PROVE IndInv'
  OBVIOUS
<1>1. CASE Next
  BY <1>1, ControlInd, CompareInd, MigrateInd, TruncateInd, SaveInd DEF Next
<1>2. CASE UNCHANGED vars
  BY <1>2 DEF vars, IndInv, TypeOK, SchemaInv, CmdsInv, FileInv, Saved, Model, Class
<1> QED BY <1>1, <1>2

-----------------------------------------------------------------------------
(* The theorems *)

\* The inductive invariant, for every set of programs and evolutions, every
\* order of AutoMigrate calls and a crash between any two steps.
THEOREM Inductive == Spec => []IndInv
<1> QED BY InitInd, NextInd, PTL DEF Spec

\* The stores keep their shape: a record in the data file is one that some
\* version of the program wrote for that class, and no sequence of ALTER
\* statements, interrupted or repeated, leaves an index over a column that is gone.
THEOREM TypeCorrect == Spec => []TypeOK
<1>1. IndInv => TypeOK
  BY DEF IndInv
<1> QED BY <1>1, Inductive, PTL

\* When the last AutoMigrate call names every class, the data file describes
\* the whole program once it is up (DB::AutoMigrate truncates the file at each
\* call, so that a call for fewer classes would lose the others).
THEOREM LastCallKeepsRecords ==
  ASSUME Classes \subseteq Range(LastCall)
  PROVE  Spec => []RecordsCurrent
<1>1. IndInv => RecordsCurrent
  BY DEF IndInv, FileInv, RecordsCurrent
<1> QED BY <1>1, Inductive, PTL

-----------------------------------------------------------------------------
(* Migrating again *)

\* The columns of an index, counted: it names a column once.
LEMMA ColumnsCounted ==
  ASSUME NEW s \in Seq(STRING), IsInjective(s)
  PROVE  IsFiniteSet(Range(s)) /\ Cardinality(Range(s)) = Len(s)
<1> DEFINE n == Len(s)
<1>1. n \in Nat /\ DOMAIN s = 1..n /\ s \in [1..n -> STRING]
  BY LenProperties
<1>2. s \in Bijection(1..n, Range(s))
  BY <1>1 DEF Bijection, Injection, Surjection, IsInjective, Range
<1> HIDE DEF n
<1>3. ExistsBijection(1..n, Range(s))
  BY <1>2 DEF ExistsBijection
<1>4. Cardinality(Range(s)) = n
  BY <1>1, <1>3, FS_CountingElements
<1>5. IsFiniteSet(Range(s))
  BY <1>1, <1>3, FS_NatBijection
<1> QED BY <1>4, <1>5 DEF n

\* Columns are compared as sets, which is sound because an index names a column
\* once: it then equals itself.
LEMMA IndexEqualsItself ==
  ASSUME NEW i, i.columns \in Seq(STRING), IsInjective(i.columns)
  PROVE  IndexEqual(i, i)
<1>1. Cardinality(Range(i.columns)) = Len(i.columns)
  BY ColumnsCounted
<1>2. Range(i.columns) \cup Range(i.columns) = Range(i.columns)
  OBVIOUS
<1> QED BY <1>1, <1>2 DEF IndexEqual

\* Indices that compare as equal are over the same columns.
LEMMA EqualHasSameColumns ==
  ASSUME NEW i, i.columns \in Seq(STRING), IsInjective(i.columns),
         NEW j, j.columns \in Seq(STRING), IsInjective(j.columns), IndexEqual(i, j)
  PROVE  SameColumns(i, j)
<1>1. PICK a, b : a = Range(i.columns) /\ b = Range(j.columns)
  OBVIOUS
<1>2. /\ IsFiniteSet(a) /\ Cardinality(a) = Len(i.columns)
      /\ IsFiniteSet(b) /\ Cardinality(b) = Len(j.columns)
  BY <1>1, ColumnsCounted
<1>3. i.type = j.type /\ Cardinality(a \cup b) = Cardinality(a) /\ Cardinality(a \cup b) = Cardinality(b)
  BY <1>1, <1>2, Zenon DEF IndexEqual
<1>4. IsFiniteSet(a \cup b)
  BY <1>2, FS_Union
<1>5. \A t \in SUBSET (a \cup b) : Cardinality(a \cup b) = Cardinality(t) => a \cup b = t
  BY <1>4, FS_Subset
<1>6. a \in SUBSET (a \cup b) /\ b \in SUBSET (a \cup b)
  OBVIOUS
<1>7. a = b
  BY <1>3, <1>5, <1>6
<1> QED BY <1>1, <1>3, <1>7 DEF SameColumns

LEMMA NoIndexCommands ==
  ASSUME NEW m, WellFormed(m), NEW prev, prev.idx = m.idx
  PROVE  IndexCmds(m, prev) = {}
<1>1. \A n \in DOMAIN m.idx : /\ m.idx[n] \in [type : STRING, columns : Seq(STRING)]
                              /\ IsInjective(m.idx[n].columns)
  BY DEF WellFormed
<1>2. ASSUME NEW n \in DOMAIN m.idx PROVE IndexEqual(m.idx[n], m.idx[n])
  <2>1. m.idx[n].columns \in Seq(STRING)
    BY <1>1
  <2> QED BY <1>1, <2>1, IndexEqualsItself
<1>3. {n \in DOMAIN prev.idx \cap DOMAIN m.idx : ~IndexEqual(prev.idx[n], m.idx[n])} = {}
  BY <1>2
<1>4. /\ (DOMAIN prev.idx \ DOMAIN m.idx) \cup {} = {}
      /\ (DOMAIN m.idx \ DOMAIN prev.idx) \cup {} = {}
  OBVIOUS
<1>5. IndexCmds(m, prev) = {Cmd("drop_index", n, "") : n \in {}} \cup {Cmd("add_index", n, "") : n \in {}}
  BY <1>3, <1>4, Zenon DEF IndexCmds
<1> QED BY <1>5

\* Every field has its column, and no comparison can find it changed: neither
\* the arbitrary answers of isSame nor the spelling of now() matter.
LEMMA NoColumnCommands ==
  ASSUME NEW m, NEW prev,
         \A f \in m.fields : \E g \in prev.fields : g.col = f.col,
         \A f \in m.fields, g \in prev.fields : g.col = f.col => FALSE \notin FieldEqual(f, g),
         NEW columnCmds \in ColumnCmds(m, prev)
  PROVE  columnCmds = {}
<1> DEFINE byCol(f) == {g \in prev.fields : g.col = f.col}
           added == {f \in m.fields : byCol(f) = {} /\ ByFieldName(f, prev) = {}}
           renamed == {f \in m.fields : byCol(f) = {} /\ ByFieldName(f, prev) # {}}
           found(answer) == {f \in m.fields : \E g \in byCol(f) : answer \in FieldEqual(f, g)}
<1>1. added = {} /\ renamed = {}
  OBVIOUS
<1>2. found(FALSE) = {}
  OBVIOUS
<1>3. PICK changed \in SUBSET found(FALSE) :
         columnCmds = {Cmd("add_column", f.col, "") : f \in added}
           \cup {Cmd("change_column", f.col, (CHOOSE g \in ByFieldName(f, prev) : TRUE).col) : f \in renamed}
           \cup {Cmd("change_column", f.col, f.col) : f \in changed}
  BY Zenon DEF ColumnCmds
<1>4. changed = {}
  BY <1>2, <1>3
<1> HIDE DEF added, renamed, found
<1> QED BY <1>1, <1>3, <1>4

\* The server has one spelling for defaults that mean the same.
LEMMA SameInDB ==
  \A a, b : DefaultsSame(a, b) => InDB(a) = InDB(b)
  BY ServerAssumption DEF DefaultsSame, InDB

\* A field against one of the same definition and an equal default.
LEMMA FieldUnchanged ==
  ASSUME NEW f, NEW g, f.def = g.def, DefaultsSame(f.dflt, g.dflt)
  PROVE  FALSE \notin FieldEqual(f, g)
<1>1. ~DefaultsUnknown(f.dflt, g.dflt)
  BY DEF DefaultsSame, DefaultsUnknown
<1>2. FieldEqual(f, g) = {DefaultsSame(f.dflt, g.dflt)}
  BY <1>1 DEF FieldEqual
<1> QED BY <1>2

\* An index that reads back is stored as it is declared.
LEMMA IndicesReadBack ==
  ASSUME NEW m, WellFormed(m), \A n \in DOMAIN m.idx : Indexed(m.idx[n]) = m.idx[n].columns
  PROVE  [n \in DOMAIN m.idx |-> Stored(m.idx[n])] = m.idx
<1>1. \A n \in DOMAIN m.idx : Stored(m.idx[n]) = m.idx[n]
  <2> SUFFICES ASSUME NEW n \in DOMAIN m.idx PROVE Stored(m.idx[n]) = m.idx[n]
    OBVIOUS
  <2>1. PICK i \in [type : STRING, columns : Seq(STRING)] : i = m.idx[n]
    BY DEF WellFormed
  <2>2. Stored(i) = [type |-> i.type, columns |-> i.columns]
    BY <2>1 DEF Stored
  <2> QED BY <2>1, <2>2
<1>2. m.idx = [n \in DOMAIN m.idx |-> m.idx[n]]
  BY DEF WellFormed
<1> QED BY <1>1, <1>2

\* What loadFromDB finds of a table.
Reported(cols, x) ==
    [field |-> FieldOfColumn[x], col |-> x,
     def |-> [type |-> InDB(cols[x].def.type), extra |-> InDB(cols[x].def.extra)],
     dflt |-> InDB(cols[x].dflt)]

LEMMA TableReported ==
  ASSUME NEW t \in DOMAIN schema, NEW cols, cols = schema[t].cols
  PROVE  /\ FromDB(t).fields = {Reported(cols, x) : x \in DOMAIN cols}
         /\ FromDB(t).idx = schema[t].idx
<1> DEFINE F == {Reported(cols, x) : x \in DOMAIN cols}
<1>1. FromDB(t) = [table |-> "", fields |-> F, idx |-> schema[t].idx]
  BY DEF FromDB, Reported
<1> HIDE DEF F
<1>2. PICK r, idx : r = FromDB(t) /\ idx = schema[t].idx
  OBVIOUS
<1>3. r = [table |-> "", fields |-> F, idx |-> idx]
  BY <1>1, <1>2
<1>4. r.fields = F /\ r.idx = idx
  BY <1>3
<1> QED BY <1>2, <1>4 DEF F

\* The previous model, from the data file or from information_schema, against
\* the model of a class whose table matches.
LEMMA NothingToDo ==
  ASSUME IndInv, TableMatches(Class), Class \in DOMAIN file => file[Class] = program[Class],
         Class \in DOMAIN file \/ ReadsBack(Model)
  PROVE  /\ TableCmds(Class) = {}
         /\ Previous(Class).idx = Model.idx
         /\ \A f \in Model.fields : \E g \in Previous(Class).fields : g.col = f.col
         /\ \A f \in Model.fields, g \in Previous(Class).fields :
               g.col = f.col => FALSE \notin FieldEqual(f, g)
<1>1. PICK m, t, cols : m = Model /\ t = m.table /\ cols = schema[t].cols
  OBVIOUS
<1>2. WellFormed(m) /\ m = program[Class]
  BY <1>1, Typing DEF Model
<1>3. /\ t \in DOMAIN schema /\ schema[t].idx = [n \in DOMAIN m.idx |-> Stored(m.idx[n])]
      /\ \A f \in m.fields : /\ f.col \in DOMAIN cols /\ cols[f.col].def = f.def
                             /\ DefaultsSame(cols[f.col].dflt, f.dflt)
  BY <1>1, <1>2 DEF TableMatches
<1>4. CASE Class \in DOMAIN file
  <2>1. Previous(Class) = m /\ file[Class].table = m.table
    BY <1>2, <1>4 DEF Previous
  <2>2. TableCmds(Class) = {}
    BY <1>2, <1>4, <2>1 DEF TableCmds
  <2>3. \A f, g \in m.fields : g.col = f.col => f = g
    BY <1>2 DEF WellFormed
  <2>4. \A f \in m.fields : FALSE \notin FieldEqual(f, f)
    <3>1. \A f : DefaultsSame(f.dflt, f.dflt)
      BY DEF DefaultsSame
    <3> QED BY <3>1, FieldUnchanged
  <2> QED BY <1>1, <2>1, <2>2, <2>3, <2>4
<1>5. CASE Class \notin DOMAIN file
  <2>1. TableCmds(Class) = {}
    BY <1>1, <1>2, <1>3, <1>5 DEF TableCmds
  <2>2. PICK prev : prev = Previous(Class) /\ prev = FromDB(t)
    BY <1>1, <1>2, <1>3, <1>5 DEF Previous
  <2>3. ReadsBack(m)
    BY <1>1, <1>5
  <2>4. prev.idx = m.idx /\ prev.fields = {Reported(cols, x) : x \in DOMAIN cols}
    <3>1. [n \in DOMAIN m.idx |-> Stored(m.idx[n])] = m.idx
      BY <1>2, <2>3, IndicesReadBack DEF ReadsBack
    <3>2. FromDB(t).fields = {Reported(cols, x) : x \in DOMAIN cols} /\ FromDB(t).idx = schema[t].idx
      BY <1>1, <1>3, TableReported
    <3> QED BY <1>3, <2>2, <3>1, <3>2
  <2>5. \A x : /\ Reported(cols, x).col = x /\ Reported(cols, x).dflt = InDB(cols[x].dflt)
               /\ Reported(cols, x).def
                     = [type |-> InDB(cols[x].def.type), extra |-> InDB(cols[x].def.extra)]
    BY DEF Reported
  <2>6. ASSUME NEW f \in m.fields
        PROVE  \E g \in prev.fields : g.col = f.col
    BY <1>3, <2>4, <2>5
  <2>7. ASSUME NEW f \in m.fields, NEW g \in prev.fields, g.col = f.col
        PROVE  FALSE \notin FieldEqual(f, g)
    <3>1. PICK x \in DOMAIN cols : g = Reported(cols, x)
      BY <2>4
    <3>2. x = f.col
      BY <2>5, <2>7, <3>1
    <3>3. g.dflt = InDB(cols[x].dflt) /\ g.dflt = InDB(f.dflt) /\ DefaultsSame(f.dflt, g.dflt)
      BY <1>3, <2>3, <2>5, <3>1, <3>2, SameInDB DEF ReadsBack
    <3>4. g.def = [type |-> InDB(f.def.type), extra |-> InDB(f.def.extra)]
      BY <1>3, <2>5, <3>1, <3>2
    <3>5. g.def = f.def
      <4>1. f.def = [type |-> f.def.type, extra |-> f.def.extra]
        BY <1>2 DEF WellFormed
      <4>2. InDB(f.def.type) = f.def.type /\ InDB(f.def.extra) = f.def.extra
        BY <2>3 DEF ReadsBack
      <4> QED BY <3>4, <4>1, <4>2
    <3> QED BY <3>3, <3>5, FieldUnchanged
  <2> QED BY <1>1, <2>1, <2>2, <2>4, <2>6, <2>7
<1> QED BY <1>4, <1>5

\* A second AutoMigrate over tables that match the program issues no DDL at all
\* when it reads the data file, and neither when that was lost and
\* information_schema reads back as the model (ReadsBack says which models do).
THEOREM RerunIssuesNothing == Spec => RerunLeavesSchemaAlone
<1> DEFINE calm == /\ \A c \in Classes : TableMatches(c)
                   /\ \A c \in DOMAIN file : file[c] = program[c]
                   /\ pc = "compare" /\ (Class \in DOMAIN file \/ ReadsBack(Model))
<1>1. ASSUME IndInv, Next, calm PROVE cmds' = {}
  <2>1. CASE Compare
    <3>1. TableMatches(Class) /\ WellFormed(Model)
      BY <1>1, Typing DEF Model
    <3>2. TableCmds(Class) = {} /\ IndexCmds(Model, Previous(Class)) = {}
      BY <1>1, <3>1, NothingToDo, NoIndexCommands
    <3>3. ASSUME NEW columnCmds \in ColumnCmds(Model, Previous(Class)) PROVE columnCmds = {}
      <4> HIDE DEF calm
      <4>1. /\ Class \in DOMAIN file => file[Class] = program[Class]
            /\ Class \in DOMAIN file \/ ReadsBack(Model)
        BY <1>1 DEF calm
      <4> QED BY <1>1, <3>1, <4>1, NothingToDo, NoColumnCommands
    <3> QED BY <2>1, <3>2, <3>3 DEF Compare
  <2>2. CASE Crash
    BY <2>2 DEF Crash
  <2> QED BY <1>1, <2>1, <2>2 DEF Next, Start, Migrate, NextClass, Truncate, Save, Deploy
<1>2. IndInv /\ [Next]_vars => [calm => cmds' = {}]_vars
  BY <1>1
<1> QED BY <1>2, Inductive, PTL DEF Spec, RerunLeavesSchemaAlone

=============================================================================
