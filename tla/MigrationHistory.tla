--------------------------- MODULE MigrationHistory ---------------------------
(***************************************************************************)
(* Proofs about Migration for supported histories: after any deployments,  *)
(* crashes and failed statements the tables are what the models say, and   *)
(* no field has lost its data, except of a class that was recorded as      *)
(* migrated after one of its statements had failed.                        *)
(***************************************************************************)
EXTENDS MigrationProofs

-----------------------------------------------------------------------------
(* Supported histories: the invariant *)

\* Without a record, the table is known to have the model's columns and key.
Unrecorded(m) ==
    [table |-> m.table, fields |-> m.fields,
     idx |-> [n \in {k \in DOMAIN m.idx : m.idx[k].type = "pri"} |-> m.idx[n]]]

\* What the table of class c was last known to be.
Base(c) == IF c \in DOMAIN file THEN file[c] ELSE Unrecorded(program[c])

\* The columns of a table of class c on its way from model r to model m: each was
\* made for a field of either; a field of both has its column under its old or its
\* new name; a column under a new name is as the new model says, or has its type
\* yet to change.
ColumnsMidway(c, r, m, cols) ==
    /\ \A x \in DOMAIN cols : \E h \in m.fields \cup r.fields :
          h.col = x /\ cols[x].data = <<c, h.field, 0>>
    /\ \A f \in m.fields, g \in r.fields : f.field = g.field =>
          /\ f.col \in DOMAIN cols \/ g.col \in DOMAIN cols
          /\ f.col # g.col => f.col \notin DOMAIN cols \/ g.col \notin DOMAIN cols
    /\ \A f \in m.fields : f.col \in DOMAIN cols =>
          /\ DefaultsSame(cols[f.col].dflt, f.dflt)
          /\ \/ cols[f.col].def = f.def
             \/ \E g \in r.fields : g.field = f.field /\ g.col = f.col /\ g.def = cols[f.col].def

\* Its indices: the ones that stay are there, and new ones are right if they are.
IndicesMidway(r, m, idx) ==
    /\ DOMAIN idx \subseteq DOMAIN r.idx \cup DOMAIN m.idx
    /\ \A n \in DOMAIN m.idx :
          /\ n \in DOMAIN r.idx /\ r.idx[n] = m.idx[n] => n \in DOMAIN idx /\ idx[n] = Stored(m.idx[n])
          /\ n \in DOMAIN idx /\ n \notin DOMAIN r.idx => idx[n] = Stored(m.idx[n])

Midway(c, r, m, table) == ColumnsMidway(c, r, m, table.cols) /\ IndicesMidway(r, m, table.idx)

\* The table is at its new name or still at the recorded one.
Place(c) == IF program[c].table \in DOMAIN schema THEN program[c].table ELSE Base(c).table

Table(c) == schema[Place(c)]

Absent(c) == TableNames(c) \cap DOMAIN schema = {}

\* The table of class c is what its model says, and nothing else.
Done(c) ==
    /\ program[c].table \in DOMAIN schema
    /\ Midway(c, program[c], program[c], schema[program[c].table])

\* The table of class c, the only one under its names, is between what is known
\* of it and its model; or there is none, and CREATE TABLE can make it.
Underway(c) ==
    /\ SupportedChange(c, Base(c), program[c]) /\ WellFormed(Base(c))
    /\ \A t \in DOMAIN schema : t \in TableNames(c) => t = Place(c)
    /\ \/ Place(c) \in DOMAIN schema /\ Midway(c, Base(c), program[c], Table(c))
       \/ c \notin DOMAIN file /\ Absent(c) /\ Creatable(program[c])

UnderwayInv == \A c \in Classes \ wrong : Underway(c)

\* The classes a call has finished (Saved: those before the current position).
\* A class that the call names again may be at work once more.
DoneInv ==
    /\ pc \in {"compare", "migrate"} =>
          \A c \in Classes \ (failed \cup wrong) : c \in Saved /\ c # Class => Done(c)
    /\ pc \in {"truncate", "save", "up"} => \A c \in Classes \ (failed \cup wrong) : Done(c)

\* Commands.
Create == Cmd("create_table", "", "")
Rename(c) == Cmd("change_tablename", program[c].table, DefaultTable[c])
Add(f) == Cmd("add_column", f.col, "")
Change(f, g) == Cmd("change_column", f.col, g.col)
DropIndex(n) == Cmd("drop_index", n, "")
AddIndex(n) == Cmd("add_index", n, "")

New(f, r) == \A g \in r.fields : g.field # f.field

Stays(n, r, m) == n \in DOMAIN r.idx /\ n \in DOMAIN m.idx /\ r.idx[n] = m.idx[n]

\* A command that a change from r to m may need.
Needed(c, r, m, cmd) ==
    \/ cmd = Rename(c)
    \/ \E f \in m.fields : New(f, r) /\ cmd = Add(f)
    \/ \E f \in m.fields, g \in r.fields : f.field = g.field /\ cmd = Change(f, g)
    \/ \E n : ~Stays(n, r, m) /\ cmd = DropIndex(n)
    \/ \E n \in DOMAIN m.idx : m.idx[n].type # "pri" /\ cmd = AddIndex(n)

\* A field that has its column.
Final(f, cols) ==
    f.col \in DOMAIN cols /\ cols[f.col].def = f.def /\ DefaultsSame(cols[f.col].dflt, f.dflt)

\* Whatever a table still lacks, a command is about to do.
ColumnsPending(r, m, cols, cs) ==
    \A f \in m.fields : \/ Final(f, cols)
                        \/ New(f, r) /\ Add(f) \in cs
                        \/ \E g \in r.fields : g.field = f.field /\ Change(f, g) \in cs

IndicesPending(m, idx, cs) ==
    /\ \A n \in DOMAIN idx : n \notin DOMAIN m.idx => DropIndex(n) \in cs
    /\ \A n \in DOMAIN m.idx :
          \/ AddIndex(n) \in cs /\ (n \in DOMAIN idx => DropIndex(n) \in cs)
          \/ n \in DOMAIN idx /\ idx[n] = Stored(m.idx[n]) /\ DropIndex(n) \notin cs

Left(r, m, table, cs) == ColumnsPending(r, m, table.cols, cs) /\ IndicesPending(m, table.idx, cs)

\* The commands of class c, some of which may have failed already.
Commands(c) ==
    \/ Place(c) \in DOMAIN schema /\ \A cmd \in cmds : Needed(c, Base(c), program[c], cmd)
    \/ c \notin DOMAIN file /\ Absent(c) /\ cmds \subseteq {Create}

\* They are enough.
Pending(c) ==
    \/ /\ program[c].table \in DOMAIN schema \/ Rename(c) \in cmds
       /\ Left(Base(c), program[c], Table(c), cmds)
    \/ Absent(c) /\ Create \in cmds

CommandsInv == pc = "migrate" => \A c \in Classes \ wrong : c = Class => Commands(c)

\* Once a statement of a class has failed, nothing is said of what is left to do.
PendingInv == pc = "migrate" => \A c \in Classes \ (failed \cup wrong) : c = Class => Pending(c)

HistInv == IndInv /\ UnderwayInv /\ DoneInv /\ CommandsInv /\ PendingInv

-----------------------------------------------------------------------------
(* Changes *)

\* A supported change between two models MySQL accepts.
Pair(c, r, m) == WellFormed(r) /\ WellFormed(m) /\ SupportedChange(c, r, m)

LEMMA DefaultsEquivalence ==
  /\ \A a : DefaultsSame(a, a)
  /\ \A a, b : DefaultsSame(a, b) => DefaultsSame(b, a)
  /\ \A a, b, d : DefaultsSame(a, b) /\ DefaultsSame(b, d) => DefaultsSame(a, d)
  BY DEF DefaultsSame

LEMMA FieldsDistinct ==
  ASSUME NEW m, WellFormed(m)
  PROVE  \A f, h \in m.fields : f.field = h.field \/ f.col = h.col => f = h
  BY Zenon DEF WellFormed

\* Fields and columns determine one another, in each model and across the change.
LEMMA PairFields ==
  ASSUME NEW c, NEW r, NEW m, Pair(c, r, m)
  PROVE  /\ \A f, h \in m.fields : f.field = h.field \/ f.col = h.col => f = h
         /\ \A f, h \in r.fields : f.field = h.field \/ f.col = h.col => f = h
         /\ \A g \in r.fields : \E f \in m.fields : f.field = g.field
         /\ \A f \in m.fields, g \in r.fields : f.col = g.col => f.field = g.field
         /\ \A f \in m.fields, g \in r.fields : f.field = g.field => DefaultsSame(g.dflt, f.dflt)
<1>1. WellFormed(r) /\ WellFormed(m)
  BY DEF Pair
<1>2. /\ \A f, h \in m.fields : f.field = h.field \/ f.col = h.col => f = h
      /\ \A f, h \in r.fields : f.field = h.field \/ f.col = h.col => f = h
  BY <1>1, FieldsDistinct, Zenon
<1> QED BY <1>2 DEF Pair, SupportedChange

LEMMA Unchanged ==
  ASSUME NEW c, NEW m, WellFormed(m)
  PROVE  Pair(c, m, m)
<1>1. \A f, g \in m.fields : /\ f.col = g.col => f.field = g.field
                             /\ f.field = g.field => DefaultsSame(g.dflt, f.dflt)
  BY FieldsDistinct, DefaultsEquivalence
<1> QED BY <1>1 DEF Pair, SupportedChange

\* After the deployment of m the table of r is midway.
LEMMA Deployed ==
  ASSUME NEW c, NEW r, NEW m, Pair(c, r, m), NEW table, Midway(c, r, r, table)
  PROVE  Midway(c, r, m, table)
<1>1. PICK cols, idx : cols = table.cols /\ idx = table.idx
  OBVIOUS
<1>2. ColumnsMidway(c, r, r, cols) /\ IndicesMidway(r, r, idx)
  BY <1>1 DEF Midway
<1>3. ColumnsMidway(c, r, m, cols)
  <2>1. \A x \in DOMAIN cols : \E h \in m.fields \cup r.fields :
           h.col = x /\ cols[x].data = <<c, h.field, 0>>
    BY <1>2 DEF ColumnsMidway
  <2>2. \A g \in r.fields : /\ g.col \in DOMAIN cols /\ cols[g.col].def = g.def
                            /\ DefaultsSame(cols[g.col].dflt, g.dflt)
    BY <1>2, PairFields DEF ColumnsMidway
  <2>3. \A x \in DOMAIN cols : \E g \in r.fields : g.col = x
    BY <1>2 DEF ColumnsMidway
  <2>4. \A f \in m.fields, g \in r.fields : f.col # g.col /\ f.field = g.field => f.col \notin DOMAIN cols
    BY <2>3, PairFields
  <2>5. ASSUME NEW f \in m.fields, f.col \in DOMAIN cols
        PROVE  /\ DefaultsSame(cols[f.col].dflt, f.dflt)
               /\ \E g \in r.fields : g.field = f.field /\ g.col = f.col /\ g.def = cols[f.col].def
    <3>1. PICK g \in r.fields : g.col = f.col
      BY <2>3, <2>5
    <3>2. g.field = f.field /\ DefaultsSame(g.dflt, f.dflt)
      BY <3>1, PairFields
    <3> QED BY <2>2, <3>1, <3>2, DefaultsEquivalence
  <2> QED BY <2>1, <2>2, <2>4, <2>5 DEF ColumnsMidway
<1>4. IndicesMidway(r, m, idx)
  BY <1>2 DEF IndicesMidway
<1> QED BY <1>1, <1>3, <1>4 DEF Midway

\* When every field has its column and every index is right, the change is done.
LEMMA Arrived ==
  ASSUME NEW c, NEW r, NEW m, Pair(c, r, m), NEW table, Midway(c, r, m, table),
         \A f \in m.fields : Final(f, table.cols),
         DOMAIN table.idx = DOMAIN m.idx, \A n \in DOMAIN m.idx : table.idx[n] = Stored(m.idx[n])
  PROVE  Midway(c, m, m, table)
<1>1. PICK cols, idx : cols = table.cols /\ idx = table.idx
  OBVIOUS
<1>2. ColumnsMidway(c, r, m, cols) /\ \A f \in m.fields : Final(f, cols)
  BY <1>1 DEF Midway
<1>3. ASSUME NEW x \in DOMAIN cols
      PROVE  \E h \in m.fields : h.col = x /\ cols[x].data = <<c, h.field, 0>>
  <2>1. PICK h \in m.fields \cup r.fields : h.col = x /\ cols[x].data = <<c, h.field, 0>>
    BY <1>2 DEF ColumnsMidway
  <2>2. CASE h \in r.fields
    <3>1. PICK f \in m.fields : f.field = h.field
      BY <2>2, PairFields
    <3>2. f.col = x
      BY <1>2, <1>3, <2>1, <2>2, <3>1 DEF ColumnsMidway, Final
    <3> QED BY <2>1, <3>1, <3>2
  <2> QED BY <2>1, <2>2
<1>4. \A f, g \in m.fields : f.field = g.field => f = g
  BY PairFields
<1>5. ColumnsMidway(c, m, m, cols)
  BY <1>2, <1>3, <1>4 DEF ColumnsMidway, Final
<1>6. IndicesMidway(m, m, idx)
  BY <1>1 DEF IndicesMidway
<1> QED BY <1>1, <1>5, <1>6 DEF Midway

\* What a finished table looks like.
LEMMA Finished ==
  ASSUME NEW c, NEW m, WellFormed(m), NEW table, TableInv(table), Midway(c, m, m, table)
  PROVE  /\ \A f \in m.fields : Final(f, table.cols) /\ table.cols[f.col].data = <<c, f.field, 0>>
         /\ table.idx = [n \in DOMAIN m.idx |-> Stored(m.idx[n])]
<1>1. PICK cols, idx : cols = table.cols /\ idx = table.idx
  OBVIOUS
<1>2. ColumnsMidway(c, m, m, cols) /\ IndicesMidway(m, m, idx)
  BY <1>1 DEF Midway
<1>3. \A f, g \in m.fields : f.field = g.field \/ f.col = g.col => f = g
  BY DEF WellFormed
<1>4. \A f \in m.fields : f.col \in DOMAIN cols
  BY <1>2 DEF ColumnsMidway
<1>5. \A f \in m.fields : cols[f.col].data = <<c, f.field, 0>>
  <2>1. \A f \in m.fields : \E h \in m.fields : h.col = f.col /\ cols[f.col].data = <<c, h.field, 0>>
    BY <1>2, <1>4 DEF ColumnsMidway
  <2> QED BY <1>3, <2>1
<1>6. \A f \in m.fields : Final(f, cols)
  BY <1>2, <1>3, <1>4 DEF ColumnsMidway, Final
<1>7. DOMAIN idx = DOMAIN m.idx /\ \A n \in DOMAIN m.idx : idx[n] = Stored(m.idx[n])
  BY <1>2 DEF IndicesMidway
<1>8. idx = [n \in DOMAIN idx |-> idx[n]]
  BY <1>1 DEF TableInv
<1>9. idx = [n \in DOMAIN m.idx |-> Stored(m.idx[n])]
  BY <1>7, <1>8
<1> QED BY <1>1, <1>5, <1>6, <1>9

\* A model without the indices that are not its key.
LEMMA UnrecordedParts ==
  ASSUME NEW m
  PROVE  /\ Unrecorded(m).table = m.table /\ Unrecorded(m).fields = m.fields
         /\ DOMAIN Unrecorded(m).idx = {k \in DOMAIN m.idx : m.idx[k].type = "pri"}
         /\ \A n \in DOMAIN Unrecorded(m).idx : Unrecorded(m).idx[n] = m.idx[n]
<1> DEFINE idx == [n \in {k \in DOMAIN m.idx : m.idx[k].type = "pri"} |-> m.idx[n]]
<1>1. /\ DOMAIN idx = {k \in DOMAIN m.idx : m.idx[k].type = "pri"}
      /\ \A n \in DOMAIN idx : idx[n] = m.idx[n]
  OBVIOUS
<1>2. Unrecorded(m) = [table |-> m.table, fields |-> m.fields, idx |-> idx]
  BY DEF Unrecorded
<1> HIDE DEF idx
<1>3. Unrecorded(m).table = m.table /\ Unrecorded(m).fields = m.fields /\ Unrecorded(m).idx = idx
  BY <1>2
<1> QED BY <1>1, <1>3

LEMMA UnrecordedPair ==
  ASSUME NEW c, NEW m, WellFormed(m)
  PROVE  Pair(c, Unrecorded(m), m)
<1>1. PICK r : r = Unrecorded(m)
  OBVIOUS
<1>2. /\ r.table = m.table /\ r.fields = m.fields
      /\ DOMAIN r.idx = {k \in DOMAIN m.idx : m.idx[k].type = "pri"}
      /\ \A n \in DOMAIN r.idx : r.idx[n] = m.idx[n]
  BY <1>1, UnrecordedParts
<1>3. r.idx = [n \in DOMAIN r.idx |-> r.idx[n]]
  BY <1>1 DEF Unrecorded
<1>4. SupportedChange(c, m, m)
  BY Unchanged DEF Pair
<1>5. SupportedChange(c, r, m)
  BY <1>2, <1>4 DEF SupportedChange
<1>6. WellFormed(r)
  <2>1. \A n \in DOMAIN r.idx : n \in DOMAIN m.idx /\ r.idx[n] = m.idx[n]
    BY <1>2
  <2>2. /\ r.fields # {}
        /\ \A f, g \in r.fields : f.field = g.field => f = g
        /\ \A f, g \in r.fields : f.col = g.col => f = g
        /\ \A f \in r.fields : f.def = [type |-> f.def.type, extra |-> f.def.extra]
    BY <1>2, Zenon DEF WellFormed
  <2>3. \A n \in DOMAIN m.idx :
          /\ m.idx[n] \in [type : STRING, columns : Seq(STRING)]
          /\ IsInjective(m.idx[n].columns)
          /\ Indexed(m.idx[n]) \in Seq(STRING)
          /\ Range(Indexed(m.idx[n])) \subseteq {f.col : f \in r.fields}
          /\ m.idx[n].type = "pri" <=> n \in {"PRIMARY", Empty}
          /\ m.idx[n].type = "pri" => Indexed(m.idx[n]) = m.idx[n].columns
    BY <1>2, Zenon DEF WellFormed
  <2> QED BY <1>3, <2>1, <2>2, <2>3, Zenon DEF WellFormed
<1> QED BY <1>1, <1>5, <1>6 DEF Pair

\* A finished table may lose its record.
LEMMA UnrecordedMidway ==
  ASSUME NEW c, NEW m, NEW table, Midway(c, m, m, table)
  PROVE  Midway(c, Unrecorded(m), m, table)
<1>1. PICK r, cols, idx : r = Unrecorded(m) /\ cols = table.cols /\ idx = table.idx
  OBVIOUS
<1>2. /\ r.fields = m.fields /\ DOMAIN r.idx \subseteq DOMAIN m.idx
      /\ \A n \in DOMAIN r.idx : r.idx[n] = m.idx[n]
  BY <1>1, UnrecordedParts
<1>3. ColumnsMidway(c, m, m, cols) /\ IndicesMidway(m, m, idx)
  BY <1>1 DEF Midway
<1>4. ColumnsMidway(c, r, m, cols)
  BY <1>2, <1>3 DEF ColumnsMidway
<1>5. IndicesMidway(r, m, idx)
  BY <1>2, <1>3 DEF IndicesMidway
<1> QED BY <1>1, <1>4, <1>5 DEF Midway

\* CREATE TABLE writes the columns and indices of the model, but no extra.
LEMMA Created ==
  ASSUME NEW c, WellFormed(program[c]), Creatable(program[c]), Empty \notin DOMAIN program[c].idx
  PROVE  Midway(c, program[c], program[c], TableOf(c))
<1>1. PICK m : m = program[c]
  OBVIOUS
<1>2. \A f, g \in m.fields : f.field = g.field \/ f.col = g.col => f = g
  BY <1>1 DEF WellFormed
<1>3. PICK cols, idx :
         /\ cols = [x \in {f.col : f \in m.fields} |->
                       [Column(c, FieldOf(m, x), << >>) EXCEPT !.def.extra = Empty]]
         /\ idx = StoredIndices(m)
  OBVIOUS
<1>4. TableOf(c) = [cols |-> cols, idx |-> idx]
  BY <1>1, <1>3 DEF TableOf
<1>5. ASSUME NEW f \in m.fields
      PROVE  /\ cols[f.col].def = f.def /\ cols[f.col].dflt = f.dflt
             /\ cols[f.col].data = <<c, f.field, 0>>
  <2>1. FieldOf(m, f.col) = f
    BY <1>2 DEF FieldOf
  <2>2. Cardinality({x \in DOMAIN << >> : << >>[x].data[2] = f.field}) = 0
    BY FS_EmptySet
  <2>3. PICK type, dflt, data :
           /\ f.def = [type |-> type, extra |-> Empty] /\ dflt = f.dflt /\ data = <<c, f.field, 0>>
    <3>1. f.def = [type |-> f.def.type, extra |-> f.def.extra] /\ f.def.extra = Empty
      BY <1>1 DEF WellFormed, Creatable
    <3> QED BY <3>1
  <2>4. Column(c, f, << >>) = [def |-> [type |-> type, extra |-> Empty], dflt |-> dflt, data |-> data]
    BY <2>2, <2>3 DEF Column
  <2>5. cols[f.col] = [Column(c, f, << >>) EXCEPT !.def.extra = Empty]
    BY <1>3, <2>1
  <2>6. PICK d : d = [type |-> type, extra |-> Empty]
    OBVIOUS
  <2>7. [d EXCEPT !.extra = Empty] = d
    BY <2>6
  <2>8. cols[f.col] = [def |-> d, dflt |-> dflt, data |-> data]
    BY <2>4, <2>5, <2>6, <2>7
  <2> QED BY <2>3, <2>6, <2>8
<1>6. DOMAIN cols = {f.col : f \in m.fields}
  BY <1>3
<1>7. ColumnsMidway(c, m, m, cols)
  BY <1>2, <1>5, <1>6, DefaultsEquivalence DEF ColumnsMidway
<1>8. DOMAIN idx = DOMAIN m.idx /\ \A n \in DOMAIN m.idx : idx[n] = Stored(m.idx[n])
  <2>1. \A n \in DOMAIN m.idx : StoredName(n) = n
    BY <1>1 DEF StoredName
  <2>2. {StoredName(k) : k \in DOMAIN m.idx} = DOMAIN m.idx
    BY <2>1
  <2>3. \A n \in DOMAIN m.idx : StoredIndex(m, n) = Stored(m.idx[n])
    <3> SUFFICES ASSUME NEW n \in DOMAIN m.idx PROVE StoredIndex(m, n) = Stored(m.idx[n])
      OBVIOUS
    <3>1. (CHOOSE k \in DOMAIN m.idx : StoredName(k) = n) = n
      BY <2>1
    <3>2. Stored(m.idx[n]).type = m.idx[n].type
      BY DEF Stored
    <3>3. m.idx[n].type = "pri" => n = "PRIMARY"
      BY <1>1 DEF WellFormed
    <3> QED BY <3>1, <3>2, <3>3 DEF StoredIndex
  <2> QED BY <1>3, <2>2, <2>3 DEF StoredIndices
<1>9. IndicesMidway(m, m, idx)
  BY <1>8 DEF IndicesMidway
<1>10. TableOf(c).cols = cols /\ TableOf(c).idx = idx
  BY <1>4
<1> QED BY <1>1, <1>7, <1>9, <1>10 DEF Midway

-----------------------------------------------------------------------------
(* What the commands do to a table *)

\* The conclusion of each: the columns stay midway, a field that had its column
\* keeps it, and the field the command is about has it.
ColumnsAdvance(c, r, m, cols, new, f) ==
    /\ ColumnsMidway(c, r, m, new)
    /\ Final(f, new)
    /\ \A h \in m.fields : Final(h, cols) => Final(h, new)

\* ADD COLUMN: the table has no data for the field yet.
LEMMA ColumnAdded ==
  ASSUME NEW c, NEW r, NEW m, Pair(c, r, m), NEW cols, ColumnsMidway(c, r, m, cols),
         NEW f \in m.fields, New(f, r), f.col \notin DOMAIN cols,
         NEW new, DOMAIN new = DOMAIN cols \cup {f.col},
         \A x \in DOMAIN cols : new[x] = cols[x], new[f.col] = Column(c, f, cols)
  PROVE  ColumnsAdvance(c, r, m, cols, new, f)
<1>1. \A x \in DOMAIN cols : cols[x].data[2] # f.field
  <2> SUFFICES ASSUME NEW x \in DOMAIN cols, cols[x].data[2] = f.field PROVE FALSE
    OBVIOUS
  <2>1. PICK h \in m.fields \cup r.fields : h.col = x /\ cols[x].data = <<c, h.field, 0>>
    BY DEF ColumnsMidway
  <2>2. h.field = f.field
    BY <2>1
  <2>3. CASE h \in m.fields
    BY <2>1, <2>2, <2>3, PairFields
  <2>4. CASE h \in r.fields
    BY <2>2, <2>4 DEF New
  <2> QED BY <2>3, <2>4
<1>2. {x \in DOMAIN cols : cols[x].data[2] = f.field} = {}
  BY <1>1
<1>3. Cardinality({x \in DOMAIN cols : cols[x].data[2] = f.field}) = 0
  BY <1>2, FS_EmptySet
<1>4. new[f.col] = [def |-> f.def, dflt |-> f.dflt, data |-> <<c, f.field, 0>>]
  BY <1>3 DEF Column
<1>5. /\ new[f.col].def = f.def /\ new[f.col].dflt = f.dflt
      /\ new[f.col].data = <<c, f.field, 0>>
  BY <1>4
<1>6. Final(f, new)
  BY <1>5, DefaultsEquivalence DEF Final
<1>7. \A h \in m.fields : Final(h, cols) => Final(h, new)
  BY DEF Final
<1>8. ColumnsMidway(c, r, m, new)
  <2>1. \A x \in DOMAIN new : \E h \in m.fields \cup r.fields :
           h.col = x /\ new[x].data = <<c, h.field, 0>>
    BY <1>5 DEF ColumnsMidway
  <2>2. \A h \in m.fields, g \in r.fields : h.field = g.field => h.col # f.col /\ g.col # f.col
    BY PairFields DEF New
  <2>3. \A h \in m.fields, g \in r.fields : h.field = g.field =>
           /\ h.col \in DOMAIN new \/ g.col \in DOMAIN new
           /\ h.col # g.col => h.col \notin DOMAIN new \/ g.col \notin DOMAIN new
    BY <2>2 DEF ColumnsMidway
  <2>4. \A h \in m.fields : h.col \in DOMAIN new =>
           /\ DefaultsSame(new[h.col].dflt, h.dflt)
           /\ \/ new[h.col].def = h.def
              \/ \E g \in r.fields : g.field = h.field /\ g.col = h.col /\ g.def = new[h.col].def
    <3> SUFFICES ASSUME NEW h \in m.fields, h.col \in DOMAIN new
                 PROVE  /\ DefaultsSame(new[h.col].dflt, h.dflt)
                        /\ \/ new[h.col].def = h.def
                           \/ \E g \in r.fields : /\ g.field = h.field /\ g.col = h.col
                                                  /\ g.def = new[h.col].def
      OBVIOUS
    <3>1. CASE h = f
      BY <1>5, <3>1, DefaultsEquivalence
    <3>2. CASE h # f
      <4>1. h.col \in DOMAIN cols /\ new[h.col] = cols[h.col]
        BY <3>2, PairFields
      <4> QED BY <4>1 DEF ColumnsMidway
    <3> QED BY <3>1, <3>2
  <2> QED BY <2>1, <2>3, <2>4 DEF ColumnsMidway
<1> QED BY <1>6, <1>7, <1>8 DEF ColumnsAdvance

\* ADD COLUMN of a column that is there, from an earlier attempt.
LEMMA ColumnAddedBefore ==
  ASSUME NEW c, NEW r, NEW m, NEW cols, ColumnsMidway(c, r, m, cols),
         NEW f \in m.fields, New(f, r), f.col \in DOMAIN cols
  PROVE  Final(f, cols)
  BY DEF ColumnsMidway, Final, New

\* CHANGE: the column gets its new name and type and keeps its data.
LEMMA ColumnChanged ==
  ASSUME NEW c, NEW r, NEW m, Pair(c, r, m), NEW cols, ColumnsMidway(c, r, m, cols),
         NEW f \in m.fields, NEW g \in r.fields, f.field = g.field,
         g.col \in DOMAIN cols, f.col \notin DOMAIN cols \ {g.col},
         NEW new, DOMAIN new = (DOMAIN cols \ {g.col}) \cup {f.col},
         new[f.col] = [def |-> f.def, dflt |-> f.dflt, data |-> cols[g.col].data],
         \A x \in DOMAIN new : x # f.col => new[x] = cols[x]
  PROVE  ColumnsAdvance(c, r, m, cols, new, f)
<1>1. new[f.col].def = f.def /\ new[f.col].dflt = f.dflt /\ new[f.col].data = cols[g.col].data
  OBVIOUS
<1>2. \A h \in m.fields : h # f => h.col # f.col /\ h.col # g.col
  BY PairFields
<1>3. \A h \in r.fields : h # g => h.col # f.col /\ h.col # g.col
  BY PairFields
<1>4. cols[g.col].data = <<c, f.field, 0>>
  <2>1. PICK h \in m.fields \cup r.fields : h.col = g.col /\ cols[g.col].data = <<c, h.field, 0>>
    BY DEF ColumnsMidway
  <2>2. h.field = g.field
    BY <2>1, PairFields
  <2> QED BY <2>1, <2>2
<1>5. \A h \in m.fields : h # f /\ h.col \in DOMAIN cols => h.col \in DOMAIN new /\ new[h.col] = cols[h.col]
  BY <1>2
<1>6. \A h \in m.fields : h # f /\ h.col \in DOMAIN new => h.col \in DOMAIN cols /\ new[h.col] = cols[h.col]
  BY <1>2
<1>7. Final(f, new)
  BY <1>1, DefaultsEquivalence DEF Final
<1>8. \A h \in m.fields : Final(h, cols) => Final(h, new)
  BY <1>5, <1>7 DEF Final
<1>9. \A x \in DOMAIN new : \E h \in m.fields \cup r.fields :
         h.col = x /\ new[x].data = <<c, h.field, 0>>
  <2> SUFFICES ASSUME NEW x \in DOMAIN new
               PROVE  \E h \in m.fields \cup r.fields : h.col = x /\ new[x].data = <<c, h.field, 0>>
    OBVIOUS
  <2>1. CASE x = f.col
    BY <1>1, <1>4, <2>1
  <2>2. CASE x # f.col
    <3>1. x \in DOMAIN cols /\ new[x] = cols[x]
      BY <2>2
    <3> QED BY <3>1 DEF ColumnsMidway
  <2> QED BY <2>1, <2>2
<1>10. ASSUME NEW h \in m.fields, NEW k \in r.fields, h.field = k.field
       PROVE  /\ h.col \in DOMAIN new \/ k.col \in DOMAIN new
              /\ h.col # k.col => h.col \notin DOMAIN new \/ k.col \notin DOMAIN new
  <2>1. CASE h = f
    <3>1. k = g
      BY <1>10, <2>1, PairFields
    <3> QED BY <2>1, <3>1
  <2>2. CASE h # f
    <3>1. k # g
      BY <1>10, <2>2, PairFields
    <3>2. /\ h.col # f.col /\ h.col # g.col /\ k.col # f.col /\ k.col # g.col
      BY <1>2, <1>3, <2>2, <3>1
    <3>3. (h.col \in DOMAIN new <=> h.col \in DOMAIN cols) /\ (k.col \in DOMAIN new <=> k.col \in DOMAIN cols)
      BY <3>2
    <3> QED BY <1>10, <3>3 DEF ColumnsMidway
  <2> QED BY <2>1, <2>2
<1>11. ASSUME NEW h \in m.fields, h.col \in DOMAIN new
       PROVE  /\ DefaultsSame(new[h.col].dflt, h.dflt)
              /\ \/ new[h.col].def = h.def
                 \/ \E k \in r.fields : k.field = h.field /\ k.col = h.col /\ k.def = new[h.col].def
  <2>1. CASE h = f
    BY <1>1, <2>1, DefaultsEquivalence
  <2>2. CASE h # f
    BY <1>6, <1>11, <2>2 DEF ColumnsMidway
  <2> QED BY <2>1, <2>2
<1>12. ColumnsMidway(c, r, m, new)
  BY <1>9, <1>10, <1>11 DEF ColumnsMidway
<1> QED BY <1>7, <1>8, <1>12 DEF ColumnsAdvance

\* CHANGE of a column that was renamed by an earlier attempt fails.
LEMMA ColumnChangedBefore ==
  ASSUME NEW c, NEW r, NEW m, Pair(c, r, m), NEW cols, ColumnsMidway(c, r, m, cols),
         NEW f \in m.fields, NEW g \in r.fields, f.field = g.field,
         g.col \notin DOMAIN cols \/ f.col \in DOMAIN cols \ {g.col}
  PROVE  Final(f, cols)
<1>1. f.col \in DOMAIN cols /\ f.col # g.col
  BY DEF ColumnsMidway
<1>2. \A k \in r.fields : k.field = f.field => k.col # f.col
  BY <1>1, PairFields
<1> QED BY <1>1, <1>2 DEF ColumnsMidway, Final

\* CHANGE leaves an index alone that is as the new model says: it is not over the
\* old name of a column.
LEMMA IndexFollows ==
  ASSUME NEW c, NEW r, NEW m, Pair(c, r, m),
         NEW f \in m.fields, NEW g \in r.fields, f.field = g.field,
         NEW table, NEW n \in DOMAIN table.idx, n \in DOMAIN m.idx, table.idx[n] = Stored(m.idx[n])
  PROVE  ChangeColumn(table, g.col, f).idx[n] = Stored(m.idx[n])
<1> DEFINE name(x) == IF x = g.col THEN f.col ELSE x
<1>1. PICK type, s :
         /\ Stored(m.idx[n]) = [type |-> type, columns |-> s]
         /\ s \in Seq(STRING) /\ Range(s) \subseteq {h.col : h \in m.fields}
  <2>1. /\ Indexed(m.idx[n]) \in Seq(STRING)
        /\ Range(Indexed(m.idx[n])) \subseteq {h.col : h \in m.fields}
    BY DEF Pair, WellFormed
  <2> QED BY <2>1, Zenon DEF Stored
<1>2. PICK i : i = [type |-> type, columns |-> s] /\ i = table.idx[n]
  BY <1>1
<1>3. ChangeColumn(table, g.col, f).idx[n]
         = [i EXCEPT !.columns = [k \in DOMAIN @ |-> name(@[k])]]
  BY <1>2 DEF ChangeColumn
<1>4. \A k \in DOMAIN s : \E h \in m.fields : h.col = s[k]
  BY <1>1 DEF Range
<1>5. \A h \in m.fields : h.col = g.col => f.col = g.col
  BY PairFields
<1>6. \A k \in DOMAIN s : name(s[k]) = s[k]
  BY <1>4, <1>5
<1>7. s = [k \in DOMAIN s |-> s[k]]
  BY <1>1
<1>8. i.columns = s /\ [k \in DOMAIN s |-> name(s[k])] = s
  BY <1>2, <1>6, <1>7
<1>9. [i EXCEPT !.columns = s] = i
  BY <1>2
<1> QED BY <1>1, <1>2, <1>3, <1>8, <1>9

-----------------------------------------------------------------------------
(* The commands a comparison finds *)

LEMMA CommandFields ==
  /\ \A c : /\ Rename(c).action = "change_tablename" /\ Rename(c).target = program[c].table
            /\ Rename(c).prev = DefaultTable[c]
  /\ \A f : Add(f).action = "add_column" /\ Add(f).target = f.col
  /\ \A f, g : /\ Change(f, g).action = "change_column" /\ Change(f, g).target = f.col
               /\ Change(f, g).prev = g.col
  /\ \A n : DropIndex(n).action = "drop_index" /\ DropIndex(n).target = n
  /\ \A n : AddIndex(n).action = "add_index" /\ AddIndex(n).target = n
  /\ Create.action = "create_table"
  BY DEF Rename, Add, Change, DropIndex, AddIndex, Create, Cmd

LEMMA TypesDecide ==
  ASSUME NEW f, NEW g, DefaultsSame(g.dflt, f.dflt)
  PROVE  /\ f.def = g.def => FieldEqual(f, g) = {TRUE}
         /\ f.def # g.def => FieldEqual(f, g) = {FALSE}
<1>1. DefaultsSame(f.dflt, g.dflt) /\ ~DefaultsUnknown(f.dflt, g.dflt)
  BY DEF DefaultsSame, DefaultsUnknown
<1> QED BY <1>1 DEF FieldEqual

\* Each field is added, changed, or as it was.
LEMMA ColumnsCompared ==
  ASSUME NEW c, NEW r, NEW m, Pair(c, r, m), NEW cs \in ColumnCmds(m, r)
  PROVE  /\ \A cmd \in cs :
               \/ \E f \in m.fields : New(f, r) /\ cmd = Add(f)
               \/ \E f \in m.fields, g \in r.fields : f.field = g.field /\ cmd = Change(f, g)
         /\ \A f \in m.fields : New(f, r) => Add(f) \in cs
         /\ \A f \in m.fields, g \in r.fields :
               f.field = g.field /\ (f.col # g.col \/ f.def # g.def) => Change(f, g) \in cs
<1> DEFINE byCol(f) == {g \in r.fields : g.col = f.col}
           added == {f \in m.fields : byCol(f) = {} /\ ByFieldName(f, r) = {}}
           renamed == {f \in m.fields : byCol(f) = {} /\ ByFieldName(f, r) # {}}
           found(answer) == {f \in m.fields : \E g \in byCol(f) : answer \in FieldEqual(f, g)}
           old(f) == CHOOSE g \in ByFieldName(f, r) : TRUE
<1>1. PICK changed \in SUBSET found(FALSE) :
         /\ found(FALSE) \ found(TRUE) \subseteq changed
         /\ cs = {Cmd("add_column", f.col, "") : f \in added}
           \cup {Cmd("change_column", f.col, old(f).col) : f \in renamed}
           \cup {Cmd("change_column", f.col, f.col) : f \in changed}
  BY Zenon DEF ColumnCmds
<1>2. \A f \in m.fields : f \in added <=> New(f, r)
  BY PairFields DEF ByFieldName, New
<1>3. \A f \in m.fields, g \in r.fields : f.field = g.field => ByFieldName(f, r) = {g}
  BY PairFields DEF ByFieldName
<1>4. \A f \in m.fields, g \in r.fields : f.field = g.field => old(f) = g
  BY <1>3
<1>5. \A f \in renamed : \E g \in r.fields : f.field = g.field
  BY DEF ByFieldName
<1>6. \A f \in m.fields, g \in r.fields : f.field = g.field /\ f.col # g.col => f \in renamed
  BY <1>3, PairFields
<1>7. ASSUME NEW f \in m.fields, NEW g \in r.fields, g.col = f.col
      PROVE  /\ f.field = g.field
             /\ FALSE \in FieldEqual(f, g) <=> f.def # g.def
             /\ TRUE \in FieldEqual(f, g) <=> f.def = g.def
  <2>1. f.field = g.field /\ DefaultsSame(g.dflt, f.dflt)
    BY <1>7, PairFields
  <2>2. CASE f.def = g.def
    <3>1. FieldEqual(f, g) = {TRUE}
      BY <2>1, <2>2, TypesDecide, Zenon
    <3> QED BY <2>1, <2>2, <3>1
  <2>3. CASE f.def # g.def
    <3>1. FieldEqual(f, g) = {FALSE}
      BY <2>1, <2>3, TypesDecide, Zenon
    <3> QED BY <2>1, <2>3, <3>1
  <2> QED BY <2>2, <2>3
<1>8. \A f \in changed : \E g \in r.fields : f.field = g.field /\ g.col = f.col
  BY <1>7
<1>9. \A f \in m.fields, g \in r.fields :
         f.field = g.field /\ f.col = g.col /\ f.def # g.def => f \in changed
  <2> SUFFICES ASSUME NEW f \in m.fields, NEW g \in r.fields, f.field = g.field, f.col = g.col,
                      f.def # g.def
               PROVE  f \in found(FALSE) /\ f \notin found(TRUE)
    BY <1>1
  <2>1. \A k \in byCol(f) : k = g
    BY PairFields
  <2> QED BY <1>7, <2>1
<1>10. changed \subseteq m.fields
  OBVIOUS
<1> HIDE DEF added, renamed, found, old
<1>11. /\ \A f : Cmd("add_column", f.col, "") = Add(f)
       /\ \A f, g : Cmd("change_column", f.col, g.col) = Change(f, g)
  BY DEF Add, Change
<1>12. ASSUME NEW cmd \in cs
       PROVE  \/ \E f \in m.fields : New(f, r) /\ cmd = Add(f)
              \/ \E f \in m.fields, g \in r.fields : f.field = g.field /\ cmd = Change(f, g)
  <2>1. CASE cmd \in {Cmd("add_column", f.col, "") : f \in added}
    <3>1. PICK f \in added : cmd = Add(f)
      BY <1>11, <2>1, Zenon
    <3>2. f \in m.fields
      BY DEF added
    <3> QED BY <1>2, <3>1, <3>2
  <2>2. CASE cmd \in {Cmd("change_column", f.col, old(f).col) : f \in renamed}
    <3>1. PICK f \in renamed : cmd = Change(f, old(f))
      BY <1>11, <2>2, Zenon
    <3>2. f \in m.fields
      BY DEF renamed
    <3> QED BY <1>4, <1>5, <3>1, <3>2
  <2>3. CASE cmd \in {Cmd("change_column", f.col, f.col) : f \in changed}
    <3>1. PICK f \in changed : cmd = Change(f, f)
      BY <1>11, <2>3, Zenon
    <3>2. PICK g \in r.fields : f.field = g.field /\ g.col = f.col
      BY <1>8
    <3>3. Change(f, f) = Change(f, g)
      BY <3>2, Zenon DEF Change
    <3> QED BY <1>10, <3>1, <3>2, <3>3
  <2> QED BY <1>1, <1>12, <2>1, <2>2, <2>3, Zenon
<1>13. ASSUME NEW f \in m.fields, New(f, r) PROVE Add(f) \in cs
  <2>1. Cmd("add_column", f.col, "") \in {Cmd("add_column", h.col, "") : h \in added}
    BY <1>2, <1>13, Zenon
  <2> QED BY <1>1, <1>11, <2>1, Zenon
<1>14. ASSUME NEW f \in m.fields, NEW g \in r.fields, f.field = g.field,
              f.col # g.col \/ f.def # g.def
       PROVE  Change(f, g) \in cs
  <2>1. CASE f.col # g.col
    <3>1. Cmd("change_column", f.col, old(f).col)
             \in {Cmd("change_column", h.col, old(h).col) : h \in renamed}
      BY <1>6, <1>14, <2>1, Zenon
    <3>2. Cmd("change_column", f.col, old(f).col) = Change(f, g)
      BY <1>4, <1>11, <1>14, Zenon
    <3> QED BY <1>1, <3>1, <3>2, Zenon
  <2>2. CASE f.col = g.col
    <3>1. Cmd("change_column", f.col, f.col) \in {Cmd("change_column", h.col, h.col) : h \in changed}
      BY <1>9, <1>14, <2>2, Zenon
    <3>2. Cmd("change_column", f.col, f.col) = Change(f, g)
      BY <2>2, Zenon DEF Change
    <3> QED BY <1>1, <3>1, <3>2, Zenon
  <2> QED BY <2>1, <2>2
<1> QED BY <1>12, <1>13, <1>14

\* Each index is dropped, added, both, or as it was; a primary key is as it was.
LEMMA IndicesCompared ==
  ASSUME NEW c, NEW r, NEW m, Pair(c, r, m), NEW cs, cs = IndexCmds(m, r)
  PROVE  /\ \A cmd \in cs :
               \/ \E n : ~Stays(n, r, m) /\ cmd = DropIndex(n)
               \/ \E n \in DOMAIN m.idx : m.idx[n].type # "pri" /\ cmd = AddIndex(n)
         /\ \A n \in DOMAIN r.idx : n \notin DOMAIN m.idx => DropIndex(n) \in cs
         /\ \A n \in DOMAIN m.idx :
               \/ n \notin DOMAIN r.idx /\ AddIndex(n) \in cs /\ DropIndex(n) \notin cs
               \/ n \in DOMAIN r.idx /\ r.idx[n] = m.idx[n] /\ DropIndex(n) \notin cs
               \/ n \in DOMAIN r.idx /\ AddIndex(n) \in cs /\ DropIndex(n) \in cs
<1> DEFINE changed == {n \in DOMAIN r.idx \cap DOMAIN m.idx : ~IndexEqual(r.idx[n], m.idx[n])}
           D == (DOMAIN r.idx \ DOMAIN m.idx) \cup changed
           A == (DOMAIN m.idx \ DOMAIN r.idx) \cup changed
<1>1. cs = {DropIndex(n) : n \in D} \cup {AddIndex(n) : n \in A}
  BY Zenon DEF IndexCmds, DropIndex, AddIndex
<1>2. /\ \A n \in DOMAIN m.idx : IndexEqual(m.idx[n], m.idx[n])
      /\ \A n \in DOMAIN m.idx : n \in DOMAIN r.idx /\ IndexEqual(r.idx[n], m.idx[n]) => r.idx[n] = m.idx[n]
  <2>1. /\ \A n \in DOMAIN m.idx : /\ m.idx[n] \in [type : STRING, columns : Seq(STRING)]
                                   /\ IsInjective(m.idx[n].columns)
        /\ \A n \in DOMAIN r.idx : /\ r.idx[n] \in [type : STRING, columns : Seq(STRING)]
                                   /\ IsInjective(r.idx[n].columns)
    BY DEF Pair, WellFormed
  <2>2. /\ \A n \in DOMAIN m.idx : m.idx[n].columns \in Seq(STRING)
        /\ \A n \in DOMAIN r.idx : r.idx[n].columns \in Seq(STRING)
    BY <2>1
  <2>3. \A n \in DOMAIN m.idx : n \in DOMAIN r.idx /\ SameColumns(r.idx[n], m.idx[n]) => r.idx[n] = m.idx[n]
    BY DEF Pair, SupportedChange
  <2>4. ASSUME NEW n \in DOMAIN m.idx, n \in DOMAIN r.idx, IndexEqual(r.idx[n], m.idx[n])
        PROVE  r.idx[n] = m.idx[n]
    <3>1. SameColumns(r.idx[n], m.idx[n])
      BY <2>1, <2>2, <2>4, EqualHasSameColumns, Zenon
    <3> QED BY <2>3, <2>4, <3>1, Zenon
  <2> QED BY <2>1, <2>2, <2>4, IndexEqualsItself
<1>3. \A n \in DOMAIN m.idx : m.idx[n].type = "pri" => n \notin A
  BY <1>2 DEF Pair, SupportedChange
<1>4. \A n \in DOMAIN m.idx : n \in D => n \in DOMAIN r.idx /\ r.idx[n] # m.idx[n]
  BY <1>2
<1>5. \A n \in DOMAIN m.idx : \/ n \notin DOMAIN r.idx /\ n \in A /\ n \notin D
                              \/ n \in DOMAIN r.idx /\ r.idx[n] = m.idx[n] /\ n \notin D
                              \/ n \in DOMAIN r.idx /\ n \in A /\ n \in D
  BY <1>2 DEF Pair, SupportedChange
<1>6. D \subseteq DOMAIN r.idx /\ A \subseteq DOMAIN m.idx /\ DOMAIN r.idx \ DOMAIN m.idx \subseteq D
  OBVIOUS
<1> HIDE DEF D, A
<1>7. \A n : (DropIndex(n) \in cs <=> n \in D) /\ (AddIndex(n) \in cs <=> n \in A)
  <2>1. \A n, k : DropIndex(n) = DropIndex(k) => n = k
    BY CommandFields
  <2>2. \A n, k : AddIndex(n) = AddIndex(k) => n = k
    BY CommandFields
  <2>3. \A n, k : DropIndex(n) # AddIndex(k)
    BY CommandFields
  <2> QED BY <1>1, <2>1, <2>2, <2>3, Zenon
<1>8. \A cmd \in cs : (\E n \in D : cmd = DropIndex(n)) \/ (\E n \in A : cmd = AddIndex(n))
  BY <1>1
<1>9. \A cmd \in cs :
         \/ \E n : ~Stays(n, r, m) /\ cmd = DropIndex(n)
         \/ \E n \in DOMAIN m.idx : m.idx[n].type # "pri" /\ cmd = AddIndex(n)
  <2>1. \A n \in D : ~Stays(n, r, m)
    BY <1>4 DEF Stays
  <2> QED BY <1>3, <1>6, <1>8, <2>1
<1> QED BY <1>5, <1>6, <1>7, <1>9

-----------------------------------------------------------------------------
(* What is still to do *)

\* A column command is done when its field is final.
LEMMA ColumnCommandDone ==
  ASSUME NEW c, NEW r, NEW m, Pair(c, r, m), NEW cols, NEW new, NEW cs, ColumnsPending(r, m, cols, cs),
         NEW f \in m.fields, Final(f, new), \A h \in m.fields : Final(h, cols) => Final(h, new),
         NEW cmd, cmd.target = f.col
  PROVE  ColumnsPending(r, m, new, cs \ {cmd})
<1>1. \A h \in m.fields : h.col = f.col => h = f
  BY PairFields
<1>2. \A h : Add(h) = cmd => h.col = f.col
  BY CommandFields
<1>3. \A h, g : Change(h, g) = cmd => h.col = f.col
  BY CommandFields
<1> QED BY <1>1, <1>2, <1>3, Zenon DEF ColumnsPending

LEMMA OtherColumnsPending ==
  ASSUME NEW r, NEW m, NEW cols, NEW cs, ColumnsPending(r, m, cols, cs),
         NEW cmd, cmd.action \notin {"add_column", "change_column"}
  PROVE  ColumnsPending(r, m, cols, cs \ {cmd})
<1>1. (\A h : Add(h) # cmd) /\ (\A h, g : Change(h, g) # cmd)
  BY CommandFields
<1> QED BY <1>1, Zenon DEF ColumnsPending

\* Indices that keep their names, and their definitions where these are final.
SameIndices(m, idx, new) ==
    /\ DOMAIN new = DOMAIN idx
    /\ \A n \in DOMAIN idx :
          n \in DOMAIN m.idx /\ idx[n] = Stored(m.idx[n]) => new[n] = Stored(m.idx[n])

LEMMA OtherIndicesPending ==
  ASSUME NEW r, NEW m, NEW idx, NEW new, SameIndices(m, idx, new), IndicesMidway(r, m, idx),
         NEW cs, NEW cmd, cmd.action \notin {"drop_index", "add_index"}
  PROVE  /\ IndicesMidway(r, m, new)
         /\ IndicesPending(m, idx, cs) => IndicesPending(m, new, cs \ {cmd})
<1>1. (\A n : DropIndex(n) # cmd) /\ (\A n : AddIndex(n) # cmd)
  BY CommandFields
<1>2. IndicesMidway(r, m, new)
  BY DEF SameIndices, IndicesMidway
<1>3. ASSUME IndicesPending(m, idx, cs) PROVE IndicesPending(m, new, cs \ {cmd})
  BY <1>1, <1>3 DEF SameIndices, IndicesPending
<1> QED BY <1>2, <1>3

LEMMA IndexCommandDropped ==
  ASSUME NEW r, NEW m, NEW idx, IndicesMidway(r, m, idx), NEW cs,
         NEW n, ~Stays(n, r, m), DropIndex(n) \in cs,
         NEW new, DOMAIN new = DOMAIN idx \ {n}, \A k \in DOMAIN new : new[k] = idx[k]
  PROVE  /\ IndicesMidway(r, m, new)
         /\ IndicesPending(m, idx, cs) => IndicesPending(m, new, cs \ {DropIndex(n)})
<1>1. (\A k : DropIndex(k) = DropIndex(n) => k = n) /\ (\A k : AddIndex(k) # DropIndex(n))
  BY CommandFields
<1>2. IndicesMidway(r, m, new)
  BY DEF IndicesMidway, Stays
<1>3. ASSUME IndicesPending(m, idx, cs) PROVE IndicesPending(m, new, cs \ {DropIndex(n)})
  BY <1>1, <1>3 DEF IndicesPending
<1> QED BY <1>2, <1>3

\* An index is added after all the drops; if it is there, it is right.
LEMMA IndexCommandAdded ==
  ASSUME NEW r, NEW m, NEW idx, IndicesMidway(r, m, idx), NEW cs,
         \A k : DropIndex(k) \notin cs, NEW n \in DOMAIN m.idx,
         NEW new, DOMAIN new = DOMAIN idx \cup {n}, \A k \in DOMAIN idx : new[k] = idx[k],
         n \notin DOMAIN idx => new[n] = Stored(m.idx[n])
  PROVE  /\ IndicesMidway(r, m, new)
         /\ IndicesPending(m, idx, cs) => IndicesPending(m, new, cs \ {AddIndex(n)})
<1>1. (\A k : AddIndex(k) = AddIndex(n) => k = n)
  BY CommandFields
<1>2. IndicesMidway(r, m, new)
  BY DEF IndicesMidway
<1>3. ASSUME IndicesPending(m, idx, cs) PROVE IndicesPending(m, new, cs \ {AddIndex(n)})
  BY <1>1, <1>3 DEF IndicesPending
<1> QED BY <1>2, <1>3

-----------------------------------------------------------------------------
(* Executing a command *)

\* The schema s is the present one with another table at t.
With(t, table, s) ==
    /\ DOMAIN s = DOMAIN schema /\ s[t] = table
    /\ \A u \in DOMAIN schema : u # t => s[u] = schema[u]

\* A well-formed table with other columns or other indices.
LEMMA Pieces ==
  ASSUME NEW table, TableInv(table), NEW cols, NEW idx
  PROVE  /\ [table EXCEPT !.cols = cols].cols = cols /\ [table EXCEPT !.cols = cols].idx = table.idx
         /\ [table EXCEPT !.idx = idx].idx = idx /\ [table EXCEPT !.idx = idx].cols = table.cols
  BY DEF TableInv

LEMMA TablesWellFormed ==
  ASSUME IndInv
  PROVE  \A t \in DOMAIN schema : TableInv(schema[t])
  BY DEF IndInv, SchemaInv

LEMMA FieldFound ==
  ASSUME NEW m, WellFormed(m), NEW f \in m.fields
  PROVE  FieldOf(m, f.col) = f
<1>1. \A h \in m.fields : h.col = f.col => h = f
  BY DEF WellFormed
<1> QED BY <1>1 DEF FieldOf

\* The table that the command being executed finds.
Found(c, m, t, old) == c = Class /\ m = Model /\ t = m.table /\ t \in DOMAIN schema /\ old = schema[t]

LEMMA AddExecuted ==
  ASSUME IndInv, NEW c, NEW m, NEW t, NEW old, Found(c, m, t, old), WellFormed(m), NEW f \in m.fields,
         NEW cmd, cmd.action = "add_column", cmd.target = f.col
  PROVE  \E table :
           /\ With(t, table, Execute(cmd)) /\ table.idx = old.idx
           /\ IF f.col \in DOMAIN old.cols
              THEN table.cols = old.cols
              ELSE /\ DOMAIN table.cols = DOMAIN old.cols \cup {f.col}
                   /\ \A x \in DOMAIN old.cols : table.cols[x] = old.cols[x]
                   /\ table.cols[f.col] = Column(c, f, old.cols)
<1> DEFINE cols == [x \in DOMAIN old.cols \cup {f.col} |->
                      IF x = f.col THEN Column(c, FieldOf(m, x), old.cols) ELSE old.cols[x]]
           table == [old EXCEPT !.cols = cols]
<1>1. CASE f.col \in DOMAIN old.cols
  <2>1. Execute(cmd) = schema
    BY <1>1 DEF Execute, Found
  <2>2. With(t, old, Execute(cmd))
    BY <2>1 DEF With, Found
  <2> HIDE DEF table, cols
  <2> QED BY <1>1, <2>2, Zenon
<1>2. CASE f.col \notin DOMAIN old.cols
  <2>1. Execute(cmd) = [schema EXCEPT ![t] = table]
    BY <1>2 DEF Execute, Found
  <2>2. /\ DOMAIN cols = DOMAIN old.cols \cup {f.col} /\ \A x \in DOMAIN old.cols : cols[x] = old.cols[x]
        /\ cols[f.col] = Column(c, f, old.cols)
    BY <1>2, FieldFound
  <2> HIDE DEF cols
  <2>3. table.cols = cols /\ table.idx = old.idx
    BY Pieces, TablesWellFormed DEF Found
  <2> HIDE DEF table
  <2>4. With(t, table, Execute(cmd))
    BY <2>1 DEF With, Found
  <2> QED BY <1>2, <2>2, <2>3, <2>4
<1> QED BY <1>1, <1>2

LEMMA ChangeExecuted ==
  ASSUME IndInv, NEW c, NEW m, NEW t, NEW old, Found(c, m, t, old), WellFormed(m), NEW f \in m.fields,
         NEW x, NEW cmd, cmd.action = "change_column", cmd.target = f.col, cmd.prev = x
  PROVE  \E table :
           /\ With(t, table, Execute(cmd))
           /\ IF x \in DOMAIN old.cols /\ f.col \notin DOMAIN old.cols \ {x}
              THEN table = ChangeColumn(old, x, f)
              ELSE table = old
<1> DEFINE guard == x \in DOMAIN old.cols /\ f.col \notin DOMAIN old.cols \ {x}
           table == ChangeColumn(old, x, f)
<1>1. CASE ~guard
  <2>1. Execute(cmd) = schema
    BY <1>1 DEF Execute, Found
  <2>2. With(t, old, Execute(cmd))
    BY <2>1 DEF With, Found
  <2> QED BY <1>1, <2>2, Zenon
<1>2. CASE guard
  <2>1. Execute(cmd) = [schema EXCEPT ![t] = ChangeColumn(old, x, FieldOf(m, f.col))]
    BY <1>2 DEF Execute, Found
  <2>2. Execute(cmd) = [schema EXCEPT ![t] = table]
    BY <2>1, FieldFound
  <2> HIDE DEF table
  <2>3. With(t, table, Execute(cmd))
    BY <2>2 DEF With, Found
  <2> QED BY <1>2, <2>3 DEF table
<1> QED BY <1>1, <1>2

LEMMA DropExecuted ==
  ASSUME IndInv, NEW c, NEW m, NEW t, NEW old, Found(c, m, t, old),
         NEW n, NEW cmd, cmd.action = "drop_index", cmd.target = n
  PROVE  \E table :
           /\ With(t, table, Execute(cmd)) /\ table.cols = old.cols
           /\ DOMAIN table.idx = DOMAIN old.idx \ {n}
           /\ \A k \in DOMAIN table.idx : table.idx[k] = old.idx[k]
<1> DEFINE idx == [k \in DOMAIN old.idx \ {n} |-> old.idx[k]]
           table == [old EXCEPT !.idx = idx]
<1>1. CASE n \notin DOMAIN old.idx
  <2>1. Execute(cmd) = schema
    BY <1>1 DEF Execute, Found
  <2>2. With(t, old, Execute(cmd))
    BY <2>1 DEF With, Found
  <2>3. DOMAIN old.idx = DOMAIN old.idx \ {n}
    BY <1>1
  <2> HIDE DEF table, idx
  <2> QED BY <2>2, <2>3, Zenon
<1>2. CASE n \in DOMAIN old.idx
  <2>1. Execute(cmd) = [schema EXCEPT ![t] = table]
    BY <1>2 DEF Execute, Found
  <2>2. DOMAIN idx = DOMAIN old.idx \ {n} /\ \A k \in DOMAIN idx : idx[k] = old.idx[k]
    OBVIOUS
  <2> HIDE DEF idx
  <2>3. table.idx = idx /\ table.cols = old.cols
    BY Pieces, TablesWellFormed DEF Found
  <2> HIDE DEF table
  <2>4. With(t, table, Execute(cmd))
    BY <2>1 DEF With, Found
  <2> QED BY <2>2, <2>3, <2>4
<1> QED BY <1>1, <1>2

LEMMA AddIndexExecuted ==
  ASSUME IndInv, NEW c, NEW m, NEW t, NEW old, Found(c, m, t, old),
         NEW n, n \in DOMAIN m.idx, m.idx[n].type # "pri",
         Range(Indexed(m.idx[n])) \subseteq DOMAIN old.cols,
         NEW cmd, cmd.action = "add_index", cmd.target = n
  PROVE  \E table :
           /\ With(t, table, Execute(cmd)) /\ table.cols = old.cols
           /\ DOMAIN table.idx = DOMAIN old.idx \cup {n}
           /\ \A k \in DOMAIN old.idx : table.idx[k] = old.idx[k]
           /\ n \notin DOMAIN old.idx => table.idx[n] = Stored(m.idx[n])
<1> DEFINE idx == [k \in DOMAIN old.idx \cup {n} |-> IF k = n THEN Stored(m.idx[k]) ELSE old.idx[k]]
           table == [old EXCEPT !.idx = idx]
<1>1. CASE n \in DOMAIN old.idx
  <2>1. Execute(cmd) = schema
    BY <1>1 DEF Execute, Found
  <2>2. DOMAIN old.idx \cup {n} = DOMAIN old.idx
    BY <1>1
  <2>3. With(t, old, Execute(cmd))
    BY <2>1 DEF With, Found
  <2> HIDE DEF table, idx
  <2> QED BY <1>1, <2>2, <2>3, Zenon
<1>2. CASE n \notin DOMAIN old.idx
  <2>1. Execute(cmd) = [schema EXCEPT ![t] = table]
    BY <1>2 DEF Execute, Found
  <2>2. /\ DOMAIN idx = DOMAIN old.idx \cup {n} /\ idx[n] = Stored(m.idx[n])
        /\ \A k \in DOMAIN old.idx : idx[k] = old.idx[k]
    BY <1>2
  <2> HIDE DEF idx
  <2>3. table.idx = idx /\ table.cols = old.cols
    BY Pieces, TablesWellFormed DEF Found
  <2> HIDE DEF table
  <2>4. With(t, table, Execute(cmd))
    BY <2>1 DEF With, Found
  <2> QED BY <2>2, <2>3, <2>4
<1> QED BY <1>1, <1>2

-----------------------------------------------------------------------------
(* The steps *)

LEMMA Setting ==
  ASSUME SupportedHistory, IndInv, UnderwayInv
  PROVE  /\ Class \in Classes /\ Class = Calls[call][pos] /\ Model = program[Class]
         /\ \A c \in Classes : WellFormed(program[c]) /\ Empty \notin DOMAIN program[c].idx
         /\ \A c \in Classes : program[c].table \in TableNames(c) /\ DefaultTable[c] \in TableNames(c)
         /\ \A c \in Classes \ wrong : Pair(c, Base(c), program[c])
         /\ \A c \in Classes \ wrong : Base(c).table \in {program[c].table, DefaultTable[c]}
         /\ \A c \in Classes \ wrong : Place(c) \in TableNames(c)
         /\ \A c, d \in Classes : c # d => TableNames(c) \cap TableNames(d) = {}
<1>1. /\ Class \in Classes /\ Class = Calls[call][pos] /\ Model = program[Class]
      /\ program \in Programs /\ \A c \in Classes : WellFormed(program[c])
  BY Typing DEF Model
<1>2. \A c \in Classes \ wrong : SupportedChange(c, Base(c), program[c]) /\ WellFormed(Base(c))
  BY DEF UnderwayInv, Underway
<1>3. \A c \in Classes : program[c].table \in TableNames(c) /\ DefaultTable[c] \in TableNames(c)
  BY <1>1 DEF TableNames
<1>4. \A c \in Classes \ wrong : Base(c).table \in {program[c].table, DefaultTable[c]}
  BY <1>2 DEF SupportedChange
<1>5. \A c \in Classes \ wrong : Place(c) \in TableNames(c)
  BY <1>3, <1>4 DEF Place
<1>6. /\ \A c, d \in Classes : c # d => TableNames(c) \cap TableNames(d) = {}
      /\ \A c \in Classes : Empty \notin DOMAIN program[c].idx
  BY <1>1 DEF SupportedHistory
<1> QED BY <1>1, <1>2, <1>3, <1>4, <1>5, <1>6 DEF Pair

\* A step that is only about the tables of class c.
Elsewhere(c, s) ==
    \A u : u \notin TableNames(c) => /\ u \in DOMAIN s <=> u \in DOMAIN schema
                                     /\ u \in DOMAIN schema => s[u] = schema[u]

\* Every command is, also one of a class that went wrong.
LEMMA ExecutedElsewhere ==
  ASSUME IndInv, NEW cmd \in cmds
  PROVE  Elsewhere(Class, Execute(cmd))
<1>1. PICK c, m, t : c = Class /\ m = Model /\ t = m.table
  OBVIOUS
<1>2. /\ cmd.action \in Actions
      /\ cmd.action = "change_tablename" => cmd.target = t /\ cmd.prev = DefaultTable[c]
  BY <1>1 DEF IndInv, CmdsInv
<1>3. t \in TableNames(c) /\ DefaultTable[c] \in TableNames(c)
  BY <1>1, Typing DEF Model, TableNames
<1>4. ASSUME NEW table, Execute(cmd) = [schema EXCEPT ![t] = table]
      PROVE  Elsewhere(c, Execute(cmd))
  BY <1>3, <1>4 DEF Elsewhere
<1>5. ASSUME Execute(cmd) = schema PROVE Elsewhere(c, Execute(cmd))
  BY <1>5 DEF Elsewhere
<1>6. CASE cmd.action = "create_table"
  <2>1. CASE t \in DOMAIN schema
    BY <1>1, <1>5, <1>6, <2>1 DEF Execute
  <2>2. CASE t \notin DOMAIN schema
    <3>1. PICK table : table = TableOf(c)
      OBVIOUS
    <3>2. Execute(cmd) = [x \in DOMAIN schema \cup {t} |-> IF x = t THEN table ELSE schema[x]]
      BY <1>1, <1>6, <2>2, <3>1 DEF Execute, Put
    <3> QED BY <1>1, <1>3, <3>2 DEF Elsewhere
  <2> QED BY <1>1, <2>1, <2>2
<1>7. CASE cmd.action = "change_tablename"
  <2>1. CASE cmd.prev \in DOMAIN schema /\ cmd.target \notin DOMAIN schema
    <3>1. Execute(cmd) = [x \in (DOMAIN schema \ {cmd.prev}) \cup {cmd.target} |->
                            IF x = cmd.target THEN schema[cmd.prev] ELSE schema[x]]
      BY <1>7, <2>1 DEF Execute
    <3> QED BY <1>1, <1>2, <1>3, <1>7, <3>1 DEF Elsewhere
  <2>2. CASE ~(cmd.prev \in DOMAIN schema /\ cmd.target \notin DOMAIN schema)
    <3>1. Execute(cmd) = schema
      BY <1>7, <2>2 DEF Execute
    <3> QED BY <1>1, <1>5, <3>1
  <2> QED BY <2>1, <2>2
<1>8. CASE cmd.action = "add_column"
  <2> DEFINE table == [schema[t] EXCEPT !.cols =
                         [x \in DOMAIN @ \cup {cmd.target} |->
                            IF x = cmd.target THEN Column(c, FieldOf(m, x), @) ELSE @[x]]]
  <2>1. Execute(cmd) = schema \/ Execute(cmd) = [schema EXCEPT ![t] = table]
    BY <1>1, <1>8 DEF Execute
  <2> HIDE DEF table
  <2> QED BY <1>1, <1>4, <1>5, <2>1
<1>9. CASE cmd.action = "change_column"
  <2> DEFINE table == ChangeColumn(schema[t], cmd.prev, FieldOf(m, cmd.target))
  <2>1. Execute(cmd) = schema \/ Execute(cmd) = [schema EXCEPT ![t] = table]
    BY <1>1, <1>9 DEF Execute
  <2> HIDE DEF table
  <2> QED BY <1>1, <1>4, <1>5, <2>1
<1>10. CASE cmd.action = "drop_index"
  <2> DEFINE table == [schema[t] EXCEPT !.idx = [n \in DOMAIN @ \ {cmd.target} |-> @[n]]]
  <2>1. Execute(cmd) = schema \/ Execute(cmd) = [schema EXCEPT ![t] = table]
    BY <1>1, <1>10 DEF Execute
  <2> HIDE DEF table
  <2> QED BY <1>1, <1>4, <1>5, <2>1
<1>11. CASE cmd.action = "add_index"
  <2> DEFINE table == [schema[t] EXCEPT !.idx =
                         [n \in DOMAIN @ \cup {cmd.target} |->
                            IF n = cmd.target THEN Stored(m.idx[n]) ELSE @[n]]]
  <2>1. Execute(cmd) = schema \/ Execute(cmd) = [schema EXCEPT ![t] = table]
    BY <1>1, <1>11 DEF Execute
  <2> HIDE DEF table
  <2> QED BY <1>1, <1>4, <1>5, <2>1
<1> QED BY <1>1, <1>2, <1>6, <1>7, <1>8, <1>9, <1>10, <1>11 DEF Actions

LEMMA OthersKept ==
  ASSUME SupportedHistory, IndInv, UnderwayInv, NEW c \in Classes, UNCHANGED <<file, program>>,
         Elsewhere(c, schema'), NEW d \in Classes \ wrong, d # c
  PROVE  Underway(d)' /\ (Done(d) => Done(d)')
<1>1. Base(d)' = Base(d)
  BY DEF Base
<1>2. \A u \in TableNames(d) : /\ u \in DOMAIN schema' <=> u \in DOMAIN schema
                               /\ u \in DOMAIN schema => schema'[u] = schema[u]
  BY Setting DEF Elsewhere
<1>3. program[d].table \in TableNames(d) /\ Place(d) \in TableNames(d)
  BY Setting
<1>4. Place(d)' = Place(d)
  BY <1>1, <1>2, <1>3 DEF Place
<1>5. Place(d) \in DOMAIN schema => Place(d)' \in DOMAIN schema' /\ Table(d)' = Table(d)
  BY <1>2, <1>3, <1>4 DEF Table
<1>6. Absent(d) => Absent(d)'
  BY <1>2 DEF Absent
<1>7. Done(d) => Done(d)'
  BY <1>2, <1>3 DEF Done
<1>8. Underway(d)
  BY DEF UnderwayInv
<1>9. \A t \in DOMAIN schema' : t \in TableNames(d) => t = Place(d)'
  BY <1>2, <1>4, <1>8 DEF Underway
<1>10. Underway(d)'
  BY <1>1, <1>5, <1>6, <1>8, <1>9 DEF Underway
<1> QED BY <1>7, <1>10

\* What a migration step has to show of its class.
LEMMA ClassStep ==
  ASSUME SupportedHistory, HistInv, IndInv', UNCHANGED <<file, program, pc, call, pos, wrong>>,
         failed \subseteq failed', pc = "migrate", NEW c, c = Class, Elsewhere(c, schema'),
         c \notin wrong => Underway(c)' /\ Commands(c)' /\ (c \notin failed' => Pending(c)')
  PROVE  HistInv'
<1>1. IndInv /\ UnderwayInv /\ DoneInv /\ c \in Classes
  BY Setting DEF HistInv
<1>2. Class' = Class /\ Saved' = Saved
  BY DEF Class, Saved
<1>3. \A d \in Classes \ wrong : d # c => Underway(d)' /\ (Done(d) => Done(d)')
  BY <1>1, OthersKept
<1>4. UnderwayInv'
  BY <1>3 DEF UnderwayInv
<1>5. DoneInv'
  BY <1>1, <1>2, <1>3 DEF DoneInv
<1>6. CommandsInv' /\ PendingInv'
  BY <1>2 DEF CommandsInv, PendingInv
<1> QED BY <1>4, <1>5, <1>6 DEF HistInv

\* A statement of class c fails, or is about a table that an earlier failure left
\* under its old name.
LEMMA Skipped ==
  ASSUME SupportedHistory, HistInv, IndInv', UNCHANGED <<schema, file, program, pc, call, pos, wrong>>,
         failed \subseteq failed', pc = "migrate", Class \in failed', cmds' \subseteq cmds
  PROVE  HistInv'
<1>1. PICK c : c = Class
  OBVIOUS
<1>2. IndInv /\ UnderwayInv /\ CommandsInv /\ c \in Classes
  BY <1>1, Setting DEF HistInv
<1>3. Elsewhere(c, schema')
  BY DEF Elsewhere
<1>4. ASSUME c \notin wrong PROVE Underway(c)' /\ Commands(c)'
  <2>1. Underway(c) /\ Commands(c)
    BY <1>1, <1>2, <1>4 DEF UnderwayInv, CommandsInv
  <2>2. /\ Base(c)' = Base(c) /\ Place(c)' = Place(c) /\ Table(c)' = Table(c)
        /\ (Absent(c) => Absent(c)') /\ Rename(c)' = Rename(c)
    BY DEF Base, Place, Table, Absent, Rename
  <2>3. Underway(c)'
    BY <2>1, <2>2 DEF Underway
  <2>4. \A k : Needed(c, Base(c), program[c], k) => Needed(c, Base(c), program[c], k)'
    BY <2>2 DEF Needed
  <2>5. Commands(c)'
    BY <2>1, <2>2, <2>4 DEF Commands
  <2> QED BY <2>3, <2>5
<1> QED BY <1>1, <1>3, <1>4, ClassStep

\* The table of a class that is not wrong is midway again, under its new name, and
\* the commands that are left are enough if they were.
LEMMA TableStep ==
  ASSUME SupportedHistory, HistInv, IndInv', UNCHANGED <<file, program, pc, call, pos, failed, wrong>>,
         pc = "migrate", NEW c, c = Class, c \notin wrong, Elsewhere(c, schema'),
         Place(c) \in DOMAIN schema, program[c].table \in DOMAIN schema',
         \A t \in DOMAIN schema' : t # program[c].table => t \in DOMAIN schema /\ t # Place(c),
         NEW cmd, cmds' = cmds \ {cmd}, NEW table, table = schema'[program[c].table],
         Midway(c, Base(c), program[c], table),
         Left(Base(c), program[c], Table(c), cmds) => Left(Base(c), program[c], table, cmds \ {cmd})
  PROVE  HistInv'
<1>1. IndInv /\ UnderwayInv /\ CommandsInv /\ PendingInv /\ c \in Classes
  BY Setting DEF HistInv
<1>2. Base(c)' = Base(c)
  BY DEF Base
<1>3. Place(c)' = program[c].table /\ Table(c)' = table
  BY DEF Place, Table
<1>4. Underway(c)'
  <2>1. /\ SupportedChange(c, Base(c), program[c]) /\ WellFormed(Base(c))
        /\ \A t \in DOMAIN schema : t \in TableNames(c) => t = Place(c)
    BY <1>1 DEF UnderwayInv, Underway
  <2>2. \A t \in DOMAIN schema' : t \in TableNames(c) => t = Place(c)'
    BY <1>3, <2>1
  <2> QED BY <1>2, <1>3, <2>1, <2>2 DEF Underway
<1>5. Rename(c)' = Rename(c)
  BY DEF Rename
<1>6. ~Absent(c)
  BY <1>1, Setting DEF Absent
<1>7. \A k \in cmds : Needed(c, Base(c), program[c], k)
  BY <1>1, <1>6 DEF CommandsInv, Commands
<1>8. \A k \in cmds' : Needed(c, Base(c), program[c], k)'
  BY <1>2, <1>5, <1>7 DEF Needed
<1>9. Commands(c)'
  BY <1>3, <1>8 DEF Commands
<1>10. ASSUME c \notin failed PROVE Pending(c)'
  <2>1. Left(Base(c), program[c], Table(c), cmds)
    BY <1>1, <1>6, <1>10 DEF PendingInv, Pending
  <2>2. Left(Base(c), program[c], table, cmds')
    BY <2>1
  <2> QED BY <1>2, <1>3, <2>2 DEF Pending
<1> QED BY <1>4, <1>9, <1>10, ClassStep

LEMMA Priorities ==
  /\ \A cmd : cmd.action = "change_tablename" => Priority(cmd) = 1
  /\ \A cmd : cmd.action \in {"add_column", "change_column"} => Priority(cmd) = 2
  /\ \A cmd : cmd.action = "drop_index" => Priority(cmd) = 3
  /\ \A cmd : cmd.action = "add_index" => Priority(cmd) = 4
  BY DEF Priority

\* The situation when one of the commands for a class that has its table is executed.
Executing(c, cmd) ==
    /\ SupportedHistory /\ HistInv /\ IndInv'
    /\ UNCHANGED <<file, program, pc, call, pos, failed, wrong>>
    /\ pc = "migrate" /\ c = Class /\ c \notin wrong /\ Place(c) \in DOMAIN schema
    /\ cmd \in cmds /\ \A other \in cmds : Priority(cmd) <= Priority(other)
    /\ schema' = Execute(cmd) /\ cmds' = cmds \ {cmd}

LEMMA ExecutingFacts ==
  ASSUME NEW c, NEW cmd, Executing(c, cmd)
  PROVE  /\ c \in Classes /\ Pair(c, Base(c), program[c]) /\ WellFormed(program[c])
         /\ Midway(c, Base(c), program[c], Table(c))
         /\ \A k \in cmds : Needed(c, Base(c), program[c], k)
         /\ Base(c).table \in {program[c].table, DefaultTable[c]}
         /\ c \notin failed => program[c].table \in DOMAIN schema \/ Rename(c) \in cmds
         /\ Model = program[c] /\ Class = c /\ Elsewhere(c, schema')
<1>1. /\ IndInv /\ UnderwayInv /\ CommandsInv /\ PendingInv /\ c = Class /\ pc = "migrate"
      /\ c \notin wrong /\ Place(c) \in DOMAIN schema /\ cmd \in cmds /\ schema' = Execute(cmd)
  BY DEF Executing, HistInv
<1>2. /\ c \in Classes /\ Pair(c, Base(c), program[c]) /\ WellFormed(program[c]) /\ Model = program[c]
      /\ Base(c).table \in {program[c].table, DefaultTable[c]} /\ Place(c) \in TableNames(c)
  BY <1>1, Setting DEF Executing
<1>3. ~Absent(c)
  BY <1>1, <1>2 DEF Absent
<1>4. Midway(c, Base(c), program[c], Table(c))
  BY <1>1, <1>2, <1>3 DEF UnderwayInv, Underway
<1>5. \A k \in cmds : Needed(c, Base(c), program[c], k)
  BY <1>1, <1>2, <1>3 DEF CommandsInv, Commands
<1>6. c \notin failed => program[c].table \in DOMAIN schema \/ Rename(c) \in cmds
  BY <1>1, <1>2, <1>3 DEF PendingInv, Pending
<1>7. Elsewhere(c, schema')
  BY <1>1, ExecutedElsewhere
<1> QED BY <1>1, <1>2, <1>4, <1>5, <1>6, <1>7

\* Once the table has its new name, a command changes it in place.
LEMMA InPlace ==
  ASSUME NEW c, NEW cmd, Executing(c, cmd), program[c].table \in DOMAIN schema,
         NEW table, With(program[c].table, table, Execute(cmd)),
         Midway(c, Base(c), program[c], table),
         Left(Base(c), program[c], Table(c), cmds) => Left(Base(c), program[c], table, cmds \ {cmd})
  PROVE  HistInv'
<1>1. /\ SupportedHistory /\ HistInv /\ IndInv'
      /\ UNCHANGED <<file, program, pc, call, pos, failed, wrong>>
      /\ pc = "migrate" /\ c = Class /\ c \notin wrong /\ cmds' = cmds \ {cmd}
      /\ schema' = Execute(cmd) /\ Place(c) \in DOMAIN schema
  BY DEF Executing
<1>2. DOMAIN schema' = DOMAIN schema /\ table = schema'[program[c].table]
  BY <1>1 DEF With
<1>3. Elsewhere(c, schema')
  BY ExecutingFacts
<1>4. Place(c) = program[c].table
  BY DEF Place
<1> QED BY <1>1, <1>2, <1>3, <1>4, TableStep

\* RENAME TABLE: nothing to do, or the table moves from its default name.
LEMMA RenameStep ==
  ASSUME NEW c, NEW cmd, Executing(c, cmd), cmd = Rename(c)
  PROVE  HistInv'
<1>1. PICK m, r, old, cs : m = program[c] /\ r = Base(c) /\ old = Table(c) /\ cs = cmds
  OBVIOUS
<1>2. Place(c) \in DOMAIN schema /\ Midway(c, r, m, old) /\ Model = m
  BY <1>1, ExecutingFacts DEF Executing
<1>3. /\ cmd.action = "change_tablename" /\ cmd.target = m.table /\ cmd.prev = DefaultTable[c]
  BY <1>1, CommandFields
<1>4. Left(r, m, old, cs) => Left(r, m, old, cs \ {cmd})
  <2> SUFFICES ASSUME Left(r, m, old, cs) PROVE Left(r, m, old, cs \ {cmd})
    OBVIOUS
  <2>1. ColumnsPending(r, m, old.cols, cs) /\ IndicesPending(m, old.idx, cs)
    BY DEF Left
  <2>2. ColumnsPending(r, m, old.cols, cs \ {cmd})
    BY <1>3, <2>1, OtherColumnsPending
  <2>3. IndicesMidway(r, m, old.idx) /\ SameIndices(m, old.idx, old.idx)
    BY <1>2 DEF Midway, SameIndices
  <2>4. IndicesPending(m, old.idx, cs \ {cmd})
    BY <1>3, <2>1, <2>3, OtherIndicesPending
  <2> QED BY <2>2, <2>4 DEF Left
<1>5. CASE m.table \in DOMAIN schema
  <2>1. Execute(cmd) = schema /\ old = schema[m.table]
    BY <1>1, <1>3, <1>5 DEF Execute, Table, Place
  <2>2. With(m.table, old, Execute(cmd))
    BY <1>5, <2>1 DEF With
  <2> QED BY <1>1, <1>2, <1>4, <1>5, <2>2, InPlace
<1>6. CASE m.table \notin DOMAIN schema
  <2>1. /\ SupportedHistory /\ HistInv /\ IndInv'
        /\ UNCHANGED <<file, program, pc, call, pos, failed, wrong>>
        /\ pc = "migrate" /\ c = Class /\ c \notin wrong /\ cmds' = cmds \ {cmd}
        /\ schema' = Execute(cmd)
    BY DEF Executing
  <2>2. Place(c) = r.table /\ r.table \in DOMAIN schema
    BY <1>1, <1>2, <1>6 DEF Place
  <2>3. r.table = DefaultTable[c]
    BY <1>1, <1>6, <2>2, ExecutingFacts
  <2>4. schema' = [x \in (DOMAIN schema \ {DefaultTable[c]}) \cup {m.table} |->
                      IF x = m.table THEN schema[DefaultTable[c]] ELSE schema[x]]
    BY <1>3, <1>6, <2>1, <2>2, <2>3 DEF Execute
  <2>5. /\ DOMAIN schema' = (DOMAIN schema \ {DefaultTable[c]}) \cup {m.table}
        /\ schema'[m.table] = old
    BY <1>1, <1>6, <2>2, <2>3, <2>4 DEF Table
  <2>6. Elsewhere(c, schema')
    BY ExecutingFacts
  <2>7. \A t \in DOMAIN schema' : t # m.table => t \in DOMAIN schema /\ t # Place(c)
    BY <2>2, <2>3, <2>5
  <2> QED BY <1>1, <1>2, <1>4, <2>1, <2>5, <2>6, <2>7, TableStep
<1> QED BY <1>5, <1>6

\* The other commands come after the rename.  If that failed, they fail.
LEMMA NotRenamed ==
  ASSUME NEW c, NEW cmd, Executing(c, cmd), program[c].table \notin DOMAIN schema,
         cmd.action \in {"add_column", "change_column", "drop_index", "add_index"}
  PROVE  HistInv'
<1>1. Rename(c) \notin cmds
  <2>1. Priority(Rename(c)) = 1
    BY CommandFields, Priorities
  <2>2. Priority(cmd) \in {2, 3, 4}
    BY Priorities
  <2> QED BY <2>1, <2>2 DEF Executing
<1>2. c \in failed /\ Model.table \notin DOMAIN schema
  BY <1>1, ExecutingFacts
<1>3. Execute(cmd) = schema
  BY <1>2 DEF Execute
<1> QED BY <1>2, <1>3, Skipped DEF Executing

\* Executing a command on the table itself.
ExecutingOn(c, m, r, t, old, cs, cmd) ==
    /\ Executing(c, cmd) /\ t \in DOMAIN schema
    /\ m = program[c] /\ r = Base(c) /\ t = m.table /\ old = schema[t] /\ cs = cmds

LEMMA ExecutingOnFacts ==
  ASSUME NEW c, NEW m, NEW r, NEW t, NEW old, NEW cs, NEW cmd, ExecutingOn(c, m, r, t, old, cs, cmd)
  PROVE  /\ Pair(c, r, m) /\ WellFormed(m) /\ Midway(c, r, m, old) /\ Found(c, m, t, old) /\ IndInv
         /\ old = Table(c) /\ cmd \in cs /\ \A other \in cs : Priority(cmd) <= Priority(other)
<1>1. Executing(c, cmd) /\ old = Table(c)
  BY DEF ExecutingOn, Table, Place
<1> QED BY <1>1, ExecutingFacts DEF ExecutingOn, Executing, HistInv, Found

LEMMA OnTable ==
  ASSUME NEW c, NEW m, NEW r, NEW t, NEW old, NEW cs, NEW cmd, ExecutingOn(c, m, r, t, old, cs, cmd),
         NEW table, With(t, table, Execute(cmd)), Midway(c, r, m, table),
         Left(r, m, old, cs) => Left(r, m, table, cs \ {cmd})
  PROVE  HistInv'
<1>1. old = Table(c)
  BY ExecutingOnFacts
<1> QED BY <1>1, InPlace DEF ExecutingOn

LEMMA AddStep ==
  ASSUME NEW c, NEW m, NEW r, NEW t, NEW old, NEW cs, NEW cmd, ExecutingOn(c, m, r, t, old, cs, cmd),
         NEW f \in m.fields, New(f, r), cmd = Add(f)
  PROVE  HistInv'
<1>1. cmd.action = "add_column" /\ cmd.target = f.col
  BY CommandFields
<1>2. Pair(c, r, m) /\ WellFormed(m) /\ Midway(c, r, m, old) /\ Found(c, m, t, old) /\ IndInv
  BY ExecutingOnFacts
<1>3. PICK table :
         /\ With(t, table, Execute(cmd)) /\ table.idx = old.idx
         /\ IF f.col \in DOMAIN old.cols
            THEN table.cols = old.cols
            ELSE /\ DOMAIN table.cols = DOMAIN old.cols \cup {f.col}
                 /\ \A x \in DOMAIN old.cols : table.cols[x] = old.cols[x]
                 /\ table.cols[f.col] = Column(c, f, old.cols)
  BY <1>1, <1>2, AddExecuted
<1>4. PICK cols, new : cols = old.cols /\ new = table.cols
  OBVIOUS
<1>5. ColumnsMidway(c, r, m, cols) /\ IndicesMidway(r, m, old.idx) /\ SameIndices(m, old.idx, old.idx)
  BY <1>2, <1>4 DEF Midway, SameIndices
<1>6. /\ ColumnsMidway(c, r, m, new) /\ Final(f, new)
      /\ \A h \in m.fields : Final(h, cols) => Final(h, new)
  <2>1. CASE f.col \in DOMAIN cols
    <3>1. new = cols
      BY <1>3, <1>4, <2>1
    <3> QED BY <1>5, <2>1, <3>1, ColumnAddedBefore
  <2>2. CASE f.col \notin DOMAIN cols
    <3>1. /\ DOMAIN new = DOMAIN cols \cup {f.col} /\ \A x \in DOMAIN cols : new[x] = cols[x]
          /\ new[f.col] = Column(c, f, cols)
      BY <1>3, <1>4, <2>2
    <3>2. ColumnsAdvance(c, r, m, cols, new, f)
      BY <1>2, <1>5, <2>2, <3>1, ColumnAdded
    <3> QED BY <3>2 DEF ColumnsAdvance
  <2> QED BY <2>1, <2>2
<1>7. Midway(c, r, m, table)
  BY <1>3, <1>4, <1>5, <1>6 DEF Midway
<1>8. ASSUME Left(r, m, old, cs) PROVE Left(r, m, table, cs \ {cmd})
  <2>1. ColumnsPending(r, m, cols, cs) /\ IndicesPending(m, old.idx, cs)
    BY <1>4, <1>8 DEF Left
  <2>2. ColumnsPending(r, m, new, cs \ {cmd})
    BY <1>1, <1>2, <1>6, <2>1, ColumnCommandDone
  <2>3. IndicesPending(m, old.idx, cs \ {cmd})
    BY <1>1, <1>5, <2>1, OtherIndicesPending
  <2> QED BY <1>3, <1>4, <2>2, <2>3 DEF Left
<1> QED BY <1>3, <1>7, <1>8, OnTable

LEMMA ChangeStep ==
  ASSUME NEW c, NEW m, NEW r, NEW t, NEW old, NEW cs, NEW cmd, ExecutingOn(c, m, r, t, old, cs, cmd),
         NEW f \in m.fields, NEW g \in r.fields, f.field = g.field, cmd = Change(f, g)
  PROVE  HistInv'
<1>1. cmd.action = "change_column" /\ cmd.target = f.col /\ cmd.prev = g.col
  BY CommandFields
<1>2. Pair(c, r, m) /\ WellFormed(m) /\ Midway(c, r, m, old) /\ Found(c, m, t, old) /\ IndInv
  BY ExecutingOnFacts
<1>3. PICK table :
         /\ With(t, table, Execute(cmd))
         /\ IF g.col \in DOMAIN old.cols /\ f.col \notin DOMAIN old.cols \ {g.col}
            THEN table = ChangeColumn(old, g.col, f)
            ELSE table = old
  BY <1>1, <1>2, ChangeExecuted
<1>4. PICK cols, new : cols = old.cols /\ new = table.cols
  OBVIOUS
<1>5. ColumnsMidway(c, r, m, cols) /\ IndicesMidway(r, m, old.idx)
  BY <1>2, <1>4 DEF Midway
<1>6. /\ ColumnsMidway(c, r, m, new) /\ Final(f, new)
      /\ \A h \in m.fields : Final(h, cols) => Final(h, new)
      /\ SameIndices(m, old.idx, table.idx)
  <2>1. CASE g.col \in DOMAIN cols /\ f.col \notin DOMAIN cols \ {g.col}
    <3>1. table = ChangeColumn(old, g.col, f)
      BY <1>3, <1>4, <2>1
    <3>2. new = [x \in (DOMAIN cols \ {g.col}) \cup {f.col} |->
                    IF x = f.col THEN [def |-> f.def, dflt |-> f.dflt, data |-> cols[g.col].data]
                    ELSE cols[x]]
      BY <1>4, <3>1 DEF ChangeColumn
    <3>3. /\ DOMAIN new = (DOMAIN cols \ {g.col}) \cup {f.col}
          /\ new[f.col] = [def |-> f.def, dflt |-> f.dflt, data |-> cols[g.col].data]
          /\ \A x \in DOMAIN new : x # f.col => new[x] = cols[x]
      BY <3>2
    <3>4. ColumnsAdvance(c, r, m, cols, new, f)
      BY <1>2, <1>5, <2>1, <3>3, ColumnChanged
    <3>5. DOMAIN table.idx = DOMAIN old.idx
      BY <3>1 DEF ChangeColumn
    <3>6. \A n \in DOMAIN old.idx :
             n \in DOMAIN m.idx /\ old.idx[n] = Stored(m.idx[n]) => table.idx[n] = Stored(m.idx[n])
      BY <1>2, <3>1, IndexFollows
    <3> QED BY <3>4, <3>5, <3>6 DEF ColumnsAdvance, SameIndices
  <2>2. CASE ~(g.col \in DOMAIN cols /\ f.col \notin DOMAIN cols \ {g.col})
    <3>1. table = old /\ new = cols
      BY <1>3, <1>4, <2>2
    <3>2. Final(f, cols)
      BY <1>2, <1>5, <2>2, ColumnChangedBefore
    <3> QED BY <1>5, <3>1, <3>2 DEF SameIndices
  <2> QED BY <2>1, <2>2
<1>7. /\ IndicesMidway(r, m, table.idx)
      /\ IndicesPending(m, old.idx, cs) => IndicesPending(m, table.idx, cs \ {cmd})
  BY <1>1, <1>5, <1>6, OtherIndicesPending
<1>8. Midway(c, r, m, table)
  BY <1>4, <1>6, <1>7 DEF Midway
<1>9. ASSUME Left(r, m, old, cs) PROVE Left(r, m, table, cs \ {cmd})
  <2>1. ColumnsPending(r, m, cols, cs) /\ IndicesPending(m, old.idx, cs)
    BY <1>4, <1>9 DEF Left
  <2>2. ColumnsPending(r, m, new, cs \ {cmd})
    BY <1>1, <1>2, <1>6, <2>1, ColumnCommandDone
  <2> QED BY <1>4, <1>7, <2>1, <2>2 DEF Left
<1> QED BY <1>3, <1>8, <1>9, OnTable

LEMMA DropStep ==
  ASSUME NEW c, NEW m, NEW r, NEW t, NEW old, NEW cs, NEW cmd, ExecutingOn(c, m, r, t, old, cs, cmd),
         NEW n, ~Stays(n, r, m), cmd = DropIndex(n)
  PROVE  HistInv'
<1>1. cmd.action = "drop_index" /\ cmd.target = n
  BY CommandFields
<1>2. Midway(c, r, m, old) /\ Found(c, m, t, old) /\ IndInv /\ cmd \in cs
  BY ExecutingOnFacts
<1>3. PICK table :
         /\ With(t, table, Execute(cmd)) /\ table.cols = old.cols
         /\ DOMAIN table.idx = DOMAIN old.idx \ {n}
         /\ \A k \in DOMAIN table.idx : table.idx[k] = old.idx[k]
  BY <1>1, <1>2, DropExecuted
<1>4. ColumnsMidway(c, r, m, old.cols) /\ IndicesMidway(r, m, old.idx)
  BY <1>2 DEF Midway
<1>5. /\ IndicesMidway(r, m, table.idx)
      /\ IndicesPending(m, old.idx, cs) => IndicesPending(m, table.idx, cs \ {cmd})
  <2>1. PICK idx, new : idx = old.idx /\ new = table.idx
    OBVIOUS
  <2>2. /\ IndicesMidway(r, m, idx)
        /\ DOMAIN new = DOMAIN idx \ {n} /\ \A k \in DOMAIN new : new[k] = idx[k]
    BY <1>3, <1>4, <2>1
  <2>3. /\ IndicesMidway(r, m, new)
        /\ IndicesPending(m, idx, cs) => IndicesPending(m, new, cs \ {DropIndex(n)})
    BY <1>2, <2>2, IndexCommandDropped
  <2> QED BY <2>1, <2>3
<1>6. Midway(c, r, m, table)
  BY <1>3, <1>4, <1>5 DEF Midway
<1>7. ASSUME Left(r, m, old, cs) PROVE Left(r, m, table, cs \ {cmd})
  <2>1. ColumnsPending(r, m, old.cols, cs) /\ IndicesPending(m, old.idx, cs)
    BY <1>7 DEF Left
  <2>2. ColumnsPending(r, m, old.cols, cs \ {cmd})
    BY <1>1, <2>1, OtherColumnsPending
  <2> QED BY <1>3, <1>5, <2>1, <2>2 DEF Left
<1> QED BY <1>3, <1>6, <1>7, OnTable

\* ADD INDEX comes last: if nothing failed, every column of the index is there.
LEMMA AddIndexStep ==
  ASSUME NEW c, NEW m, NEW r, NEW t, NEW old, NEW cs, NEW cmd, ExecutingOn(c, m, r, t, old, cs, cmd),
         NEW n \in DOMAIN m.idx, m.idx[n].type # "pri", cmd = AddIndex(n)
  PROVE  HistInv'
<1>1. cmd.action = "add_index" /\ cmd.target = n
  BY CommandFields
<1>2. /\ Midway(c, r, m, old) /\ WellFormed(m) /\ Found(c, m, t, old) /\ IndInv
      /\ \A other \in cs : Priority(cmd) <= Priority(other)
  BY ExecutingOnFacts
<1>3. /\ \A k : DropIndex(k) \notin cs
      /\ \A f : Add(f) \notin cs
      /\ \A f, g : Change(f, g) \notin cs
  <2>1. Priority(cmd) = 4
    BY <1>1, Priorities
  <2>2. \A k : Priority(DropIndex(k)) = 3
    BY CommandFields, Priorities
  <2>3. \A f : Priority(Add(f)) = 2
    BY CommandFields, Priorities
  <2>4. \A f, g : Priority(Change(f, g)) = 2
    BY CommandFields, Priorities
  <2> QED BY <1>2, <2>1, <2>2, <2>3, <2>4
<1>4. ColumnsMidway(c, r, m, old.cols) /\ IndicesMidway(r, m, old.idx)
  BY <1>2 DEF Midway
<1>5. CASE Range(Indexed(m.idx[n])) \subseteq DOMAIN old.cols
  <2>1. PICK table :
           /\ With(t, table, Execute(cmd)) /\ table.cols = old.cols
           /\ DOMAIN table.idx = DOMAIN old.idx \cup {n}
           /\ \A k \in DOMAIN old.idx : table.idx[k] = old.idx[k]
           /\ n \notin DOMAIN old.idx => table.idx[n] = Stored(m.idx[n])
    BY <1>1, <1>2, <1>5, AddIndexExecuted
  <2>2. /\ IndicesMidway(r, m, table.idx)
        /\ IndicesPending(m, old.idx, cs) => IndicesPending(m, table.idx, cs \ {cmd})
    <3>1. PICK idx, new : idx = old.idx /\ new = table.idx
      OBVIOUS
    <3>2. /\ IndicesMidway(r, m, idx)
          /\ DOMAIN new = DOMAIN idx \cup {n} /\ \A k \in DOMAIN idx : new[k] = idx[k]
          /\ n \notin DOMAIN idx => new[n] = Stored(m.idx[n])
      BY <1>4, <2>1, <3>1
    <3>3. /\ IndicesMidway(r, m, new)
          /\ IndicesPending(m, idx, cs) => IndicesPending(m, new, cs \ {AddIndex(n)})
      BY <1>3, <3>2, IndexCommandAdded
    <3> QED BY <3>1, <3>3
  <2>3. Midway(c, r, m, table)
    BY <1>4, <2>1, <2>2 DEF Midway
  <2>4. ASSUME Left(r, m, old, cs) PROVE Left(r, m, table, cs \ {cmd})
    <3>1. ColumnsPending(r, m, old.cols, cs) /\ IndicesPending(m, old.idx, cs)
      BY <2>4 DEF Left
    <3>2. ColumnsPending(r, m, old.cols, cs \ {cmd})
      BY <1>1, <3>1, OtherColumnsPending
    <3> QED BY <2>1, <2>2, <3>1, <3>2 DEF Left
  <2> QED BY <2>1, <2>3, <2>4, OnTable
<1>6. CASE ~(Range(Indexed(m.idx[n])) \subseteq DOMAIN old.cols)
  <2>1. Execute(cmd) = schema
    BY <1>1, <1>2, <1>6 DEF Execute, Found
  <2>2. With(t, old, Execute(cmd))
    BY <1>2, <2>1 DEF With, Found
  <2>3. ~Left(r, m, old, cs)
    <3> SUFFICES ASSUME Left(r, m, old, cs) PROVE FALSE
      OBVIOUS
    <3>1. \A f \in m.fields : f.col \in DOMAIN old.cols
      BY <1>3 DEF Left, ColumnsPending, Final
    <3>2. Range(Indexed(m.idx[n])) \subseteq {f.col : f \in m.fields}
      BY <1>2 DEF WellFormed
    <3> QED BY <1>6, <3>1, <3>2
  <2> QED BY <1>2, <2>2, <2>3, OnTable
<1> QED BY <1>5, <1>6

\* CREATE TABLE: the class has neither a record nor a table.
LEMMA CreateStep ==
  ASSUME SupportedHistory, HistInv, IndInv', UNCHANGED <<file, program, pc, call, pos, failed, wrong>>,
         pc = "migrate", NEW c, c = Class, c \notin wrong, Place(c) \notin DOMAIN schema,
         NEW cmd \in cmds, schema' = Execute(cmd), cmds' = cmds \ {cmd}
  PROVE  HistInv'
<1>1. /\ IndInv /\ UnderwayInv /\ c \in Classes /\ WellFormed(program[c]) /\ Model = program[c]
      /\ program[c].table \in TableNames(c) /\ Empty \notin DOMAIN program[c].idx
      /\ Underway(c) /\ Commands(c)
  BY Setting DEF HistInv, UnderwayInv, CommandsInv
<1>2. c \notin DOMAIN file /\ Absent(c) /\ Creatable(program[c])
  BY <1>1 DEF Underway
<1>3. cmd.action = "create_table" /\ cmds' = {}
  <2>1. cmds \subseteq {Create}
    BY <1>1 DEF Commands
  <2> QED BY <2>1, CommandFields
<1>4. PICK t, table : t = program[c].table /\ table = TableOf(c)
  OBVIOUS
<1>5. t \notin DOMAIN schema /\ Model.table = t
  BY <1>1, <1>2, <1>4 DEF Absent
<1>6. schema' = [x \in DOMAIN schema \cup {t} |-> IF x = t THEN table ELSE schema[x]]
  BY <1>3, <1>4, <1>5 DEF Execute, Put
<1>7. DOMAIN schema' = DOMAIN schema \cup {t} /\ schema'[t] = table
  BY <1>5, <1>6
<1>8. Midway(c, program[c], program[c], table)
  BY <1>1, <1>2, <1>4, Created
<1>9. PICK m, r : m = program[c] /\ r = Unrecorded(m)
  OBVIOUS
<1>10. Base(c)' = r /\ Midway(c, r, m, table) /\ Pair(c, r, m)
  BY <1>1, <1>2, <1>8, <1>9, UnrecordedMidway, UnrecordedPair DEF Base
<1>11. Place(c)' = t /\ Table(c)' = table
  BY <1>4, <1>7 DEF Place, Table
<1>12. \A u \in DOMAIN schema' : u \in TableNames(c) => u = t
  BY <1>2, <1>7 DEF Absent
<1>13. Underway(c)'
  BY <1>7, <1>9, <1>10, <1>11, <1>12 DEF Underway, Pair
<1>14. Commands(c)'
  BY <1>3, <1>7, <1>11 DEF Commands
<1>15. Pending(c)'
  <2>1. m.idx = [n \in DOMAIN m.idx |-> m.idx[n]]
    BY <1>1, <1>9 DEF WellFormed
  <2>2. PICK cols, idx : cols = table.cols /\ idx = table.idx
    OBVIOUS
  <2>3. ColumnsMidway(c, m, m, cols) /\ IndicesMidway(m, m, idx)
    BY <1>8, <1>9, <2>2 DEF Midway
  <2>4. \A f, g \in m.fields : f.field = g.field \/ f.col = g.col => f = g
    BY <1>1, <1>9 DEF WellFormed
  <2>5. ColumnsPending(r, m, cols, {})
    BY <2>3, <2>4 DEF ColumnsPending, ColumnsMidway, Final
  <2>6. IndicesPending(m, idx, {})
    BY <2>3 DEF IndicesPending, IndicesMidway
  <2>7. Left(r, m, table, {})
    BY <2>2, <2>5, <2>6 DEF Left
  <2> QED BY <1>3, <1>4, <1>7, <1>9, <1>10, <1>11, <2>7 DEF Pending
<1>16. Elsewhere(c, schema')
  BY <1>1, ExecutedElsewhere
<1> QED BY <1>13, <1>14, <1>15, <1>16, ClassStep

LEMMA MigrateHist ==
  ASSUME SupportedHistory, HistInv, Migrate
  PROVE  HistInv'
<1>1. PICK cmd \in cmds : /\ \A other \in cmds : Priority(cmd) <= Priority(other)
                          /\ cmds' = cmds \ {cmd}
                          /\ \/ schema' = Execute(cmd) /\ UNCHANGED failed
                             \/ failed' = failed \cup {Class} /\ UNCHANGED schema
  BY DEF Migrate
<1>2. pc = "migrate" /\ UNCHANGED <<file, program, pc, call, pos, wrong>>
  BY DEF Migrate
<1>3. IndInv /\ IndInv'
  BY MigrateInd DEF HistInv
<1>4. PICK c : c = Class
  OBVIOUS
<1>5. CASE failed' = failed \cup {Class} /\ UNCHANGED schema
  BY <1>1, <1>2, <1>3, <1>5, Skipped
<1>6. CASE schema' = Execute(cmd) /\ UNCHANGED failed
  <2>1. CASE c \in wrong
    <3>1. Elsewhere(c, schema')
      BY <1>3, <1>4, <1>6, ExecutedElsewhere
    <3> QED BY <1>2, <1>3, <1>4, <1>6, <2>1, <3>1, ClassStep
  <2>2. CASE c \notin wrong /\ Place(c) \notin DOMAIN schema
    BY <1>1, <1>2, <1>3, <1>4, <1>6, <2>2, CreateStep
  <2>3. CASE c \notin wrong /\ Place(c) \in DOMAIN schema
    <3>1. Executing(c, cmd)
      BY <1>1, <1>2, <1>3, <1>4, <1>6, <2>3 DEF Executing
    <3>2. PICK m, r, t, old, cs :
             /\ m = program[c] /\ r = Base(c) /\ t = m.table /\ old = schema[t] /\ cs = cmds
      OBVIOUS
    <3>3. Needed(c, r, m, cmd)
      BY <3>1, <3>2, ExecutingFacts DEF Executing
    <3>4. CASE cmd = Rename(c)
      BY <3>1, <3>4, RenameStep
    <3>5. CASE t \in DOMAIN schema /\ cmd # Rename(c)
      <4>1. ExecutingOn(c, m, r, t, old, cs, cmd)
        BY <3>1, <3>2, <3>5 DEF ExecutingOn
      <4>2. CASE \E f \in m.fields : New(f, r) /\ cmd = Add(f)
        BY <4>1, <4>2, AddStep
      <4>3. CASE \E f \in m.fields, g \in r.fields : f.field = g.field /\ cmd = Change(f, g)
        BY <4>1, <4>3, ChangeStep
      <4>4. CASE \E n : ~Stays(n, r, m) /\ cmd = DropIndex(n)
        BY <4>1, <4>4, DropStep
      <4>5. CASE \E n \in DOMAIN m.idx : m.idx[n].type # "pri" /\ cmd = AddIndex(n)
        BY <4>1, <4>5, AddIndexStep
      <4> QED BY <3>3, <3>5, <4>2, <4>3, <4>4, <4>5 DEF Needed
    <3>6. CASE t \notin DOMAIN schema /\ cmd # Rename(c)
      <4>1. cmd.action \in {"add_column", "change_column", "drop_index", "add_index"}
        BY <3>3, <3>6, CommandFields DEF Needed
      <4> QED BY <3>1, <3>2, <3>6, <4>1, NotRenamed
    <3> QED BY <3>4, <3>5, <3>6
  <2> QED BY <2>1, <2>2, <2>3
<1> QED BY <1>1, <1>5, <1>6

\* A step that leaves the tables, the data file and the program alone.
LEMMA StoresSame ==
  ASSUME UNCHANGED <<schema, file, program, wrong>>, UnderwayInv
  PROVE  UnderwayInv' /\ \A c \in Classes : Done(c) => Done(c)'
<1>1. \A c \in Classes : Base(c)' = Base(c)
  BY DEF Base
<1>2. \A c \in Classes : Place(c)' = Place(c) /\ Table(c)' = Table(c)
  BY <1>1 DEF Place, Table
<1>3. \A c \in Classes : (Absent(c)' <=> Absent(c)) /\ (Done(c) => Done(c)')
  BY DEF Absent, Done
<1>4. \A c \in Classes \ wrong : Underway(c)'
  BY <1>1, <1>2, <1>3 DEF UnderwayInv, Underway
<1> QED BY <1>3, <1>4 DEF UnderwayInv

\* The comparison of a class with its record finds what the table lacks.
LEMMA RecordCompared ==
  ASSUME NEW c, NEW r, NEW m, Pair(c, r, m), NEW table, Midway(c, r, m, table),
         NEW rename, rename \subseteq {Rename(c)},
         NEW columnCmds \in ColumnCmds(m, r), NEW cs, cs = rename \cup columnCmds \cup IndexCmds(m, r)
  PROVE  /\ \A k \in cs : Needed(c, r, m, k)
         /\ Left(r, m, table, cs)
<1>1. PICK cols, idx, indexCmds : cols = table.cols /\ idx = table.idx /\ indexCmds = IndexCmds(m, r)
  OBVIOUS
<1>2. ColumnsMidway(c, r, m, cols) /\ IndicesMidway(r, m, idx)
  BY <1>1 DEF Midway
<1>3. /\ \A k \in columnCmds :
            \/ \E f \in m.fields : New(f, r) /\ k = Add(f)
            \/ \E f \in m.fields, g \in r.fields : f.field = g.field /\ k = Change(f, g)
      /\ \A f \in m.fields : New(f, r) => Add(f) \in columnCmds
      /\ \A f \in m.fields, g \in r.fields :
            f.field = g.field /\ (f.col # g.col \/ f.def # g.def) => Change(f, g) \in columnCmds
  BY ColumnsCompared
<1>4. /\ \A k \in indexCmds :
            \/ \E n : ~Stays(n, r, m) /\ k = DropIndex(n)
            \/ \E n \in DOMAIN m.idx : m.idx[n].type # "pri" /\ k = AddIndex(n)
      /\ \A n \in DOMAIN r.idx : n \notin DOMAIN m.idx => DropIndex(n) \in indexCmds
      /\ \A n \in DOMAIN m.idx :
            \/ n \notin DOMAIN r.idx /\ AddIndex(n) \in indexCmds /\ DropIndex(n) \notin indexCmds
            \/ n \in DOMAIN r.idx /\ r.idx[n] = m.idx[n] /\ DropIndex(n) \notin indexCmds
            \/ n \in DOMAIN r.idx /\ AddIndex(n) \in indexCmds /\ DropIndex(n) \in indexCmds
  BY <1>1, IndicesCompared
<1>5. cs = rename \cup columnCmds \cup indexCmds
  BY <1>1
<1>6. \A k \in cs : Needed(c, r, m, k)
  <2>1. \A k \in columnCmds : Needed(c, r, m, k)
    BY <1>3, Zenon DEF Needed
  <2>2. \A k \in indexCmds : Needed(c, r, m, k)
    BY <1>4, Zenon DEF Needed
  <2>3. \A k \in rename : Needed(c, r, m, k)
    BY DEF Needed
  <2> QED BY <1>5, <2>1, <2>2, <2>3
<1>7. ASSUME NEW f \in m.fields
      PROVE  \/ Final(f, cols)
             \/ New(f, r) /\ Add(f) \in cs
             \/ \E g \in r.fields : g.field = f.field /\ Change(f, g) \in cs
  <2>1. CASE New(f, r)
    BY <1>3, <1>5, <2>1
  <2>2. CASE ~New(f, r)
    <3>1. PICK g \in r.fields : g.field = f.field
      BY <2>2 DEF New
    <3>2. CASE f.col # g.col \/ f.def # g.def
      BY <1>3, <1>5, <3>1, <3>2
    <3>3. CASE f.col = g.col /\ f.def = g.def
      <4>1. f.col \in DOMAIN cols
        BY <1>2, <3>1, <3>3 DEF ColumnsMidway
      <4>2. \A k \in r.fields : k.field = f.field => k = g
        BY <3>1, PairFields
      <4> QED BY <1>2, <3>3, <4>1, <4>2 DEF ColumnsMidway, Final
    <3> QED BY <3>2, <3>3
  <2> QED BY <2>1, <2>2
<1>8. \A n : DropIndex(n) \in cs <=> DropIndex(n) \in indexCmds
  <2>1. \A n : DropIndex(n) \notin rename
    BY CommandFields
  <2>2. \A n : DropIndex(n) \notin columnCmds
    <3>1. \A n, f : DropIndex(n) # Add(f)
      BY CommandFields
    <3>2. \A n, f, g : DropIndex(n) # Change(f, g)
      BY CommandFields
    <3> QED BY <1>3, <3>1, <3>2, Zenon
  <2> QED BY <1>5, <2>1, <2>2
<1>9. IndicesPending(m, idx, cs)
  <2>1. \A n \in DOMAIN idx : n \notin DOMAIN m.idx => DropIndex(n) \in cs
    BY <1>2, <1>4, <1>8 DEF IndicesMidway
  <2>2. ASSUME NEW n \in DOMAIN m.idx
        PROVE  \/ AddIndex(n) \in cs /\ (n \in DOMAIN idx => DropIndex(n) \in cs)
               \/ n \in DOMAIN idx /\ idx[n] = Stored(m.idx[n]) /\ DropIndex(n) \notin cs
    <3>1. CASE n \notin DOMAIN r.idx /\ AddIndex(n) \in indexCmds /\ DropIndex(n) \notin indexCmds
      BY <1>2, <1>5, <1>8, <3>1 DEF IndicesMidway
    <3>2. CASE n \in DOMAIN r.idx /\ r.idx[n] = m.idx[n] /\ DropIndex(n) \notin indexCmds
      BY <1>2, <1>8, <3>2 DEF IndicesMidway
    <3>3. CASE n \in DOMAIN r.idx /\ AddIndex(n) \in indexCmds /\ DropIndex(n) \in indexCmds
      BY <1>5, <3>3
    <3> QED BY <1>4, <3>1, <3>2, <3>3
  <2> QED BY <2>1, <2>2 DEF IndicesPending
<1>10. ColumnsPending(r, m, cols, cs)
  BY <1>7 DEF ColumnsPending
<1> QED BY <1>1, <1>6, <1>9, <1>10 DEF Left

\* A finished table is the one the model describes.
LEMMA DoneMatches ==
  ASSUME IndInv, NEW c \in Classes, Done(c)
  PROVE  /\ TableMatches(c)
         /\ \A f \in program[c].fields :
               schema[program[c].table].cols[f.col].data = <<c, f.field, 0>>
<1>1. PICK m, t, table : m = program[c] /\ t = m.table /\ table = schema[t]
  OBVIOUS
<1>2. t \in DOMAIN schema /\ Midway(c, m, m, table) /\ WellFormed(m) /\ TableInv(table)
  BY <1>1, Typing, TablesWellFormed DEF Done
<1>3. /\ \A f \in m.fields : Final(f, table.cols) /\ table.cols[f.col].data = <<c, f.field, 0>>
      /\ table.idx = [n \in DOMAIN m.idx |-> Stored(m.idx[n])]
  BY <1>2, Finished
<1> QED BY <1>1, <1>2, <1>3 DEF TableMatches, Final

\* Without a record, the table is compared with what the database reports.  Its
\* fields are all found by their columns; those that do not read back may be changed
\* to what they are, and such indices are dropped and added again.
LEMMA ReportCompared ==
  ASSUME NEW c, NEW r, NEW m, WellFormed(m), r = Unrecorded(m), NEW table, Midway(c, r, m, table),
         NEW p, \A x \in DOMAIN table.cols : \E g \in p.fields : g.col = x, p.idx = table.idx,
         NEW columnCmds \in ColumnCmds(m, p), NEW cs, cs = columnCmds \cup IndexCmds(m, p)
  PROVE  /\ \A k \in cs : Needed(c, r, m, k)
         /\ Left(r, m, table, cs)
<1>1. PICK cols, idx, indexCmds : cols = table.cols /\ idx = table.idx /\ indexCmds = IndexCmds(m, p)
  OBVIOUS
<1>2. ColumnsMidway(c, r, m, cols) /\ IndicesMidway(r, m, idx) /\ p.idx = idx
  BY <1>1 DEF Midway
<1>3. /\ r.fields = m.fields /\ DOMAIN r.idx = {n \in DOMAIN m.idx : m.idx[n].type = "pri"}
      /\ \A n \in DOMAIN r.idx : r.idx[n] = m.idx[n]
  BY UnrecordedParts
<1>4. \A f, g \in m.fields : f.field = g.field \/ f.col = g.col => f = g
  BY DEF WellFormed
<1>5. \A f \in m.fields : Final(f, cols)
  BY <1>2, <1>3, <1>4 DEF ColumnsMidway, Final
<1>6. ASSUME NEW k \in columnCmds PROVE \E f \in m.fields : k = Change(f, f)
  <2> DEFINE byCol(f) == {g \in p.fields : g.col = f.col}
             added == {f \in m.fields : byCol(f) = {} /\ ByFieldName(f, p) = {}}
             renamed == {f \in m.fields : byCol(f) = {} /\ ByFieldName(f, p) # {}}
             found(answer) == {f \in m.fields : \E g \in byCol(f) : answer \in FieldEqual(f, g)}
             old(f) == CHOOSE g \in ByFieldName(f, p) : TRUE
  <2>1. PICK changed \in SUBSET found(FALSE) :
           columnCmds = {Cmd("add_column", f.col, "") : f \in added}
             \cup {Cmd("change_column", f.col, old(f).col) : f \in renamed}
             \cup {Cmd("change_column", f.col, f.col) : f \in changed}
    BY Zenon DEF ColumnCmds
  <2>2. \A f \in m.fields : byCol(f) # {}
    BY <1>1, <1>5 DEF Final
  <2>3. added = {} /\ renamed = {} /\ changed \subseteq m.fields
    BY <2>2
  <2> HIDE DEF added, renamed, found, old
  <2>4. PICK f \in changed : k = Cmd("change_column", f.col, f.col)
    BY <1>6, <2>1, <2>3, Zenon
  <2> QED BY <2>3, <2>4 DEF Change
<1>7. /\ \A n \in DOMAIN idx : n \in DOMAIN m.idx /\ idx[n] = Stored(m.idx[n])
      /\ \A n \in DOMAIN m.idx : m.idx[n].type = "pri" => n \in DOMAIN idx
  BY <1>2, <1>3 DEF IndicesMidway
<1> DEFINE changed == {n \in DOMAIN idx : ~IndexEqual(idx[n], m.idx[n])}
           A == (DOMAIN m.idx \ DOMAIN idx) \cup changed
<1>8. indexCmds = {DropIndex(n) : n \in changed} \cup {AddIndex(n) : n \in A}
  <2>1. DOMAIN idx \ DOMAIN m.idx = {} /\ DOMAIN idx \cap DOMAIN m.idx = DOMAIN idx
    BY <1>7
  <2>2. (DOMAIN idx \ DOMAIN m.idx) \cup changed = changed
    BY <2>1
  <2>3. {n \in DOMAIN idx \cap DOMAIN m.idx : ~IndexEqual(idx[n], m.idx[n])} = changed
    BY <2>1
  <2>4. indexCmds = {DropIndex(n) : n \in (DOMAIN idx \ DOMAIN m.idx) \cup changed}
                      \cup {AddIndex(n) : n \in A}
    BY <1>1, <1>2, <2>3, Zenon DEF IndexCmds, DropIndex, AddIndex
  <2> QED BY <2>2, <2>4
<1>9. \A n \in DOMAIN m.idx : m.idx[n].type = "pri" => n \notin A
  <2> SUFFICES ASSUME NEW n \in DOMAIN m.idx, m.idx[n].type = "pri" PROVE n \notin A
    OBVIOUS
  <2>1. PICK i \in [type : STRING, columns : Seq(STRING)] :
           i = m.idx[n] /\ IsInjective(i.columns) /\ Indexed(i) = i.columns
    BY DEF WellFormed
  <2>2. Stored(i) = [type |-> i.type, columns |-> i.columns]
    BY <2>1 DEF Stored
  <2>3. Stored(i) = i
    BY <2>1, <2>2
  <2>4. i.columns \in Seq(STRING)
    BY <2>1
  <2>5. IndexEqual(i, i)
    BY <2>1, <2>4, IndexEqualsItself
  <2> QED BY <1>7, <2>1, <2>3, <2>5
<1>10. changed \subseteq A /\ A \subseteq DOMAIN m.idx
  BY <1>7
<1>11. DOMAIN m.idx \ A \subseteq DOMAIN idx \ changed /\ A \cap DOMAIN idx = changed
  OBVIOUS
<1> HIDE DEF changed, A
<1>12. \A n : (DropIndex(n) \in indexCmds <=> n \in changed) /\ (AddIndex(n) \in indexCmds <=> n \in A)
  <2>1. \A n, k : DropIndex(n) = DropIndex(k) => n = k
    BY CommandFields
  <2>2. \A n, k : AddIndex(n) = AddIndex(k) => n = k
    BY CommandFields
  <2>3. \A n, k : DropIndex(n) # AddIndex(k)
    BY CommandFields
  <2> QED BY <1>8, <2>1, <2>2, <2>3, Zenon
<1>13. cs = columnCmds \cup indexCmds
  BY <1>1
<1>14. \A n : DropIndex(n) \in cs <=> n \in changed
  <2>1. \A n, f : DropIndex(n) # Change(f, f)
    BY CommandFields
  <2> QED BY <1>6, <1>12, <1>13, <2>1, Zenon
<1>15. \A n \in A : AddIndex(n) \in cs
  BY <1>12, <1>13
<1>16. ASSUME NEW k \in cs PROVE Needed(c, r, m, k)
  <2>1. CASE k \in columnCmds
    <3>1. PICK f \in m.fields : k = Change(f, f)
      BY <1>6, <2>1
    <3> QED BY <1>3, <3>1 DEF Needed
  <2>2. CASE k \in indexCmds
    <3>1. CASE \E n \in changed : k = DropIndex(n)
      <4>1. \A n \in changed : ~Stays(n, r, m)
        BY <1>3, <1>9, <1>10 DEF Stays
      <4> QED BY <3>1, <4>1 DEF Needed
    <3>2. CASE \E n \in A : k = AddIndex(n)
      BY <1>9, <1>10, <3>2 DEF Needed
    <3> QED BY <1>8, <2>2, <3>1, <3>2
  <2> QED BY <1>13, <1>16, <2>1, <2>2
<1>17. IndicesPending(m, idx, cs)
  BY <1>7, <1>11, <1>14, <1>15 DEF IndicesPending
<1>18. ColumnsPending(r, m, cols, cs)
  BY <1>5 DEF ColumnsPending
<1> QED BY <1>1, <1>16, <1>17, <1>18 DEF Left

\* The comparison of a class that is not wrong finds what its table lacks.
LEMMA ClassCompared ==
  ASSUME SupportedHistory, HistInv, Compare, NEW c, c = Class, c \notin wrong
  PROVE  /\ \/ Place(c) \in DOMAIN schema /\ \A k \in cmds' : Needed(c, Base(c), program[c], k)
            \/ c \notin DOMAIN file /\ Absent(c) /\ cmds' \subseteq {Create}
         /\ \/ /\ program[c].table \in DOMAIN schema \/ Rename(c) \in cmds'
               /\ Left(Base(c), program[c], Table(c), cmds')
            \/ Absent(c) /\ Create \in cmds'
<1>1. PICK m, r : m = program[c] /\ r = Base(c)
  OBVIOUS
<1>2. /\ c \in Classes /\ Pair(c, r, m) /\ WellFormed(m) /\ Model = m /\ Underway(c) /\ IndInv
      /\ m.table \in TableNames(c) /\ DefaultTable[c] \in TableNames(c)
  BY <1>1, Setting DEF HistInv, UnderwayInv
<1>3. CASE c \in DOMAIN file
  <2>1. Previous(c) = r /\ r = file[c]
    BY <1>1, <1>3 DEF Previous, Base
  <2>2. r.fields # {}
    BY <1>2 DEF Pair, WellFormed
  <2>3. PICK columnCmds \in ColumnCmds(m, r) :
           cmds' = TableCmds(c) \cup columnCmds \cup IndexCmds(m, r)
    BY <1>2, <2>1, <2>2 DEF Compare
  <2>4. TableCmds(c) = IF r.table # m.table THEN {Rename(c)} ELSE {}
    BY <1>1, <1>3, <2>1, Zenon DEF TableCmds, Rename
  <2>5. TableCmds(c) \subseteq {Rename(c)}
    BY <2>4
  <2>6. Place(c) \in DOMAIN schema /\ Midway(c, r, m, Table(c))
    BY <1>1, <1>2, <1>3 DEF Underway
  <2>7. (\A k \in cmds' : Needed(c, r, m, k)) /\ Left(r, m, Table(c), cmds')
    BY <1>2, <2>3, <2>5, <2>6, RecordCompared
  <2>8. m.table \in DOMAIN schema \/ Rename(c) \in cmds'
    <3>1. CASE r.table = m.table
      BY <1>1, <2>6, <3>1 DEF Place
    <3>2. CASE r.table # m.table
      BY <2>3, <2>4, <3>2
    <3> QED BY <3>1, <3>2
  <2> QED BY <1>1, <2>6, <2>7, <2>8
<1>4. CASE c \notin DOMAIN file /\ m.table \in DOMAIN schema
  <2>1. PICK t, table, p : t = m.table /\ table = schema[t] /\ p = FromDB(t)
    OBVIOUS
  <2>2. Place(c) = t /\ Table(c) = table /\ r = Unrecorded(m)
    BY <1>1, <1>4, <2>1 DEF Place, Table, Base
  <2>3. Midway(c, r, m, table)
    BY <1>1, <1>2, <1>4, <2>1, <2>2 DEF Underway, Absent
  <2>4. Previous(c) = p /\ TableCmds(c) = {}
    BY <1>1, <1>4, <2>1 DEF Previous, TableCmds
  <2>5. \A x \in DOMAIN table.cols : \E g \in p.fields : g.col = x
    <3>1. PICK cols : cols = table.cols
      OBVIOUS
    <3>2. p.fields = {Reported(cols, x) : x \in DOMAIN cols}
      BY <1>4, <2>1, <3>1, TableReported
    <3>3. \A x : Reported(cols, x).col = x
      BY DEF Reported
    <3> QED BY <3>1, <3>2, <3>3
  <2>6. p.idx = table.idx
    BY <1>4, <2>1, TableReported
  <2>7. p.fields # {}
    <3>1. PICK f \in m.fields : TRUE
      BY <1>2 DEF WellFormed
    <3>2. r.fields = m.fields
      BY <2>2, UnrecordedParts
    <3>3. f.col \in DOMAIN table.cols
      BY <2>3, <3>2 DEF Midway, ColumnsMidway
    <3> QED BY <2>5, <3>3
  <2>8. PICK columnCmds \in ColumnCmds(m, p) : cmds' = columnCmds \cup IndexCmds(m, p)
    BY <1>2, <2>4, <2>7 DEF Compare
  <2>9. (\A k \in cmds' : Needed(c, r, m, k)) /\ Left(r, m, table, cmds')
    BY <1>2, <2>2, <2>3, <2>5, <2>6, <2>8, ReportCompared
  <2> QED BY <1>1, <1>4, <2>1, <2>2, <2>9
<1>5. CASE c \notin DOMAIN file /\ m.table \notin DOMAIN schema
  <2>1. r.table = m.table /\ Place(c) \notin DOMAIN schema
    BY <1>1, <1>5, UnrecordedParts DEF Base, Place
  <2>2. Absent(c)
    BY <1>2, <2>1 DEF Underway
  <2>3. DefaultTable[c] \notin DOMAIN schema
    BY <1>2, <2>2 DEF Absent
  <2>4. Previous(c) = NoRecord
    BY <1>1, <1>5, <2>3 DEF Previous, FromDB
  <2>5. PICK p : p = Previous(c) /\ p.fields = {}
    <3>1. NoRecord.fields = {}
      BY DEF NoRecord
    <3> QED BY <2>4, <3>1, Zenon
  <2>6. TableCmds(c) = {Create}
    BY <1>1, <1>5, <2>3, Zenon DEF TableCmds, Create
  <2>7. cmds' = TableCmds(c)
    BY <2>5 DEF Compare
  <2> QED BY <1>5, <2>2, <2>6, <2>7
<1> QED BY <1>3, <1>4, <1>5

LEMMA CompareHist ==
  ASSUME SupportedHistory, HistInv, Compare
  PROVE  HistInv'
<1>1. /\ pc = "compare" /\ pc' = "migrate"
      /\ UNCHANGED <<schema, file, program, call, pos, failed, wrong>>
  BY DEF Compare
<1>2. IndInv' /\ IndInv /\ UnderwayInv /\ DoneInv
  BY CompareInd DEF HistInv
<1>3. UnderwayInv' /\ \A c \in Classes : Done(c) => Done(c)'
  BY <1>1, <1>2, StoresSame
<1>4. Class' = Class /\ Saved' = Saved
  BY <1>1 DEF Class, Saved
<1>5. DoneInv'
  BY <1>1, <1>2, <1>3, <1>4 DEF DoneInv
<1>6. PICK c : c = Class
  OBVIOUS
<1>7. ASSUME c \notin wrong PROVE Commands(c)' /\ Pending(c)'
  <2>1. /\ Base(c)' = Base(c) /\ Place(c)' = Place(c) /\ Table(c)' = Table(c)
        /\ (Absent(c) => Absent(c)') /\ Rename(c)' = Rename(c)
    BY <1>1 DEF Base, Place, Table, Absent, Rename
  <2>2. \A k : Needed(c, Base(c), program[c], k) => Needed(c, Base(c), program[c], k)'
    BY <1>1, <2>1 DEF Needed
  <2>3. /\ \/ Place(c) \in DOMAIN schema /\ \A k \in cmds' : Needed(c, Base(c), program[c], k)
           \/ c \notin DOMAIN file /\ Absent(c) /\ cmds' \subseteq {Create}
        /\ \/ /\ program[c].table \in DOMAIN schema \/ Rename(c) \in cmds'
              /\ Left(Base(c), program[c], Table(c), cmds')
           \/ Absent(c) /\ Create \in cmds'
    BY <1>6, <1>7, ClassCompared
  <2>4. Commands(c)'
    BY <1>1, <2>1, <2>2, <2>3 DEF Commands
  <2>5. Pending(c)'
    BY <1>1, <2>1, <2>3 DEF Pending
  <2> QED BY <2>4, <2>5
<1>8. CommandsInv' /\ PendingInv'
  BY <1>1, <1>4, <1>6, <1>7 DEF CommandsInv, PendingInv
<1> QED BY <1>2, <1>3, <1>5, <1>8 DEF HistInv

\* When no command is left and none has failed, the table has arrived.
LEMMA ClassDone ==
  ASSUME SupportedHistory, HistInv, pc = "migrate", cmds = {}, Class \notin failed \cup wrong
  PROVE  Done(Class)
<1>1. PICK c, m, r, t, table :
         c = Class /\ m = program[c] /\ r = Base(c) /\ t = m.table /\ table = schema[t]
  OBVIOUS
<1>2. /\ IndInv /\ UnderwayInv /\ c \in Classes /\ Pair(c, r, m) /\ Underway(c) /\ Pending(c)
      /\ t \in TableNames(c)
  BY <1>1, Setting DEF HistInv, UnderwayInv, PendingInv
<1>3. t \in DOMAIN schema /\ Left(r, m, Table(c), {})
  BY <1>1, <1>2 DEF Pending
<1>4. Place(c) = t /\ Table(c) = table
  BY <1>1, <1>3 DEF Table, Place
<1>5. /\ Midway(c, r, m, table)
      /\ ColumnsPending(r, m, table.cols, {}) /\ IndicesPending(m, table.idx, {})
  BY <1>1, <1>2, <1>3, <1>4 DEF Underway, Absent, Left
<1>6. \A f \in m.fields : Final(f, table.cols)
  BY <1>5 DEF ColumnsPending
<1>7. DOMAIN table.idx = DOMAIN m.idx /\ \A n \in DOMAIN m.idx : table.idx[n] = Stored(m.idx[n])
  BY <1>5 DEF IndicesPending
<1>8. Midway(c, m, m, table)
  BY <1>2, <1>5, <1>6, <1>7, Arrived
<1> QED BY <1>1, <1>3, <1>8 DEF Done

LEMMA NextClassHist ==
  ASSUME SupportedHistory, HistInv, NextClass
  PROVE  HistInv'
<1>1. /\ pc = "migrate" /\ cmds = {} /\ UNCHANGED <<schema, file, program, call, failed, wrong>>
      /\ pc' \in {"compare", "truncate"}
      /\ pc' = "compare" => pos' = pos + 1
      /\ pc' = "truncate" => pos = Len(Calls[call])
  BY DEF NextClass
<1>2. IndInv' /\ IndInv /\ UnderwayInv /\ DoneInv
  BY ControlInd DEF HistInv
<1>3. UnderwayInv' /\ \A c \in Classes : Done(c) => Done(c)'
  BY <1>1, <1>2, StoresSame
<1>4. call \in 1..Len(Calls) /\ pos \in 1..Len(Calls[call]) /\ Class = Calls[call][pos]
  BY <1>2, Typing
<1>5. Saved = SavedBefore(call, pos) /\ SavedBefore(call, pos + 1) = Saved \cup {Class}
  BY <1>4, SavedGrows DEF Saved, SavedBefore
<1>6. \A c \in Classes \ (failed \cup wrong) : c \in SavedBefore(call, pos + 1) => Done(c)
  BY <1>1, <1>2, <1>5, ClassDone DEF DoneInv
<1>7. pc' = "compare" => Saved' = SavedBefore(call, pos + 1)
  BY <1>1 DEF Saved, SavedBefore
<1>8. pc' = "truncate" => Classes \subseteq SavedBefore(call, pos + 1)
  BY <1>1, <1>4, SavedGrows, CallTypes DEF SupportedHistory
<1>9. DoneInv'
  BY <1>1, <1>3, <1>6, <1>7, <1>8 DEF DoneInv
<1>10. CommandsInv' /\ PendingInv'
  BY <1>1 DEF CommandsInv, PendingInv
<1> QED BY <1>2, <1>3, <1>9, <1>10 DEF HistInv

\* While every table that is not wrong is finished, records of this program may be
\* written or lost.
LEMMA RecordsWritten ==
  ASSUME SupportedHistory, IndInv, UnderwayInv, wrong \subseteq wrong',
         \A c \in Classes \ wrong' : Done(c), UNCHANGED <<schema, program>>,
         \A c \in DOMAIN file' : file'[c] = program[c]
  PROVE  UnderwayInv' /\ \A c \in Classes \ wrong' : Done(c)'
<1>1. \A c \in Classes \ wrong' : Done(c)'
  BY DEF Done
<1>2. ASSUME NEW c \in Classes \ wrong' PROVE Underway(c)'
  <2>1. PICK m, t, table : m = program[c] /\ t = m.table /\ table = schema[t]
    OBVIOUS
  <2>2. t \in DOMAIN schema /\ Midway(c, m, m, table) /\ WellFormed(m) /\ Underway(c)
    BY <2>1, Setting DEF Done, UnderwayInv
  <2>3. Place(c) = t /\ Place(c)' = t /\ Table(c)' = table
    BY <2>1, <2>2 DEF Place, Table
  <2>4. PICK r : r = Base(c)'
    OBVIOUS
  <2>5. r = m \/ r = Unrecorded(m)
    BY <2>1, <2>4 DEF Base
  <2>6. Pair(c, r, m) /\ Midway(c, r, m, table)
    BY <2>2, <2>5, Unchanged, UnrecordedPair, UnrecordedMidway
  <2>7. \A u \in DOMAIN schema : u \in TableNames(c) => u = t
    BY <2>2, <2>3 DEF Underway
  <2> QED BY <2>1, <2>2, <2>3, <2>4, <2>6, <2>7 DEF Underway, Pair
<1> QED BY <1>1, <1>2 DEF UnderwayInv

LEMMA TruncateHist ==
  ASSUME SupportedHistory, HistInv, Truncate
  PROVE  HistInv'
<1>1. /\ pc = "truncate" /\ pc' = "save" /\ DOMAIN file' = {} /\ UNCHANGED <<schema, program>>
      /\ wrong' = wrong \cup failed
  BY DEF Truncate
<1>2. IndInv' /\ IndInv /\ UnderwayInv /\ \A c \in Classes \ wrong' : Done(c)
  BY <1>1, TruncateInd DEF HistInv, DoneInv
<1>3. UnderwayInv' /\ \A c \in Classes \ wrong' : Done(c)'
  BY <1>1, <1>2, RecordsWritten
<1>4. DoneInv' /\ CommandsInv' /\ PendingInv'
  BY <1>1, <1>3 DEF DoneInv, CommandsInv, PendingInv
<1> QED BY <1>2, <1>3, <1>4 DEF HistInv

LEMMA SaveHist ==
  ASSUME SupportedHistory, HistInv, Save
  PROVE  HistInv'
<1>1. /\ pc = "save" /\ pc' \in {"save", "compare", "up"} /\ UNCHANGED <<schema, program, failed, wrong>>
      /\ file' = [c \in DOMAIN file \cup {Class} |-> IF c \in DOMAIN file THEN file[c] ELSE Model]
  BY DEF Save
<1>2. IndInv' /\ IndInv /\ UnderwayInv /\ failed = {} /\ \A c \in Classes \ wrong' : Done(c)
  BY <1>1, SaveInd DEF HistInv, DoneInv, IndInv, FileInv
<1>3. \A c \in DOMAIN file : file[c] = program[c]
  BY <1>1, <1>2 DEF IndInv, FileInv
<1>4. ASSUME NEW c \in DOMAIN file' PROVE file'[c] = program[c]
  <2>1. c \in DOMAIN file \cup {Class} /\ file'[c] = IF c \in DOMAIN file THEN file[c] ELSE Model
    BY <1>1
  <2> QED BY <1>3, <2>1 DEF Model
<1>5. UnderwayInv' /\ \A c \in Classes \ wrong' : Done(c)'
  BY <1>1, <1>2, <1>4, RecordsWritten
<1>6. DoneInv' /\ CommandsInv' /\ PendingInv'
  BY <1>1, <1>5 DEF DoneInv, CommandsInv, PendingInv
<1> QED BY <1>2, <1>5, <1>6 DEF HistInv

\* A crash loses the commands, and the next process finds them again, also those
\* that failed.
LEMMA StartCrashHist ==
  ASSUME HistInv, Start \/ Crash
  PROVE  HistInv'
<1>1. /\ UNCHANGED <<schema, file, program, wrong>> /\ pc' \in {"down", "compare"} /\ pos' = 1
  BY DEF Start, Crash
<1>2. IndInv' /\ IndInv /\ UnderwayInv
  BY ControlInd DEF HistInv
<1>3. UnderwayInv'
  BY <1>1, <1>2, StoresSame
<1>4. Saved' = {}
  BY <1>1 DEF Saved
<1>5. DoneInv' /\ CommandsInv' /\ PendingInv'
  BY <1>1, <1>4 DEF DoneInv, CommandsInv, PendingInv
<1> QED BY <1>2, <1>3, <1>5 DEF HistInv

\* A new version: every class has its record, and its table is as recorded.
LEMMA DeployHist ==
  ASSUME SupportedHistory, HistInv, Deploy
  PROVE  HistInv'
<1>1. /\ pc = "up" /\ pc' = "down" /\ UNCHANGED <<schema, file, failed, wrong>>
      /\ \/ UNCHANGED program
         \/ program' \in Programs /\ <<program, program'>> \in Evolutions
  BY DEF Deploy
<1>2. IndInv' /\ IndInv /\ UnderwayInv /\ \A c \in Classes \ wrong : Done(c)
  BY <1>1, ControlInd DEF HistInv, DoneInv, IndInv, FileInv
<1>3. DoneInv' /\ CommandsInv' /\ PendingInv'
  BY <1>1 DEF DoneInv, CommandsInv, PendingInv
<1>4. CASE UNCHANGED program
  BY <1>1, <1>2, <1>3, <1>4, StoresSame DEF HistInv
<1>5. CASE program' \in Programs /\ <<program, program'>> \in Evolutions
  <2>1. PICK q \in Programs : q = program'
    BY <1>5
  <2>2. /\ \A c \in Classes : WellFormed(q[c]) /\ WellFormed(program[c])
        /\ \A c \in Classes : SupportedChange(c, program[c], q[c]) /\ q[c].table \in TableNames(c)
    BY <1>2, <1>5, <2>1, Typing, ProgramAssumption DEF SupportedHistory, TableNames
  <2>3. \A c \in Classes : c \in DOMAIN file /\ file[c] = program[c]
    <3>1. DOMAIN file = Range(LastCall) /\ \A c \in DOMAIN file : file[c] = program[c]
      BY <1>1, <1>2 DEF IndInv, FileInv
    <3>2. Classes \subseteq Range(LastCall)
      BY CallTypes DEF SupportedHistory, LastCall
    <3> QED BY <3>1, <3>2
  <2>4. ASSUME NEW c \in Classes \ wrong PROVE Underway(c)'
    <3>1. PICK r, m, table : r = program[c] /\ m = q[c] /\ table = schema[r.table]
      OBVIOUS
    <3>2. Pair(c, r, m) /\ Midway(c, r, r, table) /\ r.table \in DOMAIN schema
      BY <1>2, <2>2, <3>1 DEF Pair, Done
    <3>3. Midway(c, r, m, table)
      BY <3>2, Deployed
    <3>4. Place(c) = r.table
      BY <3>1, <3>2 DEF Place
    <3>5. \A t \in DOMAIN schema : t \in TableNames(c) => t = r.table
      BY <1>2, <3>4 DEF UnderwayInv, Underway
    <3>6. Base(c)' = r /\ program'[c] = m
      BY <1>1, <2>1, <2>3, <3>1 DEF Base
    <3>7. Place(c)' = r.table
      BY <1>1, <2>1, <2>2, <3>1, <3>5, <3>6 DEF Place
    <3>8. Table(c)' = table
      BY <1>1, <3>1, <3>7 DEF Table
    <3> QED BY <1>1, <3>2, <3>3, <3>5, <3>6, <3>7, <3>8 DEF Underway, Pair
  <2> QED BY <1>1, <1>2, <1>3, <2>4 DEF HistInv, UnderwayInv
<1> QED BY <1>1, <1>4, <1>5

LEMMA InitHist ==
  ASSUME SupportedHistory, Init
  PROVE  HistInv
<1>1. IndInv
  BY InitInd
<1>2. DOMAIN schema = {} /\ DOMAIN file = {} /\ pc = "down" /\ program \in FirstPrograms
  BY DEF Init
<1>3. \A c \in Classes : Pair(c, Base(c), program[c])
  BY <1>1, <1>2, Typing, UnrecordedPair DEF Base
<1>4. \A c \in Classes : Creatable(program[c])
  BY <1>2 DEF SupportedHistory
<1>5. UnderwayInv
  BY <1>2, <1>3, <1>4 DEF UnderwayInv, Underway, Absent, Pair
<1> QED BY <1>1, <1>2, <1>5 DEF HistInv, DoneInv, CommandsInv, PendingInv

LEMMA NextHist ==
  ASSUME SupportedHistory, HistInv, [Next]_vars
  PROVE  HistInv'
<1>1. CASE Next
  BY <1>1, StartCrashHist, CompareHist, MigrateHist, NextClassHist, TruncateHist, SaveHist, DeployHist
     DEF Next
<1>2. CASE UNCHANGED vars
  <2>1. UNCHANGED <<schema, file, program, pc, call, pos, cmds, failed, wrong>>
    BY <1>2 DEF vars
  <2>2. IndInv' /\ UnderwayInv /\ DoneInv /\ CommandsInv /\ PendingInv
    BY <1>2, NextInd DEF HistInv
  <2>3. UnderwayInv' /\ \A c \in Classes : Done(c) => Done(c)'
    BY <2>1, <2>2, StoresSame
  <2>4. Class' = Class /\ Saved' = Saved
    BY <2>1 DEF Class, Saved
  <2>5. DoneInv'
    BY <2>1, <2>2, <2>3, <2>4 DEF DoneInv
  <2>6. ASSUME NEW c \in Classes
        PROVE  (Commands(c) => Commands(c)') /\ (Pending(c) => Pending(c)')
    <3>1. /\ Base(c)' = Base(c) /\ Place(c)' = Place(c) /\ Table(c)' = Table(c)
          /\ (Absent(c) => Absent(c)') /\ Rename(c)' = Rename(c)
      BY <2>1 DEF Base, Place, Table, Absent, Rename
    <3>2. \A k : Needed(c, Base(c), program[c], k) => Needed(c, Base(c), program[c], k)'
      BY <2>1, <3>1 DEF Needed
    <3>3. Commands(c) => Commands(c)'
      BY <2>1, <3>1, <3>2 DEF Commands
    <3>4. Pending(c) => Pending(c)'
      BY <2>1, <3>1 DEF Pending
    <3> QED BY <3>3, <3>4
  <2>7. CommandsInv' /\ PendingInv'
    BY <2>1, <2>2, <2>4, <2>6 DEF CommandsInv, PendingInv
  <2> QED BY <2>2, <2>3, <2>5, <2>7 DEF HistInv
<1> QED BY <1>1, <1>2

-----------------------------------------------------------------------------
(* The theorems *)

\* The invariant of supported histories: at every moment each table is midway
\* between what the data file records and what the program says, and while a class
\* is migrated the commands left are those that take it the rest of the way.
THEOREM HistoryInductive ==
  ASSUME SupportedHistory
  PROVE  Spec => []HistInv
<1>1. HistInv /\ [Next]_vars => HistInv'
  BY NextHist
<1> QED BY <1>1, InitHist, PTL DEF Spec

\* AutoMigrate brings every table to its model, whatever supported versions were
\* deployed one after the other and wherever earlier attempts were interrupted:
\* between two ALTER statements, or with the data file truncated and half rewritten.
THEOREM TablesMigrated ==
  ASSUME SupportedHistory
  PROVE  Spec => []Migrated
<1>1. HistInv => Migrated
  BY DoneMatches DEF HistInv, DoneInv, Migrated, IndInv, FileInv
<1> QED BY <1>1, HistoryInductive, PTL

\* No field loses its data to a rename of its column or table, nor gets a column
\* that was created for another field.
THEOREM DataKept ==
  ASSUME SupportedHistory
  PROVE  Spec => []FieldKeepsData
<1>1. HistInv => FieldKeepsData
  BY DoneMatches DEF HistInv, DoneInv, FieldKeepsData, TableMatches, IndInv, FileInv
<1> QED BY <1>1, HistoryInductive, PTL

=============================================================================
